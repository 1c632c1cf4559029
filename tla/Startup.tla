------------------------------ MODULE Startup -------------------------------
(***************************************************************************)
(* parzival-broker from its start to the requests it builds commands for:  *)
(* newServer loads every file of the trust root and verifies it, main      *)
(* clears the socket's path, Serve binds it (internal/broker/broker.go,    *)
(* authz.go, response_config.go, internal/consumer, profile.Load,          *)
(* cmd/parzival-broker/main.go).  What handlers do is in Broker, which     *)
(* assumes what this module shows a started broker to have.                *)
(*                                                                         *)
(* Each file is loaded in one step and verified, by its path, in another.  *)
(* In between, the administrator edits the tree, and so does anybody else  *)
(* as far as owners and modes let them.  The unit runs one broker at a     *)
(* time; it may be killed at any moment and started again.                 *)
(***************************************************************************)
EXTENDS Argv, FiniteSets

CONSTANTS Nodes,       \* files and directories the broker may look at
          Above,       \* the directories a walk to "/" passes, of each node
          DefNames,    \* the names of consumer definitions
          DefPath,     \* <config>/consumers/<name>.json
          ProfileNames,
          ProfilePath, \* <config>/profiles/<name>.json
          AuthzPath,
          Keys,        \* response_config keys the approved validators require:
                       \* of each <<consumer, operation>> that has a validator
          Trees,       \* how the tree may look at first
          Edits,       \* the <<node, text>> the administrator may save
          Forgeries,   \* those anybody else may put there
          Calls,       \* the inputs clients send
          MaxEdits     \* bound: edits of the tree and kills

\* A node: its owner, whether group or others may write it, and its text.  A
\* text has its author (history) and says whether it parses and validates.
\* The texts: a definition's name, executable, profile and operations; a
\* profile's reserved (one of its inject variables is); authz.json's grants.
Node(text, owner, loose) == [text |-> text, owner |-> owner, loose |-> loose]

VARIABLES tree,      \* the nodes that exist
          edits,     \* edits and kills so far
          pc,        \* where the process is
          todo,      \* definition files not yet loaded
          defs,      \* the definitions by name
          verified,  \* names whose definition and executable are verified
          loading,   \* the profile that is loaded and not yet verified, if any
          profiles,  \* the profiles by name
          authz,     \* authz.json
          socket,    \* what is at the socket's path: nothing, or its mode
          argv       \* the last call, and what was made of it

loaded == <<todo, defs, verified, loading, profiles, authz>>
vars == <<tree, edits, pc, loaded, socket, argv>>

NoCall == [consumer |-> "none", op |-> "none", inputs |-> <<>>, refused |-> TRUE, args |-> <<>>]

Nobody == "nobody"

ASSUME StartupConstants ==
    /\ Above \in [Nodes -> SUBSET Nodes] /\ AuthzPath \in Nodes
    /\ DefPath \in [DefNames -> Nodes] /\ ProfilePath \in [ProfileNames -> Nodes]
    /\ MaxEdits \in Nat

\* What a file system is: the directories above one of a node's are above it
\* too, a node is not above itself, and two names are two paths.
ASSUME PathsAssumption ==
    /\ \A n \in Nodes : n \notin Above[n] /\ \A m \in Above[n] : Above[m] \subseteq Above[n]
    /\ \A d, e \in DefNames : DefPath[d] = DefPath[e] => d = e
    /\ IsFiniteSet(DefNames) /\ Nobody \notin ProfileNames

\* Who has written what: the administrator is root, and what somebody else wrote
\* is somebody else's file, or one anybody may write.
ASSUME AuthorsAssumption ==
    /\ \A e \in Edits \cup Forgeries : e[1] \in Nodes
    /\ \A e \in Edits : e[2].author = "root"
    /\ \A t \in Trees : DOMAIN t \subseteq Nodes
    /\ \A t \in Trees : \A n \in DOMAIN t :
         t[n].text.author = "root" \/ t[n].owner # "root" \/ t[n].loose

\* What clients send are texts.
ASSUME CallsAssumption == \A c \in Calls : \A n \in DOMAIN c : IsText(c[n])

Stages == {"down", "definitions", "verify", "profiles", "authz", "verify authz",
           "stale socket", "bind", "mode", "serving", "draining"}

NothingLoaded ==
    /\ todo = {} /\ defs = <<>> /\ verified = {} /\ loading = Nobody
    /\ profiles = <<>> /\ authz = <<>>

Init ==
    /\ tree \in Trees
    /\ edits = 0 /\ pc = "down" /\ NothingLoaded
    /\ socket = "none" /\ argv = NoCall

(***************************************************************************)
(* VerifyTrustRoot: the path and every directory above it, symlinks        *)
(* resolved, belong to root and to nobody else's pen.                      *)
(***************************************************************************)
checkOwnership(n) == n \in DOMAIN tree /\ tree[n].owner = "root" /\ ~tree[n].loose

\* VerifyTrustRoot, of the file alone.
VerifyFileAlone(n) == checkOwnership(n)

VerifyTrustRoot(n) == \A m \in {n} \cup Above[n] : checkOwnership(m)

(***************************************************************************)
(* The tree's other users.                                                 *)
(***************************************************************************)
Edit(n, node) == /\ edits < MaxEdits
                 /\ edits' = edits + 1
                 /\ tree' = [m \in DOMAIN tree \cup {n} |-> IF m = n THEN node ELSE tree[m]]
                 /\ UNCHANGED <<pc, loaded, socket, argv>>

\* The administrator saves a text in a file that exists.
Save == \E e \in Edits : e[1] \in DOMAIN tree /\ Edit(e[1], Node(e[2], tree[e[1]].owner, tree[e[1]].loose))

\* A file is written through its own mode, or replaced through a directory's:
\* by one of somebody else's, or by what the administrator once put there.
Forge ==
    \E e \in Forgeries :
      \/ /\ e[1] \in DOMAIN tree /\ ~checkOwnership(e[1])
         /\ Edit(e[1], Node(e[2], tree[e[1]].owner, tree[e[1]].loose))
      \/ /\ \E d \in Above[e[1]] : ~checkOwnership(d)
         /\ Edit(e[1], Node(e[2], IF e[2].author = "root" THEN "root" ELSE "other", FALSE))

(***************************************************************************)
(* newServer.                                                              *)
(***************************************************************************)
\* The process exits; after an error of newServer, the socket's path is as it was.
Ends ==
    /\ pc' = "down" /\ argv' = NoCall
    /\ todo' = {} /\ defs' = <<>> /\ verified' = {} /\ loading' = Nobody
    /\ profiles' = <<>> /\ authz' = <<>>

Refuse == Ends /\ UNCHANGED <<tree, edits, socket>>
Goto(stage) == pc' = stage /\ UNCHANGED <<tree, edits, socket, argv>>

Start ==
    /\ pc = "down"
    /\ todo' = {n \in DOMAIN tree : \E d \in DefNames : n = DefPath[d]}
    /\ Goto("definitions")
    /\ UNCHANGED <<defs, verified, loading, profiles, authz>>

\* f with x mapped to y.
With(f, x, y) == [z \in DOMAIN f \cup {x} |-> IF z = x THEN y ELSE f[z]]

\* LoadFile, of a definition: it is read, it parses and it validates.
DefinitionLoads(n) ==
    /\ n \in DOMAIN tree /\ tree[n].text.loads
    /\ \A o \in DOMAIN tree[n].text.operations : validOperation(tree[n].text.operations[o])

\* A definition is known by the name it declares, whatever its file is called.
\* (LoadAll goes by file name: that decides which error is reported.)
LoadDefinition(n) ==
    /\ pc = "definitions" /\ n \in todo
    /\ DefinitionLoads(n) /\ tree[n].text.name \notin DOMAIN defs
    /\ todo' = todo \ {n}
    /\ defs' = With(defs, tree[n].text.name, tree[n].text)
    /\ Goto("definitions") /\ UNCHANGED <<verified, loading, profiles, authz>>

LoadDefinitionFails(n) ==
    /\ pc = "definitions" /\ n \in todo
    /\ DefinitionLoads(n) => tree[n].text.name \in DOMAIN defs
    /\ Refuse

DefinitionsLoaded ==
    /\ pc = "definitions" /\ todo = {}
    /\ IF DOMAIN defs = {} THEN Refuse ELSE Goto("verify") /\ UNCHANGED loaded

\* An approved validator for every operation, with exactly the keys it requires
\* and values it accepts (validatorFor).
validatorFor(name, def) ==
    \A o \in DOMAIN def.operations :
      /\ <<name, o>> \in DOMAIN Keys
      /\ def.operations[o].config = Keys[<<name, o>>] /\ def.operations[o].valuesOK

DefinitionHolds(name) ==
    /\ VerifyTrustRoot(DefPath[name])
    /\ VerifyTrustRoot(defs[name].executable)
    /\ validatorFor(name, defs[name])

VerifyDefinition(name) ==
    /\ pc = "verify" /\ name \in DOMAIN defs \ verified
    /\ IF DefinitionHolds(name)
       THEN /\ verified' = verified \cup {name}
            /\ Goto("verify") /\ UNCHANGED <<todo, defs, loading, profiles, authz>>
       ELSE Refuse

DefinitionsVerified ==
    /\ pc = "verify" /\ verified = DOMAIN defs
    /\ Goto("profiles") /\ UNCHANGED loaded

ProfilesNeeded == {defs[name].profile : name \in DOMAIN defs}

LoadProfile(p) ==
    /\ pc = "profiles" /\ loading = Nobody /\ p \in ProfilesNeeded \ DOMAIN profiles
    /\ IF ProfilePath[p] \in DOMAIN tree /\ tree[ProfilePath[p]].text.loads
       THEN /\ profiles' = With(profiles, p, tree[ProfilePath[p]].text)
            /\ loading' = p
            /\ Goto("profiles") /\ UNCHANGED <<todo, defs, verified, authz>>
       ELSE Refuse

\* Its owners, then the variables it wants to inject (checkReservedInjectVars).
VerifyProfile ==
    /\ pc = "profiles" /\ loading # Nobody
    /\ IF VerifyTrustRoot(ProfilePath[loading]) /\ ~profiles[loading].reserved
       THEN /\ loading' = Nobody
            /\ Goto("profiles") /\ UNCHANGED <<todo, defs, verified, profiles, authz>>
       ELSE Refuse

ProfilesVerified ==
    /\ pc = "profiles" /\ loading = Nobody /\ ProfilesNeeded \subseteq DOMAIN profiles
    /\ Goto("authz") /\ UNCHANGED loaded

LoadAuthz ==
    /\ pc = "authz"
    /\ IF AuthzPath \in DOMAIN tree /\ tree[AuthzPath].text.loads
       THEN /\ authz' = tree[AuthzPath].text
            /\ Goto("verify authz") /\ UNCHANGED <<todo, defs, verified, loading, profiles>>
       ELSE Refuse

Declared(name, o) == name \in DOMAIN defs /\ o \in DOMAIN defs[name].operations

\* Validate, which looks for the consumer only.
ValidateConsumer == \A g \in authz.grants : g[2] \in DOMAIN defs

\* Validate: an operation that is granted is declared.
Validate == \A g \in authz.grants : Declared(g[2], g[3])

VerifyAuthz ==
    /\ pc = "verify authz"
    /\ IF VerifyTrustRoot(AuthzPath) /\ Validate
       THEN Goto("stale socket") /\ UNCHANGED loaded
       ELSE Refuse

(***************************************************************************)
(* main and Serve: the socket.                                             *)
(***************************************************************************)
\* RemoveStale, of a main that only binds.
KeepStale == pc = "stale socket" /\ Goto("bind") /\ UNCHANGED loaded

RemoveStale ==
    /\ pc = "stale socket"
    /\ pc' = "bind" /\ socket' = "none"
    /\ UNCHANGED <<tree, edits, loaded, argv>>

\* bind creates the socket with the mode the umask leaves.
Bind ==
    /\ pc = "bind"
    /\ IF socket = "none"
       THEN pc' = "mode" /\ socket' = "narrow" /\ UNCHANGED <<tree, edits, loaded, argv>>
       ELSE Refuse

SetSocketGroupAndMode ==
    /\ pc = "mode"
    /\ pc' = "serving" /\ socket' = "group"
    /\ UNCHANGED <<tree, edits, loaded, argv>>

\* An error of unlink, bind, chown or chmod; Close unlinks what bind created.
SocketFails ==
    /\ pc \in {"stale socket", "bind", "mode"}
    /\ socket' = IF pc = "mode" THEN "none" ELSE socket
    /\ Ends /\ UNCHANGED <<tree, edits>>

\* BuildArgv for an authorized request.
Call(c) ==
    /\ pc = "serving"
    /\ \E g \in authz.grants :
         LET op == defs[g[2]].operations[g[3]]
             accepted == Accepts(op, c) IN
         argv' = [consumer |-> g[2], op |-> g[3], inputs |-> c, refused |-> ~accepted,
                  args |-> IF accepted THEN Arguments(op, c) ELSE <<>>]
    /\ UNCHANGED <<tree, edits, pc, loaded, socket>>

\* A signal: the listener is closed, which unlinks its socket.
Shutdown ==
    /\ pc = "serving"
    /\ pc' = "draining" /\ socket' = "none" /\ argv' = NoCall
    /\ UNCHANGED <<tree, edits, loaded>>

Drained == pc = "draining" /\ Refuse

\* Killed: the socket stays where it is.
Kill ==
    /\ pc # "down" /\ edits < MaxEdits
    /\ edits' = edits + 1
    /\ Ends /\ UNCHANGED <<tree, socket>>

(***************************************************************************)
(* The specification.                                                      *)
(***************************************************************************)
Loads ==
    \/ Start \/ DefinitionsLoaded \/ ProfilesVerified \/ LoadAuthz
    \/ \E n \in todo : LoadDefinition(n) \/ LoadDefinitionFails(n)
    \/ \E p \in ProfileNames : LoadProfile(p)

Verifies ==
    \/ DefinitionsVerified \/ VerifyProfile \/ VerifyAuthz
    \/ \E name \in DefNames : VerifyDefinition(name)

Serves ==
    \/ RemoveStale \/ Bind \/ SetSocketGroupAndMode \/ SocketFails
    \/ Shutdown \/ Drained
    \/ \E c \in Calls : Call(c)

Next == Save \/ Forge \/ Loads \/ Verifies \/ Serves \/ Kill

Spec == Init /\ [][Next]_vars

(***************************************************************************)
(* Safety.                                                                 *)
(***************************************************************************)
Started == pc \in {"stale socket", "bind", "mode", "serving", "draining"}

\* A broker that starts serves nobody's word but root's: every definition,
\* profile and authz.json it holds was written by root, though each was loaded
\* before it was verified and a definition is verified under the name it
\* declares; and so is what it executes (New's comment, broker.go:142-146; consumer.go LoadAll).
OnlyRootsWord ==
    Started =>
      /\ \A name \in DOMAIN defs :
           defs[name].author = "root" /\ tree[defs[name].executable].text.author = "root"
      /\ \A p \in DOMAIN profiles : profiles[p].author = "root"
      /\ authz.author = "root"

\* What Broker assumes of a broker that serves (AuthzValidated, ProfilesLoaded),
\* and session.go of every operation it may be asked for, whatever is edited
\* while it starts: grants resolve, profiles are there, validators are bound.
Coherent ==
    Started =>
      /\ DOMAIN defs # {} /\ DOMAIN profiles = ProfilesNeeded
      /\ \A p \in DOMAIN profiles : ~profiles[p].reserved
      /\ \A g \in authz.grants : Declared(g[2], g[3])
      /\ \A name \in DOMAIN defs : validatorFor(name, defs[name])

\* A broker that serves can be reached by those it authorizes, also when the one
\* before it was killed and left its socket (main.go, the stale socket).
Reachable ==
    /\ pc = "bind" => socket = "none"
    /\ pc = "serving" => socket = "group"
    /\ pc = "draining" => socket = "none"

\* Whatever is called, substitute finds an input for every placeholder: what it
\* does not ask any more was asked when the definition was loaded
\* (consumer.go:335-346, 500-525).
Filled ==
    ~argv.refused =>
      LET op == defs[argv.consumer].operations[argv.op] IN
        \A i \in DOMAIN op.argv : Substitutes(op.argv[i], Values(op, argv.inputs))

\* What was meant by op, of these values: one argument for each template, and
\* none that reads as an option unless it was meant to or begins with an input
\* that is empty.
MeantBy(op, values, args) ==
    /\ args = [i \in DOMAIN op.meant |-> Meaning(op.meant[i], values)]
    /\ \A i \in DOMAIN args :
         args[i] # <<>> /\ args[i][1] = "-" =>
           LET first == op.meant[i][1] IN
             \/ first.literal
             \/ op.inputs[first.text].allowLeadingDash \/ values[first.text] = <<>>

\* Called is what the administrator meant, with the inputs in the places of their
\* names and nowhere else, whatever they look like (BuildArgv, "the only path
\* from client-supplied data to something that gets executed").
AsMeant ==
    /\ Filled
    /\ ~argv.refused =>
         LET op == defs[argv.consumer].operations[argv.op] IN
           Spells(op) => MeantBy(op, Values(op, argv.inputs), argv.args)

(***************************************************************************)
(* Why they hold.  A node's trust is fixed: whoever may not write it cannot *)
(* come to be trusted with it (StartupProofs), so that what is found sound  *)
(* was written by root also when it was loaded.                             *)
(***************************************************************************)
Trusted == {n \in Nodes : VerifyTrustRoot(n)}

\* A text that is not root's is in a node that is not root's alone.
Attributed ==
    /\ DOMAIN tree \subseteq Nodes
    /\ \A n \in DOMAIN tree : checkOwnership(n) => tree[n].text.author = "root"

\* Definitions come from different files, root's from those that are sound; and
\* no sound definition file is passed over.
Traces(file) ==
    /\ \A k, l \in DOMAIN defs : file[k] = file[l] => k = l
    /\ \A k \in DOMAIN defs :
         file[k] \notin todo /\ (file[k] \in Trusted => defs[k].author = "root")
    /\ pc # "down" => \A d \in DefNames :
         DefPath[d] \in Trusted => DefPath[d] \in todo \cup {file[k] : k \in DOMAIN defs}
Traced == todo \subseteq Nodes /\ \E file \in [DOMAIN defs -> Nodes] : Traces(file)

\* What each stage leaves behind it.
DefinitionsChecked ==
    /\ pc = "down" => DOMAIN defs = {}
    /\ pc \in {"down", "definitions"} => verified = {}
    /\ pc \notin {"down", "definitions"} => todo = {} /\ DOMAIN defs # {}
    /\ pc \notin {"down", "definitions", "verify"} => verified = DOMAIN defs
    /\ verified \subseteq DOMAIN defs \cap DefNames
    /\ \A name \in verified : {DefPath[name], defs[name].executable} \subseteq Trusted
                               /\ validatorFor(name, defs[name])

ProfilesChecked ==
    /\ pc \in {"down", "definitions", "verify"} => DOMAIN profiles = {} /\ loading = Nobody
    /\ pc \notin {"down", "definitions", "verify", "profiles"} =>
         loading = Nobody /\ ProfilesNeeded \subseteq DOMAIN profiles
    /\ DOMAIN profiles \subseteq ProfilesNeeded \cap ProfileNames
    /\ \A p \in DOMAIN profiles :
         /\ ProfilePath[p] \in Trusted => profiles[p].author = "root"
         /\ p # loading => ProfilePath[p] \in Trusted /\ ~profiles[p].reserved

AuthzChecked ==
    /\ pc = "verify authz" \/ Started => (AuthzPath \in Trusted => authz.author = "root")
    /\ Started => AuthzPath \in Trusted /\ Validate

\* What can be called: operations whose templates were parsed; and what was called
\* is still there, and was built from inputs that were accepted.
Callable ==
    /\ \A k \in DOMAIN defs : \A o \in DOMAIN defs[k].operations : validOperation(defs[k].operations[o])
    /\ ~argv.refused =>
         /\ pc = "serving" /\ Declared(argv.consumer, argv.op) /\ argv.inputs \in Calls
         /\ LET op == defs[argv.consumer].operations[argv.op] IN
              Accepts(op, argv.inputs) /\ argv.args = Arguments(op, argv.inputs)

\* The inductive invariant.
Inductive ==
    /\ pc \in Stages /\ Attributed /\ Traced
    /\ DefinitionsChecked /\ ProfilesChecked /\ AuthzChecked /\ Reachable /\ Callable
=============================================================================
