---------------------------- MODULE StartupProofs ----------------------------
(***************************************************************************)
(* For every tree, every set of names and whatever is edited while the     *)
(* broker starts: what a broker that serves has loaded is root's and fits  *)
(* together, and what it executes for a call is what was meant by the      *)
(* template.  The inductive invariant is Inductive of Startup.             *)
(***************************************************************************)
EXTENDS Startup, Integers, FiniteSetTheorems, SequenceTheorems, WellFoundedInduction, TLAPS

\* A sound path is one of nodes that exist.
LEMMA TrustedMeans ==
  ASSUME Attributed, NEW n
  PROVE  VerifyTrustRoot(n) <=> n \in Trusted
  BY DEF Attributed, Trusted, VerifyTrustRoot, checkOwnership

\* Trust is of the tree alone.
LEMMA UnchangedTrust ==
  ASSUME UNCHANGED tree
  PROVE  Trusted' = Trusted /\ (Attributed => Attributed')
  BY DEF Trusted, VerifyTrustRoot, checkOwnership, Attributed

\* What is trusted is root's word.
LEMMA TrustedAuthor ==
  ASSUME Attributed, NEW n \in Trusted
  PROVE  n \in DOMAIN tree /\ tree[n].text.author = "root"
  BY DEF Attributed, Trusted, VerifyTrustRoot, checkOwnership

\* The profiles needed are those of the definitions.
LEMMA SameNeeded ==
  ASSUME UNCHANGED defs
  PROVE  ProfilesNeeded' = ProfilesNeeded
  BY DEF ProfilesNeeded

\* A process that ends has nothing left.
LEMMA EndsEmpty ==
  ASSUME Ends
  PROVE  /\ DOMAIN defs' = {} /\ DOMAIN profiles' = {} /\ todo' = {} /\ verified' = {}
         /\ loading' = Nobody /\ pc' = "down"
  BY DEF Ends

\* So no profile is unverified.
LEMMA EndsUnprofiled ==
  ASSUME Ends
  PROVE  ProfilesChecked'
  BY EndsEmpty DEF ProfilesChecked

\* No step changes what is to be trusted: nobody gets write access to a node
\* of a sound path, and no path that is not sound becomes so.
LEMMA TrustIsFixed ==
  ASSUME Attributed, [Next]_vars
  PROVE  Trusted' = Trusted /\ Attributed'
<1>1. CASE Save
  <2>1. PICK e \in Edits : e[1] \in DOMAIN tree
                         /\ Edit(e[1], Node(e[2], tree[e[1]].owner, tree[e[1]].loose))
    BY <1>1 DEF Save
  <2>2. \A m : checkOwnership(m)' <=> checkOwnership(m)
    BY <2>1 DEF Edit, checkOwnership, Node
  <2>3. Trusted' = Trusted
    BY <2>2 DEF Trusted, VerifyTrustRoot
  <2>4. Attributed'
    BY <2>1, AuthorsAssumption DEF Attributed, Edit, checkOwnership, Node
  <2> QED
    BY <2>3, <2>4
<1>2. CASE Forge
  <2>1. PICK e \in Forgeries :
          \/ /\ e[1] \in DOMAIN tree /\ ~checkOwnership(e[1])
             /\ Edit(e[1], Node(e[2], tree[e[1]].owner, tree[e[1]].loose))
          \/ /\ \E d \in Above[e[1]] : ~checkOwnership(d)
             /\ Edit(e[1], Node(e[2], IF e[2].author = "root" THEN "root" ELSE "other", FALSE))
    BY <1>2 DEF Forge
  <2>2. e[1] \in Nodes
    BY AuthorsAssumption
  <2>3. \A m : m # e[1] => (checkOwnership(m)' <=> checkOwnership(m))
    BY <2>1 DEF Edit, checkOwnership
  <2>4. ASSUME NEW n \in Nodes
        PROVE  VerifyTrustRoot(n)' <=> VerifyTrustRoot(n)
    <3>1. CASE e[1] \notin {n} \cup Above[n]
      BY <2>3, <3>1 DEF VerifyTrustRoot
    <3>2. CASE e[1] \in {n} \cup Above[n] /\ ~checkOwnership(e[1]) /\ ~checkOwnership(e[1])'
      BY <3>2 DEF VerifyTrustRoot
    <3>3. CASE e[1] \in {n} \cup Above[n] /\ \E d \in Above[e[1]] : ~checkOwnership(d)
      <4>1. PICK d \in Above[e[1]] : ~checkOwnership(d)
        BY <3>3
      <4>2. d \in Above[n] /\ d # e[1]
        BY <3>3, <2>2, PathsAssumption
      <4>3. ~checkOwnership(d)'
        BY <4>1, <4>2, <2>3
      <4> QED
        BY <4>1, <4>2, <4>3 DEF VerifyTrustRoot
    <3>4. \/ ~checkOwnership(e[1]) /\ ~checkOwnership(e[1])'
          \/ \E d \in Above[e[1]] : ~checkOwnership(d)
      BY <2>1 DEF Edit, checkOwnership, Node
    <3> QED
      BY <3>1, <3>2, <3>3, <3>4
  <2>5. Trusted' = Trusted
    BY <2>4 DEF Trusted
  <2>6. Attributed'
    BY <2>1, <2>2 DEF Attributed, Edit, checkOwnership, Node
  <2> QED
    BY <2>5, <2>6
<1>3. CASE Start
  BY <1>3, UnchangedTrust DEF Start, Goto
<1>4. ASSUME NEW n \in todo, LoadDefinition(n) PROVE Trusted' = Trusted /\ Attributed'
  BY <1>4, UnchangedTrust DEF LoadDefinition, Goto
<1>5. ASSUME NEW n \in todo, LoadDefinitionFails(n) PROVE Trusted' = Trusted /\ Attributed'
  BY <1>5, UnchangedTrust DEF LoadDefinitionFails, Refuse, Ends
<1>6. CASE DefinitionsLoaded
  BY <1>6, UnchangedTrust DEF DefinitionsLoaded, Refuse, Ends, Goto
<1>7. ASSUME NEW p \in ProfileNames, LoadProfile(p) PROVE Trusted' = Trusted /\ Attributed'
  BY <1>7, UnchangedTrust DEF LoadProfile, Goto, Refuse, Ends
<1>8. CASE ProfilesVerified
  BY <1>8, UnchangedTrust DEF ProfilesVerified, Goto
<1>9. CASE LoadAuthz
  BY <1>9, UnchangedTrust DEF LoadAuthz, Goto, Refuse, Ends
<1>10. CASE DefinitionsVerified
  BY <1>10, UnchangedTrust DEF DefinitionsVerified, Goto
<1>11. CASE VerifyProfile
  BY <1>11, UnchangedTrust DEF VerifyProfile, Goto, Refuse, Ends
<1>12. CASE VerifyAuthz
  BY <1>12, UnchangedTrust DEF VerifyAuthz, Goto, Refuse, Ends
<1>13. ASSUME NEW name \in DefNames, VerifyDefinition(name) PROVE Trusted' = Trusted /\ Attributed'
  BY <1>13, UnchangedTrust DEF VerifyDefinition, Goto, Refuse, Ends
<1>14. CASE RemoveStale
  BY <1>14, UnchangedTrust DEF RemoveStale
<1>15. CASE Bind
  BY <1>15, UnchangedTrust DEF Bind, Refuse, Ends
<1>16. CASE SetSocketGroupAndMode
  BY <1>16, UnchangedTrust DEF SetSocketGroupAndMode
<1>17. CASE SocketFails
  BY <1>17, UnchangedTrust DEF SocketFails, Ends
<1>18. CASE Shutdown
  BY <1>18, UnchangedTrust DEF Shutdown
<1>19. CASE Drained
  BY <1>19, UnchangedTrust DEF Drained, Refuse, Ends
<1>20. ASSUME NEW c \in Calls, Call(c) PROVE Trusted' = Trusted /\ Attributed'
  BY <1>20, UnchangedTrust DEF Call
<1>21. CASE Kill
  BY <1>21, UnchangedTrust DEF Kill, Ends
<1>22. CASE UNCHANGED vars
  BY <1>22, UnchangedTrust DEF vars
<1> QED
  BY <1>1, <1>2, <1>3, <1>4, <1>5, <1>6, <1>7, <1>8, <1>9, <1>10, <1>11, <1>12,
       <1>13, <1>14, <1>15, <1>16, <1>17, <1>18, <1>19, <1>20, <1>21, <1>22 DEF Next,
       Loads, Verifies, Serves

\* The stages of newServer and Serve.
LEMMA StagesPreserved ==
  ASSUME pc \in Stages /\ Reachable, [Next]_vars
  PROVE  pc' \in Stages /\ Reachable'
<1>1. CASE Save
  BY <1>1 DEF Save, Edit, Reachable, Stages
<1>2. CASE Forge
  BY <1>2 DEF Forge, Edit, Reachable, Stages
<1>3. CASE Start
  BY <1>3 DEF Start, Goto, Reachable, Stages
<1>4. ASSUME NEW n \in todo, LoadDefinition(n) PROVE pc' \in Stages /\ Reachable'
  BY <1>4 DEF LoadDefinition, Goto, Reachable, Stages
<1>5. ASSUME NEW n \in todo, LoadDefinitionFails(n) PROVE pc' \in Stages /\ Reachable'
  BY <1>5 DEF LoadDefinitionFails, Refuse, Ends, Reachable, Stages
<1>6. CASE DefinitionsLoaded
  BY <1>6 DEF DefinitionsLoaded, Refuse, Ends, Goto, Reachable, Stages
<1>7. ASSUME NEW p \in ProfileNames, LoadProfile(p) PROVE pc' \in Stages /\ Reachable'
  BY <1>7 DEF LoadProfile, Goto, Refuse, Ends, Reachable, Stages
<1>8. CASE ProfilesVerified
  BY <1>8 DEF ProfilesVerified, Goto, Reachable, Stages
<1>9. CASE LoadAuthz
  BY <1>9 DEF LoadAuthz, Goto, Refuse, Ends, Reachable, Stages
<1>10. CASE DefinitionsVerified
  BY <1>10 DEF DefinitionsVerified, Goto, Reachable, Stages
<1>11. CASE VerifyProfile
  BY <1>11 DEF VerifyProfile, Goto, Refuse, Ends, Reachable, Stages
<1>12. CASE VerifyAuthz
  BY <1>12 DEF VerifyAuthz, Goto, Refuse, Ends, Reachable, Stages
<1>13. ASSUME NEW name \in DefNames, VerifyDefinition(name) PROVE pc' \in Stages /\ Reachable'
  BY <1>13 DEF VerifyDefinition, Goto, Refuse, Ends, Reachable, Stages
<1>14. CASE RemoveStale
  BY <1>14 DEF RemoveStale, Reachable, Stages
<1>15. CASE Bind
  BY <1>15 DEF Bind, Refuse, Ends, Reachable, Stages
<1>16. CASE SetSocketGroupAndMode
  BY <1>16 DEF SetSocketGroupAndMode, Reachable, Stages
<1>17. CASE SocketFails
  BY <1>17 DEF SocketFails, Ends, Reachable, Stages
<1>18. CASE Shutdown
  BY <1>18 DEF Shutdown, Reachable, Stages
<1>19. CASE Drained
  BY <1>19 DEF Drained, Refuse, Ends, Reachable, Stages
<1>20. ASSUME NEW c \in Calls, Call(c) PROVE pc' \in Stages /\ Reachable'
  BY <1>20 DEF Call, Reachable, Stages
<1>21. CASE Kill
  BY <1>21 DEF Kill, Ends, Reachable, Stages
<1>22. CASE UNCHANGED vars
  BY <1>22 DEF vars, Reachable, Stages
<1> QED
  BY <1>1, <1>2, <1>3, <1>4, <1>5, <1>6, <1>7, <1>8, <1>9, <1>10, <1>11, <1>12,
       <1>13, <1>14, <1>15, <1>16, <1>17, <1>18, <1>19, <1>20, <1>21, <1>22 DEF Next,
       Loads, Verifies, Serves

\* A name is verified once its file, its executable and its validators are.
LEMMA DefinitionsPreserved ==
  ASSUME Attributed, Trusted' = Trusted, pc \in Stages, DefinitionsChecked, Traced, [Next]_vars
  PROVE  DefinitionsChecked'
<1>1. CASE Save
  BY <1>1, TrustedMeans, EndsEmpty DEF Save, Edit, loaded, DefinitionsChecked,
       Stages
<1>2. CASE Forge
  BY <1>2, TrustedMeans, EndsEmpty DEF Forge, Edit, loaded, DefinitionsChecked,
       Stages
<1>3. CASE Start
  BY <1>3, TrustedMeans, EndsEmpty DEF Start, Goto, DefinitionsChecked, Stages
<1>4. ASSUME NEW n \in todo, LoadDefinition(n) PROVE DefinitionsChecked'
  BY <1>4, TrustedMeans, EndsEmpty DEF LoadDefinition, With, Goto,
       DefinitionsChecked, Stages
<1>5. ASSUME NEW n \in todo, LoadDefinitionFails(n) PROVE DefinitionsChecked'
  BY <1>5, TrustedMeans, EndsEmpty DEF LoadDefinitionFails, Refuse,
       DefinitionsChecked, Stages
<1>6. CASE DefinitionsLoaded
  BY <1>6, TrustedMeans, EndsEmpty DEF DefinitionsLoaded, Refuse, Goto, loaded,
       DefinitionsChecked, Stages
<1>7. ASSUME NEW p \in ProfileNames, LoadProfile(p) PROVE DefinitionsChecked'
  BY <1>7, TrustedMeans, EndsEmpty DEF LoadProfile, ProfilesNeeded, With, Goto,
       Refuse, DefinitionsChecked, Stages
<1>8. CASE ProfilesVerified
  BY <1>8, TrustedMeans, EndsEmpty DEF ProfilesVerified, ProfilesNeeded, Goto,
       loaded, DefinitionsChecked, Stages
<1>9. CASE LoadAuthz
  BY <1>9, TrustedMeans, EndsEmpty DEF LoadAuthz, Goto, Refuse, DefinitionsChecked,
       Stages
<1>10. CASE DefinitionsVerified
  BY <1>10, TrustedMeans, EndsEmpty DEF DefinitionsVerified, Goto, loaded,
       DefinitionsChecked, Stages
<1>11. CASE VerifyProfile
  BY <1>11, TrustedMeans, EndsEmpty DEF VerifyProfile, Goto, Refuse,
       DefinitionsChecked, Stages
<1>12. CASE VerifyAuthz
  BY <1>12, TrustedMeans, EndsEmpty DEF VerifyAuthz, Goto, loaded, Refuse,
       DefinitionsChecked, Stages
<1>13. ASSUME NEW name \in DefNames, VerifyDefinition(name) PROVE DefinitionsChecked'
  BY <1>13, TrustedMeans, EndsEmpty DEF VerifyDefinition, DefinitionHolds, Goto,
       Refuse, DefinitionsChecked, Stages
<1>14. CASE RemoveStale
  BY <1>14, TrustedMeans, EndsEmpty DEF RemoveStale, loaded, DefinitionsChecked,
       Stages
<1>15. CASE Bind
  BY <1>15, TrustedMeans, EndsEmpty DEF Bind, loaded, Refuse, DefinitionsChecked,
       Stages
<1>16. CASE SetSocketGroupAndMode
  BY <1>16, TrustedMeans, EndsEmpty DEF SetSocketGroupAndMode, loaded,
       DefinitionsChecked, Stages
<1>17. CASE SocketFails
  BY <1>17, TrustedMeans, EndsEmpty DEF SocketFails, DefinitionsChecked, Stages
<1>18. CASE Shutdown
  BY <1>18, TrustedMeans, EndsEmpty DEF Shutdown, loaded, DefinitionsChecked, Stages
<1>19. CASE Drained
  BY <1>19, TrustedMeans, EndsEmpty DEF Drained, Refuse, DefinitionsChecked, Stages
<1>20. ASSUME NEW c \in Calls, Call(c) PROVE DefinitionsChecked'
  BY <1>20, TrustedMeans, EndsEmpty DEF Call, loaded, DefinitionsChecked, Stages
<1>21. CASE Kill
  BY <1>21, TrustedMeans, EndsEmpty DEF Kill, DefinitionsChecked, Stages
<1>22. CASE UNCHANGED vars
  BY <1>22, TrustedMeans, EndsEmpty DEF vars, loaded, DefinitionsChecked, Stages
<1> QED
  BY <1>1, <1>2, <1>3, <1>4, <1>5, <1>6, <1>7, <1>8, <1>9, <1>10, <1>11, <1>12,
       <1>13, <1>14, <1>15, <1>16, <1>17, <1>18, <1>19, <1>20, <1>21, <1>22 DEF Next,
       Loads, Verifies, Serves

\* A profile is verified before the next is loaded.
LEMMA ProfilesPreserved ==
  ASSUME Attributed, Trusted' = Trusted, pc \in Stages, DefinitionsChecked, ProfilesChecked, [Next]_vars
  PROVE  ProfilesChecked'
<1>1. CASE Save
  BY <1>1, TrustedMeans, TrustedAuthor, SameNeeded, PathsAssumption DEF Save, Edit,
       loaded, ProfilesChecked, DefinitionsChecked, Stages
<1>2. CASE Forge
  BY <1>2, TrustedMeans, TrustedAuthor, SameNeeded, PathsAssumption DEF Forge, Edit,
       loaded, ProfilesChecked, DefinitionsChecked, Stages
<1>3. CASE Start
  BY <1>3, TrustedMeans, TrustedAuthor, SameNeeded, PathsAssumption DEF Start, Goto,
       ProfilesChecked, DefinitionsChecked, Stages
<1>4. ASSUME NEW n \in todo, LoadDefinition(n) PROVE ProfilesChecked'
  BY <1>4, TrustedMeans, TrustedAuthor, SameNeeded, PathsAssumption DEF
       LoadDefinition, With, Goto, ProfilesChecked, DefinitionsChecked, Stages
<1>5. ASSUME NEW n \in todo, LoadDefinitionFails(n) PROVE ProfilesChecked'
  BY <1>5, TrustedMeans, TrustedAuthor, SameNeeded, PathsAssumption DEF
       LoadDefinitionFails, Refuse, Ends, ProfilesChecked, DefinitionsChecked, Stages
<1>6. CASE DefinitionsLoaded
  BY <1>6, TrustedMeans, TrustedAuthor, SameNeeded, PathsAssumption DEF
       DefinitionsLoaded, Refuse, Ends, Goto, loaded, ProfilesChecked,
       DefinitionsChecked, Stages
<1>7. ASSUME NEW p \in ProfileNames, LoadProfile(p) PROVE ProfilesChecked'
  BY <1>7, TrustedMeans, TrustedAuthor, SameNeeded, PathsAssumption DEF LoadProfile,
       With, Goto, Refuse, Ends, ProfilesChecked, DefinitionsChecked, Stages
<1>8. CASE ProfilesVerified
  BY <1>8, TrustedMeans, TrustedAuthor, SameNeeded, PathsAssumption DEF
       ProfilesVerified, Goto, loaded, ProfilesChecked, DefinitionsChecked, Stages
<1>9. CASE LoadAuthz
  <2>1. CASE Ends
    BY <2>1, EndsUnprofiled
  <2>2. CASE /\ pc \notin {"down", "definitions", "verify", "profiles"}
              /\ pc' = "verify authz" /\ UNCHANGED <<defs, loading, profiles>>
    BY <2>2, SameNeeded DEF ProfilesChecked
  <2> QED
    BY <1>9, <2>1, <2>2 DEF LoadAuthz, Goto, Refuse, loaded
<1>10. CASE DefinitionsVerified
  BY <1>10, TrustedMeans, TrustedAuthor, SameNeeded, PathsAssumption DEF
       DefinitionsVerified, Goto, loaded, ProfilesChecked, DefinitionsChecked, Stages
<1>11. CASE VerifyProfile
  BY <1>11, TrustedMeans, TrustedAuthor, SameNeeded, PathsAssumption DEF
       VerifyProfile, Goto, Refuse, Ends, ProfilesChecked, DefinitionsChecked, Stages
<1>12. CASE VerifyAuthz
  <2>1. CASE Ends
    BY <2>1, EndsUnprofiled
  <2>2. CASE /\ pc \notin {"down", "definitions", "verify", "profiles"}
              /\ pc' = "stale socket" /\ UNCHANGED <<defs, loading, profiles>>
    BY <2>2, SameNeeded DEF ProfilesChecked
  <2> QED
    BY <1>12, <2>1, <2>2 DEF VerifyAuthz, Goto, Refuse, loaded
<1>13. ASSUME NEW name \in DefNames, VerifyDefinition(name) PROVE ProfilesChecked'
  BY <1>13, TrustedMeans, TrustedAuthor, SameNeeded, PathsAssumption DEF
       VerifyDefinition, DefinitionHolds, Goto, Refuse, Ends, ProfilesChecked,
       DefinitionsChecked, Stages
<1>14. CASE RemoveStale
  BY <1>14, TrustedMeans, TrustedAuthor, SameNeeded, PathsAssumption DEF
       RemoveStale, loaded, ProfilesChecked, DefinitionsChecked, Stages
<1>15. CASE Bind
  BY <1>15, TrustedMeans, TrustedAuthor, SameNeeded, PathsAssumption DEF Bind,
       loaded, Refuse, Ends, ProfilesChecked, DefinitionsChecked, Stages
<1>16. CASE SetSocketGroupAndMode
  BY <1>16, TrustedMeans, TrustedAuthor, SameNeeded, PathsAssumption DEF
       SetSocketGroupAndMode, loaded, ProfilesChecked, DefinitionsChecked, Stages
<1>17. CASE SocketFails
  BY <1>17, EndsUnprofiled DEF SocketFails
<1>18. CASE Shutdown
  BY <1>18, TrustedMeans, TrustedAuthor, SameNeeded, PathsAssumption DEF Shutdown,
       loaded, ProfilesChecked, DefinitionsChecked, Stages
<1>19. CASE Drained
  BY <1>19, TrustedMeans, TrustedAuthor, SameNeeded, PathsAssumption DEF Drained,
       Refuse, Ends, ProfilesChecked, DefinitionsChecked, Stages
<1>20. ASSUME NEW c \in Calls, Call(c) PROVE ProfilesChecked'
  BY <1>20, TrustedMeans, TrustedAuthor, SameNeeded, PathsAssumption DEF Call,
       loaded, ProfilesChecked, DefinitionsChecked, Stages
<1>21. CASE Kill
  BY <1>21, EndsUnprofiled DEF Kill
<1>22. CASE UNCHANGED vars
  BY <1>22, TrustedMeans, TrustedAuthor, SameNeeded, PathsAssumption DEF vars,
       loaded, ProfilesChecked, DefinitionsChecked, Stages
<1> QED
  BY <1>1, <1>2, <1>3, <1>4, <1>5, <1>6, <1>7, <1>8, <1>9, <1>10, <1>11, <1>12,
       <1>13, <1>14, <1>15, <1>16, <1>17, <1>18, <1>19, <1>20, <1>21, <1>22 DEF Next,
       Loads, Verifies, Serves

\* authz.json is validated against the definitions that are served.
LEMMA AuthzPreserved ==
  ASSUME Attributed, Trusted' = Trusted, pc \in Stages, DefinitionsChecked, AuthzChecked, [Next]_vars
  PROVE  AuthzChecked'
<1>1. CASE Save
  BY <1>1, TrustedMeans, TrustedAuthor DEF Save, Edit, loaded, AuthzChecked,
       Started, Validate, Declared, Stages
<1>2. CASE Forge
  BY <1>2, TrustedMeans, TrustedAuthor DEF Forge, Edit, loaded, AuthzChecked,
       Started, Validate, Declared, Stages
<1>3. CASE Start
  BY <1>3, TrustedMeans, TrustedAuthor DEF Start, Goto, AuthzChecked, Started,
       Validate, Declared, Stages
<1>4. ASSUME NEW n \in todo, LoadDefinition(n) PROVE AuthzChecked'
  BY <1>4, TrustedMeans, TrustedAuthor DEF LoadDefinition, With, Goto, AuthzChecked,
       Started, Validate, Declared, Stages
<1>5. ASSUME NEW n \in todo, LoadDefinitionFails(n) PROVE AuthzChecked'
  BY <1>5, TrustedMeans, TrustedAuthor DEF LoadDefinitionFails, Refuse, Ends,
       AuthzChecked, Started, Validate, Declared, Stages
<1>6. CASE DefinitionsLoaded
  BY <1>6, TrustedMeans, TrustedAuthor DEF DefinitionsLoaded, Refuse, Ends, Goto,
       loaded, AuthzChecked, Started, Validate, Declared, Stages
<1>7. ASSUME NEW p \in ProfileNames, LoadProfile(p) PROVE AuthzChecked'
  BY <1>7, TrustedMeans, TrustedAuthor DEF LoadProfile, ProfilesNeeded, With, Goto,
       Refuse, Ends, AuthzChecked, Started, Validate, Declared, Stages
<1>8. CASE ProfilesVerified
  BY <1>8, TrustedMeans, TrustedAuthor DEF ProfilesVerified, ProfilesNeeded, Goto,
       loaded, AuthzChecked, Started, Validate, Declared, Stages
<1>9. CASE LoadAuthz
  BY <1>9, TrustedMeans, TrustedAuthor DEF LoadAuthz, Goto, Refuse, Ends,
       AuthzChecked, Started, Validate, Declared, Stages
<1>10. CASE DefinitionsVerified
  BY <1>10, TrustedMeans, TrustedAuthor DEF DefinitionsVerified, Goto, loaded,
       AuthzChecked, Started, Validate, Declared, Stages
<1>11. CASE VerifyProfile
  BY <1>11, TrustedMeans, TrustedAuthor DEF VerifyProfile, Goto, Refuse, Ends,
       AuthzChecked, Started, Validate, Declared, Stages
<1>12. CASE VerifyAuthz
  BY <1>12, TrustedMeans, TrustedAuthor DEF VerifyAuthz, Validate, Declared, Goto,
       loaded, Refuse, Ends, AuthzChecked, Started, Stages
<1>13. ASSUME NEW name \in DefNames, VerifyDefinition(name) PROVE AuthzChecked'
  BY <1>13, TrustedMeans, TrustedAuthor DEF VerifyDefinition, DefinitionHolds, Goto,
       Refuse, Ends, AuthzChecked, Started, Validate, Declared, Stages
<1>14. CASE RemoveStale
  BY <1>14, TrustedMeans, TrustedAuthor DEF RemoveStale, loaded, AuthzChecked,
       Started, Validate, Declared, Stages
<1>15. CASE Bind
  BY <1>15, TrustedMeans, TrustedAuthor DEF Bind, loaded, Refuse, Ends,
       AuthzChecked, Started, Validate, Declared, Stages
<1>16. CASE SetSocketGroupAndMode
  BY <1>16, TrustedMeans, TrustedAuthor DEF SetSocketGroupAndMode, loaded,
       AuthzChecked, Started, Validate, Declared, Stages
<1>17. CASE SocketFails
  BY <1>17, TrustedMeans, TrustedAuthor DEF SocketFails, Ends, AuthzChecked,
       Started, Validate, Declared, Stages
<1>18. CASE Shutdown
  BY <1>18, TrustedMeans, TrustedAuthor DEF Shutdown, loaded, AuthzChecked, Started,
       Validate, Declared, Stages
<1>19. CASE Drained
  BY <1>19, TrustedMeans, TrustedAuthor DEF Drained, Refuse, Ends, AuthzChecked,
       Started, Validate, Declared, Stages
<1>20. ASSUME NEW c \in Calls, Call(c) PROVE AuthzChecked'
  BY <1>20, TrustedMeans, TrustedAuthor DEF Call, loaded, AuthzChecked, Started,
       Validate, Declared, Stages
<1>21. CASE Kill
  BY <1>21, TrustedMeans, TrustedAuthor DEF Kill, Ends, AuthzChecked, Started,
       Validate, Declared, Stages
<1>22. CASE UNCHANGED vars
  BY <1>22, TrustedMeans, TrustedAuthor DEF vars, loaded, AuthzChecked, Started,
       Validate, Declared, Stages
<1> QED
  BY <1>1, <1>2, <1>3, <1>4, <1>5, <1>6, <1>7, <1>8, <1>9, <1>10, <1>11, <1>12,
       <1>13, <1>14, <1>15, <1>16, <1>17, <1>18, <1>19, <1>20, <1>21, <1>22 DEF Next,
       Loads, Verifies, Serves

\* Steps that load no definition.
LEMMA TracedFrame ==
  ASSUME Traced, Trusted' = Trusted, UNCHANGED <<todo, defs>>, pc # "down" \/ pc' = "down"
  PROVE  Traced'
<1>1. PICK file \in [DOMAIN defs -> Nodes] : Traces(file)
  BY DEF Traced
<1>2. Traces(file)'
  BY <1>1 DEF Traces
<1> QED
  BY <1>1, <1>2 DEF Traced, Traces

\* With no definition there is nothing to trace.
LEMMA TracedEnds ==
  ASSUME DOMAIN defs' = {}, todo' = {}, pc' = "down"
  PROVE  Traced'
<1>1. PICK file \in [DOMAIN defs' -> Nodes] : TRUE
  <2>1. [k \in DOMAIN defs' |-> Nobody] \in [DOMAIN defs' -> Nodes]
    OBVIOUS
  <2> QED
    BY <2>1
<1>2. Traces(file)'
  BY DEF Traces
<1> QED
  BY <1>1, <1>2 DEF Traced, Traces

\* A definition is in a file of its own from the moment it is loaded.
LEMMA TracedPreserved ==
  ASSUME Attributed, Trusted' = Trusted, DefinitionsChecked, Traced, [Next]_vars
  PROVE  Traced'
<1>1. CASE Save
  BY <1>1, TracedFrame DEF Save, Edit, loaded
<1>2. CASE Forge
  BY <1>2, TracedFrame DEF Forge, Edit, loaded
<1>3. CASE Start
  <2>1. DOMAIN defs' = {} /\ todo' \subseteq Nodes
    BY <1>3 DEF Start, DefinitionsChecked, Attributed
  <2>2. \A d \in DefNames : DefPath[d] \in Trusted' => DefPath[d] \in todo'
    BY <1>3, TrustedAuthor DEF Start
  <2>3. PICK file \in [DOMAIN defs' -> Nodes] : TRUE
    <3>1. [k \in DOMAIN defs' |-> Nobody] \in [DOMAIN defs' -> Nodes]
      BY <2>1
    <3> QED
      BY <3>1
  <2>4. Traces(file)'
    BY <2>1, <2>2 DEF Traces
  <2> QED
    BY <2>1, <2>3, <2>4 DEF Traced, Traces
<1>4. ASSUME NEW n \in todo, LoadDefinition(n) PROVE Traced'
  <2> DEFINE name == tree[n].text.name
  <2>1. PICK file \in [DOMAIN defs -> Nodes] : Traces(file)
    BY DEF Traced
  <2>2. /\ todo' = todo \ {n} /\ name \notin DOMAIN defs /\ n \in Nodes
        /\ DOMAIN defs' = DOMAIN defs \cup {name} /\ defs'[name] = tree[n].text
        /\ \A k \in DOMAIN defs : k # name /\ defs'[k] = defs[k]
        /\ pc # "down"
    BY <1>4 DEF LoadDefinition, With, Traced
  <2> DEFINE files == [k \in DOMAIN defs' |-> IF k = name THEN n ELSE file[k]]
  <2>3. files \in [DOMAIN defs' -> Nodes] /\ files[name] = n
        /\ \A k \in DOMAIN defs : files[k] = file[k]
    BY <2>1, <2>2
  <2>4. n \in Trusted' => defs'[name].author = "root"
    BY <2>2, TrustedAuthor
  <2> HIDE DEF name, files
  <2>5. \A k, l \in DOMAIN defs' : files[k] = files[l] => k = l
    BY <2>1, <2>2, <2>3 DEF Traces
  <2>6. \A k \in DOMAIN defs' :
          files[k] \notin todo' /\ (files[k] \in Trusted' => defs'[k].author = "root")
    BY <2>1, <2>2, <2>3, <2>4 DEF Traces
  <2>7. \A d \in DefNames :
          DefPath[d] \in Trusted' => DefPath[d] \in todo' \cup {files[k] : k \in DOMAIN defs'}
    <3> SUFFICES ASSUME NEW d \in DefNames, DefPath[d] \in Trusted, DefPath[d] \notin todo'
                 PROVE  \E k \in DOMAIN defs' : DefPath[d] = files[k]
      OBVIOUS
    <3>1. DefPath[d] = n \/ \E k \in DOMAIN defs : DefPath[d] = file[k]
      BY <2>1, <2>2 DEF Traces
    <3> QED
      BY <2>2, <2>3, <3>1
  <2>8. todo' \subseteq Nodes
    BY <2>2 DEF Traced
  <2> QED
    BY <2>3, <2>5, <2>6, <2>7, <2>8 DEF Traced, Traces
<1>5. ASSUME NEW n \in todo, LoadDefinitionFails(n) PROVE Traced'
  BY <1>5, TracedEnds, EndsEmpty DEF LoadDefinitionFails, Refuse
<1>6. CASE DefinitionsLoaded
  BY <1>6, TracedEnds, EndsEmpty, TracedFrame DEF DefinitionsLoaded, Goto, Refuse,
       loaded
<1>7. ASSUME NEW p \in ProfileNames, LoadProfile(p) PROVE Traced'
  BY <1>7, TracedEnds, EndsEmpty, TracedFrame DEF LoadProfile, Goto, Refuse
<1>8. CASE ProfilesVerified
  BY <1>8, TracedFrame DEF ProfilesVerified, Goto, loaded
<1>9. CASE LoadAuthz
  BY <1>9, TracedEnds, EndsEmpty, TracedFrame DEF LoadAuthz, Goto, Refuse
<1>10. CASE DefinitionsVerified
  BY <1>10, TracedFrame DEF DefinitionsVerified, Goto, loaded
<1>11. CASE VerifyProfile
  BY <1>11, TracedEnds, EndsEmpty, TracedFrame DEF VerifyProfile, Goto, Refuse
<1>12. CASE VerifyAuthz
  BY <1>12, TracedEnds, EndsEmpty, TracedFrame DEF VerifyAuthz, Goto, Refuse, loaded
<1>13. ASSUME NEW name \in DefNames, VerifyDefinition(name) PROVE Traced'
  BY <1>13, TracedEnds, EndsEmpty, TracedFrame DEF VerifyDefinition, Goto, Refuse
<1>14. CASE RemoveStale
  BY <1>14, TracedFrame DEF RemoveStale, loaded
<1>15. CASE Bind
  BY <1>15, TracedEnds, EndsEmpty, TracedFrame DEF Bind, Refuse, loaded
<1>16. CASE SetSocketGroupAndMode
  BY <1>16, TracedFrame DEF SetSocketGroupAndMode, loaded
<1>17. CASE SocketFails
  BY <1>17, TracedEnds, EndsEmpty DEF SocketFails
<1>18. CASE Shutdown
  BY <1>18, TracedFrame DEF Shutdown, loaded
<1>19. CASE Drained
  BY <1>19, TracedEnds, EndsEmpty DEF Drained, Refuse
<1>20. ASSUME NEW c \in Calls, Call(c) PROVE Traced'
  BY <1>20, TracedFrame DEF Call, loaded
<1>21. CASE Kill
  BY <1>21, TracedEnds, EndsEmpty DEF Kill
<1>22. CASE UNCHANGED vars
  BY <1>22, TracedFrame DEF vars, loaded
<1> QED
  BY <1>1, <1>2, <1>3, <1>4, <1>5, <1>6, <1>7, <1>8, <1>9, <1>10, <1>11, <1>12,
       <1>13, <1>14, <1>15, <1>16, <1>17, <1>18, <1>19, <1>20, <1>21, <1>22 DEF Next,
       Loads, Verifies, Serves

(***************************************************************************)
(* Calls.                                                                  *)
(***************************************************************************)

\* Nothing is callable that was not, nor is what was called taken away.
LEMMA CallableFrame ==
  ASSUME Callable,
         \/ UNCHANGED <<defs, argv>> /\ (pc' = pc \/ argv.refused)
         \/ UNCHANGED defs /\ argv' = NoCall
         \/ Ends
  PROVE  Callable'
  BY DEF Callable, Declared, Ends, NoCall

\* A loaded definition's templates were parsed, and a grant is of an operation
\* that is declared.
LEMMA CallablePreserved ==
  ASSUME Callable, AuthzChecked, [Next]_vars
  PROVE  Callable'
<1>0. pc # "serving" => argv.refused
  BY DEF Callable
<1>1. CASE Save
  BY <1>0, <1>1, CallableFrame DEF Save, Edit, loaded
<1>2. CASE Forge
  BY <1>0, <1>2, CallableFrame DEF Forge, Edit, loaded
<1>3. CASE Start
  BY <1>0, <1>3, CallableFrame DEF Start, Goto
<1>4. CASE DefinitionsLoaded
  BY <1>0, <1>4, CallableFrame DEF DefinitionsLoaded, Refuse, Goto, loaded
<1>5. CASE ProfilesVerified
  BY <1>0, <1>5, CallableFrame DEF ProfilesVerified, Goto, loaded
<1>6. CASE LoadAuthz
  BY <1>0, <1>6, CallableFrame DEF LoadAuthz, Goto, Refuse
<1>7. CASE DefinitionsVerified
  BY <1>0, <1>7, CallableFrame DEF DefinitionsVerified, Goto, loaded
<1>8. CASE VerifyProfile
  BY <1>0, <1>8, CallableFrame DEF VerifyProfile, Goto, Refuse
<1>9. CASE VerifyAuthz
  BY <1>0, <1>9, CallableFrame DEF VerifyAuthz, Goto, loaded, Refuse
<1>10. CASE RemoveStale
  BY <1>0, <1>10, CallableFrame DEF RemoveStale, loaded
<1>11. CASE Bind
  BY <1>0, <1>11, CallableFrame DEF Bind, loaded, Refuse
<1>12. CASE SetSocketGroupAndMode
  BY <1>0, <1>12, CallableFrame DEF SetSocketGroupAndMode, loaded
<1>13. CASE SocketFails
  BY <1>0, <1>13, CallableFrame DEF SocketFails
<1>14. CASE Shutdown
  BY <1>0, <1>14, CallableFrame DEF Shutdown, loaded
<1>15. CASE Drained
  BY <1>0, <1>15, CallableFrame DEF Drained, Refuse
<1>16. CASE Kill
  BY <1>0, <1>16, CallableFrame DEF Kill
<1>17. CASE UNCHANGED vars
  BY <1>0, <1>17, CallableFrame DEF vars, loaded
<1>18. ASSUME NEW n \in todo, LoadDefinitionFails(n) PROVE Callable'
  BY <1>0, <1>18, CallableFrame DEF LoadDefinitionFails, Refuse
<1>19. ASSUME NEW p \in ProfileNames, LoadProfile(p) PROVE Callable'
  BY <1>0, <1>19, CallableFrame DEF LoadProfile, Goto, Refuse
<1>20. ASSUME NEW name \in DefNames, VerifyDefinition(name) PROVE Callable'
  BY <1>0, <1>20, CallableFrame DEF VerifyDefinition, Goto, Refuse
<1>21. ASSUME NEW n \in todo, LoadDefinition(n) PROVE Callable'
  <2> DEFINE text == tree[n].text
  <2>1. /\ defs' = With(defs, text.name, text) /\ argv' = argv /\ argv.refused
        /\ \A o \in DOMAIN text.operations : validOperation(text.operations[o])
    BY <1>0, <1>21 DEF LoadDefinition, DefinitionLoads, Goto
  <2> HIDE DEF text
  <2> QED
    BY <2>1 DEF Callable, With
<1>22. ASSUME NEW c \in Calls, Call(c) PROVE Callable'
  <2>1. PICK g \in authz.grants :
          LET op == defs[g[2]].operations[g[3]]
              accepted == Accepts(op, c) IN
          argv' = [consumer |-> g[2], op |-> g[3], inputs |-> c, refused |-> ~accepted,
                   args |-> IF accepted THEN Arguments(op, c) ELSE <<>>]
    BY <1>22 DEF Call
  <2>2. pc' = pc /\ defs' = defs /\ pc = "serving"
    BY <1>22 DEF Call, loaded
  <2>3. Declared(g[2], g[3])
    BY <2>2 DEF AuthzChecked, Started, Validate
  <2> QED
    BY <2>1, <2>2, <2>3 DEF Callable, Declared
<1> QED
  BY <1>1, <1>2, <1>3, <1>4, <1>5, <1>6, <1>7, <1>8, <1>9, <1>10, <1>11,
       <1>12, <1>13, <1>14, <1>15, <1>16, <1>17, <1>18, <1>19, <1>20, <1>21,
       <1>22 DEF Next, Loads, Verifies, Serves

(***************************************************************************)
(* The inductive invariant.                                                *)
(***************************************************************************)

\* The broker is down, in a tree whose texts are where their authors may write.
LEMMA InitInductive == Init => Inductive
<1> SUFFICES ASSUME Init PROVE Inductive
  OBVIOUS
<1>1. DOMAIN defs = {} /\ DOMAIN profiles = {} /\ todo = {} /\ pc = "down"
  BY DEF Init, NothingLoaded
<1>2. Attributed
  BY AuthorsAssumption DEF Init, Attributed, checkOwnership
<1>3. Traced
  <2> DEFINE file == [k \in DOMAIN defs |-> Nobody]
  <2>1. file \in [DOMAIN defs -> Nodes] /\ Traces(file)
    BY <1>1 DEF Traces
  <2> QED
    BY <1>1, <2>1 DEF Traced
<1>4. DefinitionsChecked /\ ProfilesChecked /\ AuthzChecked /\ Reachable /\ pc \in Stages
  BY <1>1 DEF Init, NothingLoaded, DefinitionsChecked, ProfilesChecked, AuthzChecked, Started,
     Reachable, Stages
<1>5. Callable
  BY <1>1 DEF Init, Callable, NoCall
<1> QED
  BY <1>2, <1>3, <1>4, <1>5 DEF Inductive

\* Whatever is edited between loading a file and verifying it, and whichever
\* step fails, what newServer has found true stays true.
THEOREM InductiveHolds == Spec => []Inductive
<1>1. Inductive /\ [Next]_vars => Inductive'
  BY TrustIsFixed, StagesPreserved, DefinitionsPreserved, ProfilesPreserved, AuthzPreserved,
     TracedPreserved, CallablePreserved DEF Inductive
<1> QED
  BY InitInductive, <1>1, PTL DEF Spec

\* Nobody but root can make a path trusted, or lose root one: that a file is
\* loaded first and verified afterwards, by its path, gives nobody an opening
\* (consumer/trustroot.go).
THEOREM TrustNeverMoves == Spec => [][Trusted' = Trusted]_vars
<1>1. Inductive /\ [Next]_vars => [Trusted' = Trusted]_vars
  BY TrustIsFixed DEF Inductive
<1> QED
  BY InductiveHolds, <1>1, PTL DEF Spec

\* Each name verified has a sound file, which was loaded; there are as many
\* files as names, so every file loaded is a sound one, whichever name it
\* declares.
LEMMA EveryFileIsSound ==
  ASSUME Inductive, pc \notin {"down", "definitions", "verify"}, NEW k \in DOMAIN defs
  PROVE  defs[k].author = "root"
<1> DEFINE N == DOMAIN defs
<1>1. verified = N /\ todo = {} /\ N \subseteq DefNames
      /\ \A d \in N : DefPath[d] \in Trusted
  BY DEF Inductive, DefinitionsChecked
<1>2. IsFiniteSet(N)
  BY <1>1, PathsAssumption, FS_Subset
<1>3. PICK file \in [N -> Nodes] : Traces(file)
  BY DEF Inductive, Traced
<1>4. ASSUME NEW d \in N PROVE \E j \in N : file[j] = DefPath[d]
  BY <1>1, <1>3 DEF Traces
<1> DEFINE g == [d \in N |-> CHOOSE j \in N : file[j] = DefPath[d]]
<1>5. \A d \in N : g[d] \in N /\ file[g[d]] = DefPath[d]
  BY <1>4
<1>6. g \in [N -> N]
  BY <1>5
<1> HIDE DEF N, g
<1>7. g \in Injection(N, N)
  BY <1>1, <1>5, <1>6, PathsAssumption DEF Injection, IsInjective
<1>8. g \in Surjection(N, N)
  BY <1>2, <1>7, FS_Injection
<1>9. PICK d \in N : g[d] = k
  BY <1>8 DEF Surjection, N
<1>10. file[k] \in Trusted
  BY <1>1, <1>5, <1>9
<1> QED
  BY <1>3, <1>10 DEF Traces

\* A broker that starts serves nobody's word but root's (broker.go:142-146).
THEOREM ServesOnlyRootsWord == Spec => []OnlyRootsWord
<1>1. Inductive => OnlyRootsWord
  <2> SUFFICES ASSUME Inductive, Started PROVE OnlyRootsWord
    BY DEF OnlyRootsWord
  <2>1. pc \notin {"down", "definitions", "verify", "profiles", "authz", "verify authz"}
    BY DEF Started
  <2>2. ASSUME NEW name \in DOMAIN defs
        PROVE  defs[name].author = "root" /\ tree[defs[name].executable].text.author = "root"
    <3>1. defs[name].executable \in Trusted
      BY <2>1 DEF Inductive, DefinitionsChecked
    <3> QED
      BY <2>1, <3>1, EveryFileIsSound, TrustedAuthor DEF Inductive
  <2>3. ASSUME NEW p \in DOMAIN profiles PROVE profiles[p].author = "root"
    BY <2>1, PathsAssumption DEF Inductive, ProfilesChecked
  <2>4. authz.author = "root"
    BY DEF Inductive, AuthzChecked
  <2> QED
    BY <2>2, <2>3, <2>4 DEF OnlyRootsWord
<1> QED
  BY InductiveHolds, <1>1, PTL

\* What a broker that serves has loaded fits together: every grant has its
\* operation, every operation its validator, every definition its profile
\* (broker.go:170-260, authz.go:107-133).
THEOREM ServesWhatFits == Spec => []Coherent
<1>1. Inductive => Coherent
  <2> SUFFICES ASSUME Inductive, Started PROVE Coherent
    BY DEF Coherent
  <2>1. pc \notin {"down", "definitions", "verify", "profiles", "authz", "verify authz"}
    BY DEF Started
  <2>2. DOMAIN defs # {} /\ \A name \in DOMAIN defs : validatorFor(name, defs[name])
    BY <2>1 DEF Inductive, DefinitionsChecked
  <2>3. DOMAIN profiles = ProfilesNeeded /\ \A p \in DOMAIN profiles : ~profiles[p].reserved
    BY <2>1, PathsAssumption DEF Inductive, ProfilesChecked
  <2>4. \A g \in authz.grants : Declared(g[2], g[3])
    BY DEF Inductive, AuthzChecked, Validate
  <2> QED
    BY <2>2, <2>3, <2>4 DEF Coherent
<1> QED
  BY InductiveHolds, <1>1, PTL

\* A started broker's socket is there with the group's mode, whatever the one
\* before it left (main.go:101-108, broker.go:265-364).
THEOREM ServesReachably == Spec => []Reachable
<1>1. Inductive => Reachable
  BY DEF Inductive
<1> QED
  BY InductiveHolds, <1>1, PTL

\* placeholders, when a definition is loaded, asks all that substitute would have
\* to: an operation that was accepted can be called with whatever is accepted as
\* its inputs (consumer.go:335-346, 500-525).
LEMMA ParsedIsFilled ==
  ASSUME NEW op, validOperation(op), NEW c, NEW i \in DOMAIN op.argv
  PROVE  Substitutes(op.argv[i], Values(op, c))
<1>1. PlaceholdersParse(op.argv[i]) /\ placeholders(op.argv[i]) \subseteq DOMAIN op.inputs
  BY DEF validOperation
<1>2. DOMAIN Values(op, c) = DOMAIN op.inputs
  BY DEF Values
<1> QED
  BY <1>1, <1>2 DEF Substitutes, PlaceholdersParse, placeholders

\* Whatever is called, every placeholder has an input.
THEOREM EveryPlaceholderIsFilled == Spec => []Filled
<1>1. Inductive => Filled
  BY ParsedIsFilled DEF Inductive, Callable, Declared, Filled
<1> QED
  BY InductiveHolds, <1>1, PTL

(***************************************************************************)
(* Counting, and what a scan that goes forward gathers.                    *)
(***************************************************************************)

\* A set of numbers that is not empty has a least one.
LEMMA LeastExists ==
  ASSUME NEW W \in SUBSET Nat, W # {}
  PROVE  \E m \in W : \A k \in W : m <= k
<1> DEFINE U == {0 .. s : s \in W}
<1>1. U \subseteq FiniteSubsetsOf(Nat) /\ U # {}
  <2>1. ASSUME NEW s \in W PROVE IsFiniteSet(0 .. s) /\ 0 .. s \in SUBSET Nat
    BY FS_Interval
  <2> QED
    BY <2>1 DEF FiniteSubsetsOf
<1>2. PICK u \in U : \A v \in U : <<v, u>> \notin StrictSubsetOrdering(Nat)
  BY <1>1, FS_StrictSubsetOrderingWellFounded, WFMin
<1>3. PICK m \in W : u = 0 .. m
  BY <1>2
<1>4. ASSUME NEW k \in W, k < m PROVE FALSE
  <2>1. 0 .. k \in U /\ 0 .. k \subseteq 0 .. m /\ m \notin 0 .. k /\ m \in 0 .. m
    BY <1>4
  <2>2. <<0 .. k, 0 .. m>> \in StrictSubsetOrdering(Nat)
    BY <2>1 DEF StrictSubsetOrdering
  <2> QED
    BY <1>2, <1>3, <2>1, <2>2
<1>5. \A k \in W : m <= k
  BY <1>4
<1> QED
  BY <1>5

\* Counting from 0 reaches every number.
LEMMA CountUp ==
  ASSUME NEW T, 0 \in T, \A n \in Nat : n \in T => n + 1 \in T
  PROVE  Nat \subseteq T
<1> SUFFICES ASSUME Nat \ T # {} PROVE FALSE
  OBVIOUS
<1>1. PICK m \in Nat \ T : \A k \in Nat \ T : m <= k
  BY LeastExists
<1>2. m # 0 /\ m - 1 \in Nat /\ (m - 1) + 1 = m
  BY <1>1
<1>3. m - 1 \in T
  BY <1>1, <1>2
<1> QED
  BY <1>1, <1>2, <1>3

\* What a scan of n characters gathers from character i on: W[i], and what it
\* gathers from T[i] on, or b, where there is nowhere to go on from.  It gathers
\* a set or a text.
And(sets, x, y) == IF sets THEN x \cup y ELSE x \o y
From(sets, n, W, T, b, out, i) ==
    IF i > n THEN IF sets THEN {} ELSE <<>>
    ELSE And(sets, W[i], IF T[i] = 0 THEN b ELSE out[T[i]])

\* A scan that always goes forward gathers something from everywhere.
Forward(n, T) == \A i \in 1 .. n : T[i] = 0 \/ T[i] \in i + 1 .. n + 1
Gathers(sets, n, W, T, b, out) == out = [i \in 1 .. n + 1 |-> From(sets, n, W, T, b, out, i)]
LEMMA ScanExists ==
  ASSUME NEW sets, NEW n, n \in Nat, NEW W, NEW T, NEW b, Forward(n, T)
  PROVE  \E out : Gathers(sets, n, W, T, b, out)
<1> DEFINE Back(m) == \E out : out = [i \in n + 1 - m .. n + 1 |-> From(sets, n, W, T, b, out, i)]
           K == {m \in Nat : m <= n => Back(m)}
<1>1. 0 \in K
  <2> DEFINE out == [i \in n + 1 .. n + 1 |-> IF sets THEN {} ELSE <<>>]
  <2>1. \A i \in n + 1 .. n + 1 : From(sets, n, W, T, b, out, i) = IF sets THEN {} ELSE <<>>
    BY DEF From
  <2>2. n + 1 - 0 = n + 1
    OBVIOUS
  <2> HIDE DEF out
  <2>3. out = [i \in n + 1 - 0 .. n + 1 |-> From(sets, n, W, T, b, out, i)]
    BY <2>1, <2>2 DEF out
  <2> QED
    BY <2>3
<1>2. ASSUME NEW m \in Nat, m \in K PROVE m + 1 \in K
  <2> SUFFICES ASSUME m + 1 <= n PROVE Back(m + 1)
    OBVIOUS
  <2>1. PICK out : out = [i \in n + 1 - m .. n + 1 |-> From(sets, n, W, T, b, out, i)]
    BY <1>2
  <2> DEFINE more == [i \in n - m .. n + 1 |->
                        IF i = n - m THEN From(sets, n, W, T, b, out, i) ELSE out[i]]
  <2>2. ASSUME NEW i \in n - m .. n + 1 PROVE more[i] = From(sets, n, W, T, b, more, i)
    <3>1. i <= n /\ T[i] # 0 => T[i] \in n + 1 - m .. n + 1 /\ i \in 1 .. n
      BY DEF Forward
    <3>2. i <= n /\ T[i] # 0 => more[T[i]] = out[T[i]]
      BY <3>1
    <3>3. From(sets, n, W, T, b, more, i) = From(sets, n, W, T, b, out, i)
      BY <3>2 DEF From
    <3>4. i # n - m => i \in n + 1 - m .. n + 1
      OBVIOUS
    <3>5. \A j \in n + 1 - m .. n + 1 : out[j] = From(sets, n, W, T, b, out, j)
      BY <2>1, Zenon
    <3> QED
      BY <3>3, <3>4, <3>5
  <2> HIDE DEF more
  <2>3. more = [i \in n + 1 - (m + 1) .. n + 1 |-> From(sets, n, W, T, b, more, i)]
    <3>1. n + 1 - (m + 1) = n - m
      OBVIOUS
    <3>2. more = [i \in n - m .. n + 1 |-> more[i]]
      BY DEF more
    <3> QED
      BY <2>2, <3>1, <3>2
  <2> QED
    BY <2>3
<1> HIDE DEF K
<1>3. n \in K
  BY <1>1, <1>2, CountUp
<1> QED
  BY <1>3 DEF K, Gathers

\* FlattenSeq joins its pieces one after the other.
Joined(P, f, i) == IF i = 1 THEN P[i] ELSE f[i - 1] \o P[i]
Flatten(P, n) == CHOOSE f : f = [i \in 1 .. n |-> Joined(P, f, i)]

LEMMA FlattenExists ==
  ASSUME NEW P, NEW n \in Nat
  PROVE  \E f : f = [i \in 1 .. n |-> Joined(P, f, i)]
<1> DEFINE Upto(m) == \E f : f = [i \in 1 .. m |-> Joined(P, f, i)]
           K == {m \in Nat : Upto(m)}
<1>1. 0 \in K
  <2>1. <<>> = [i \in 1 .. 0 |-> Joined(P, <<>>, i)]
    OBVIOUS
  <2> QED
    BY <2>1
<1>2. ASSUME NEW m \in Nat, m \in K PROVE m + 1 \in K
  <2> SUFFICES Upto(m + 1)
    OBVIOUS
  <2>1. PICK f : f = [i \in 1 .. m |-> Joined(P, f, i)]
    BY <1>2
  <2>2. \A i \in 1 .. m : f[i] = Joined(P, f, i)
    BY <2>1, Zenon
  <2> DEFINE g == [i \in 1 .. m + 1 |-> IF i = m + 1 THEN Joined(P, f, i) ELSE f[i]]
  <2>3. ASSUME NEW i \in 1 .. m + 1 PROVE g[i] = Joined(P, g, i)
    <3>1. i # 1 => g[i - 1] = f[i - 1]
      OBVIOUS
    <3>2. Joined(P, g, i) = Joined(P, f, i)
      BY <3>1 DEF Joined
    <3> QED
      BY <2>2, <3>2
  <2>4. g = [i \in 1 .. m + 1 |-> g[i]]
    OBVIOUS
  <2> HIDE DEF g
  <2>5. g = [i \in 1 .. m + 1 |-> Joined(P, g, i)]
    BY <2>3, <2>4
  <2> QED
    BY <2>5
<1> HIDE DEF K
<1>3. n \in K
  BY <1>1, <1>2, CountUp
<1> QED
  BY <1>3 DEF K

LEMMA Flattened ==
  ASSUME NEW S, NEW P \in Seq(Seq(S))
  PROVE  \E upto \in [0 .. Len(P) -> Seq(S)] :
           /\ upto[0] = <<>> /\ upto[Len(P)] = FlattenSeq(P)
           /\ \A i \in 1 .. Len(P) : upto[i] = upto[i - 1] \o P[i]
<1> DEFINE n == Len(P)
           flatten == Flatten(P, n)
<1>1. n \in Nat /\ (\A i \in 1 .. n : P[i] \in Seq(S)) /\ (n = 0 => P = <<>>)
  OBVIOUS
<1>2. FlattenSeq(P) = IF n = 0 THEN P ELSE flatten[n]
  BY DEF FlattenSeq, Flatten, Joined
<1> HIDE DEF n
<1>3. flatten = [i \in 1 .. n |-> Joined(P, flatten, i)]
  BY <1>1, FlattenExists DEF Flatten
<1> HIDE DEF flatten
<1>4. \A i \in 1 .. n : flatten[i] = Joined(P, flatten, i)
  BY <1>3, Zenon
<1> DEFINE upto == [i \in 0 .. n |-> IF i = 0 THEN <<>> ELSE flatten[i]]
<1>5. ASSUME NEW i \in 1 .. n, upto[i - 1] \in Seq(S)
      PROVE  upto[i] = upto[i - 1] \o P[i] /\ upto[i] \in Seq(S)
  <2>1. CASE i = 1
    <3>1. upto[i] = P[i] /\ upto[i - 1] = <<>>
      BY <1>1, <1>4, <2>1 DEF Joined
    <3> QED
      BY <1>1, <3>1, ConcatEmptySeq
  <2>2. CASE i # 1
    <3>1. i - 1 \in 1 .. n /\ i - 1 # 0 /\ i # 0
      BY <1>1, <2>2
    <3>2. upto[i] = flatten[i] /\ upto[i - 1] = flatten[i - 1]
      BY <1>1, <3>1
    <3>3. flatten[i] = flatten[i - 1] \o P[i]
      BY <1>4, <2>2 DEF Joined
    <3> HIDE DEF upto
    <3> QED
      BY <1>1, <1>5, <3>2, <3>3, ConcatProperties
  <2> QED
    BY <2>1, <2>2
<1>6. upto[0] = <<>> /\ upto[n] = FlattenSeq(P) /\ upto = [i \in 0 .. n |-> upto[i]]
  BY <1>1, <1>2
<1> HIDE DEF upto
<1> DEFINE K == {m \in Nat : m <= n => upto[m] \in Seq(S)}
<1>7. 0 \in K
  BY <1>6, EmptySeq
<1>8. ASSUME NEW m \in Nat, m \in K PROVE m + 1 \in K
  <2>1. m + 1 <= n => m + 1 \in 1 .. n /\ (m + 1) - 1 = m
    BY <1>1
  <2>2. m + 1 <= n => upto[m] \in Seq(S)
    BY <1>1, <1>8
  <2>3. m + 1 <= n => upto[m + 1] \in Seq(S)
    BY <1>5, <2>1, <2>2
  <2> QED
    BY <2>3
<1> HIDE DEF K
<1>9. Nat \subseteq K
  BY <1>7, <1>8, CountUp
<1>10. \A i \in 0 .. n : upto[i] \in Seq(S)
  BY <1>1, <1>9 DEF K
<1>11. upto \in [0 .. n -> Seq(S)]
  BY <1>6, <1>10
<1>12. ASSUME NEW i \in 1 .. n PROVE upto[i] = upto[i - 1] \o P[i]
  <2>1. i - 1 \in 0 .. n
    BY <1>1
  <2> QED
    BY <1>5, <1>10, <2>1
<1> QED
  BY <1>6, <1>11, <1>12 DEF n

\* A text of length a continued by one of length l.
LEMMA Lengths ==
  ASSUME NEW a \in Nat, NEW l \in Nat, NEW c, c = a + l
  PROVE  /\ c \in Nat /\ a <= c /\ c + 1 = (a + 1) + l
         /\ \A k \in 1 .. l : a + k \in 1 .. c /\ (a + 1) + k - 1 = a + k
         /\ \A k \in 1 .. a : k \in 1 .. c
  OBVIOUS

\* One text followed by another.
LEMMA Concatenated ==
  ASSUME NEW S, NEW s \in Seq(S), NEW t \in Seq(S)
  PROVE  /\ Len(s \o t) = Len(s) + Len(t)
         /\ \A k \in 1 .. Len(s) : (s \o t)[k] = s[k]
         /\ \A k \in 1 .. Len(t) : (s \o t)[Len(s) + k] = t[k]
  BY ConcatProperties

\* Where the n pieces of P start in F, and that F is theirs from end to end.
Starts(P, n, F, start) ==
    /\ start[1] = 1 /\ start[n + 1] = Len(F) + 1
    /\ \A i \in 1 .. n :
         /\ start[i] >= 1 /\ start[i + 1] = start[i] + Len(P[i])
         /\ start[i + 1] <= Len(F) + 1
         /\ \A k \in 1 .. Len(P[i]) : F[start[i] + k - 1] = P[i][k]

\* Each piece is found in the joined text, from where it starts.
LEMMA PiecesFound ==
  ASSUME NEW S, NEW P \in Seq(Seq(S)), NEW n, n = Len(P), NEW F, F = FlattenSeq(P)
  PROVE  F \in Seq(S) /\ \E start \in [1 .. n + 1 -> Nat] : Starts(P, n, F, start)
<1>1. PICK upto \in [0 .. n -> Seq(S)] :
        /\ upto[0] = <<>> /\ upto[n] = F
        /\ \A i \in 1 .. n : upto[i] = upto[i - 1] \o P[i]
  BY Flattened
<1>2. n \in Nat /\ (\A i \in 1 .. n : P[i] \in Seq(S) /\ Len(P[i]) \in Nat)
  OBVIOUS
<1> DEFINE at == [i \in 0 .. n |-> Len(upto[i])]
           len == [i \in 1 .. n |-> Len(P[i])]
<1>3. at \in [0 .. n -> Nat] /\ len \in [1 .. n -> Nat] /\ at[0] = 0 /\ at[n] = Len(F)
  BY <1>1, <1>2
<1>4. ASSUME NEW i \in 1 .. n
      PROVE  /\ i - 1 \in 0 .. n /\ i \in 0 .. n
             /\ at[i] = at[i - 1] + len[i]
             /\ \A k \in 1 .. at[i - 1] : upto[i][k] = upto[i - 1][k]
             /\ \A k \in 1 .. len[i] : upto[i][at[i - 1] + k] = P[i][k]
  <2>1. i - 1 \in 0 .. n /\ i \in 0 .. n
    BY <1>2
  <2>2. upto[i - 1] \in Seq(S) /\ P[i] \in Seq(S) /\ upto[i] = upto[i - 1] \o P[i]
    BY <1>1, <1>2, <2>1
  <2>3. at[i] = Len(upto[i]) /\ at[i - 1] = Len(upto[i - 1]) /\ len[i] = Len(P[i])
    BY <2>1
  <2> HIDE DEF at, len
  <2>4. /\ Len(upto[i]) = Len(upto[i - 1]) + Len(P[i])
        /\ \A k \in 1 .. Len(upto[i - 1]) : upto[i][k] = upto[i - 1][k]
        /\ \A k \in 1 .. Len(P[i]) : upto[i][Len(upto[i - 1]) + k] = P[i][k]
    <3>1. PICK a \in Seq(S), p \in Seq(S) : a = upto[i - 1] /\ p = P[i]
      BY <2>2
    <3>2. /\ Len(a \o p) = Len(a) + Len(p)
          /\ \A k \in 1 .. Len(a) : (a \o p)[k] = a[k]
          /\ \A k \in 1 .. Len(p) : (a \o p)[Len(a) + k] = p[k]
      BY Concatenated
    <3>3. upto[i] = a \o p
      BY <2>2, <3>1
    <3> QED
      BY <3>1, <3>2, <3>3, Zenon
  <2> QED
    BY <2>1, <2>3, <2>4
<1> HIDE DEF at, len
<1> DEFINE Kept(i, j) == at[i] <= at[j] /\ \A k \in 1 .. at[i] : upto[j][k] = upto[i][k]
<1>5. ASSUME NEW i \in 0 .. n PROVE Kept(i, n)
  <2> DEFINE K == {m \in Nat : i + m <= n => Kept(i, i + m)}
  <2>0. ASSUME NEW j \in 1 .. n, Kept(i, j - 1) PROVE Kept(i, j)
    <3>1. /\ at[i] \in Nat /\ at[j - 1] \in Nat /\ at[j - 1] <= at[j] /\ at[j] \in Nat
          /\ \A k \in 1 .. at[j - 1] : upto[j][k] = upto[j - 1][k]
      BY <1>2, <1>3, <1>4, Lengths
    <3> QED
      BY <2>0, <3>1
  <2>1. 0 \in K
    <3>1. i + 0 = i
      BY <1>2
    <3> QED
      BY <1>2, <1>3, <3>1
  <2>2. ASSUME NEW m \in Nat, m \in K PROVE m + 1 \in K
    <3> SUFFICES ASSUME i + (m + 1) <= n PROVE Kept(i, i + (m + 1))
      OBVIOUS
    <3>1. i + (m + 1) \in 1 .. n /\ (i + (m + 1)) - 1 = i + m /\ i + m <= n
      BY <1>2
    <3>2. \A j \in 1 .. n : Kept(i, j - 1) => Kept(i, j)
      BY <2>0
    <3>3. Kept(i, (i + (m + 1)) - 1)
      BY <2>2, <3>1
    <3> HIDE DEF Kept
    <3> QED
      BY <3>1, <3>2, <3>3
  <2> HIDE DEF K
  <2>3. Nat \subseteq K
    BY <2>1, <2>2, CountUp
  <2>4. n - i \in Nat /\ i + (n - i) = n
    BY <1>2
  <2>5. i + (n - i) <= n => Kept(i, i + (n - i))
    BY <2>3, <2>4 DEF K
  <2> HIDE DEF Kept
  <2> QED
    BY <1>2, <2>4, <2>5
<1> DEFINE start == [i \in 1 .. n + 1 |-> at[i - 1] + 1]
<1>6. start \in [1 .. n + 1 -> Nat] /\ start[1] = 1 /\ start[n + 1] = Len(F) + 1
  <2>1. \A i \in 1 .. n + 1 : i - 1 \in 0 .. n
    BY <1>2
  <2>2. (n + 1) - 1 = n /\ 1 - 1 = 0 /\ 1 \in 1 .. n + 1 /\ n + 1 \in 1 .. n + 1
    BY <1>2
  <2> QED
    BY <1>3, <2>1, <2>2
<1>7. ASSUME NEW i \in 1 .. n
      PROVE  /\ start[i] >= 1 /\ start[i + 1] = start[i] + Len(P[i])
             /\ start[i + 1] <= Len(F) + 1
             /\ \A k \in 1 .. Len(P[i]) : F[start[i] + k - 1] = P[i][k]
  <2>1. start[i] = at[i - 1] + 1 /\ start[i + 1] = at[i] + 1 /\ i \in 0 .. n
    BY <1>2
  <2> HIDE DEF start
  <2>2. at[i - 1] \in Nat /\ at[i] \in Nat /\ len[i] \in Nat /\ at[i] = at[i - 1] + len[i]
    BY <1>3, <1>4
  <2>3. Kept(i, n) /\ Len(P[i]) = len[i]
    BY <1>5, <2>1 DEF len
  <2>4. ASSUME NEW k \in 1 .. len[i] PROVE F[start[i] + k - 1] = P[i][k]
    <3>1. at[i - 1] + k \in 1 .. at[i] /\ (at[i - 1] + 1) + k - 1 = at[i - 1] + k
      BY <2>2, Lengths
    <3>2. F[at[i - 1] + k] = upto[i][at[i - 1] + k]
      BY <1>1, <2>3, <3>1
    <3> QED
      BY <1>4, <2>1, <3>1, <3>2
  <2>5. at[i] <= at[n] /\ at[n] = Len(F) /\ at[n] \in Nat
    BY <1>2, <1>3, <2>3
  <2>6. at[i] + 1 = (at[i - 1] + 1) + len[i] /\ at[i - 1] + 1 >= 1
    BY <2>2
  <2>7. at[i] + 1 <= Len(F) + 1
    BY <2>2, <2>5
  <2> QED
    BY <2>1, <2>3, <2>4, <2>6, <2>7
<1>8. F \in Seq(S)
  BY <1>1, <1>2
<1> HIDE DEF start
<1> QED
  BY <1>6, <1>7, <1>8 DEF Starts

(***************************************************************************)
(* What is read where a part was written.                                  *)
(***************************************************************************)

Dollar   == "$"
Brace    == "{"
EndBrace == "}"

\* The closing brace is the first there is.
LEMMA ClosingFound ==
  ASSUME NEW S, NEW s \in Seq(S), NEW i \in 1 .. Len(s)
  PROVE  /\ Closing(s, i) = 0 \/ Closing(s, i) \in i + 2 .. Len(s)
         /\ \A c \in i + 2 .. Len(s) :
              s[c] = EndBrace /\ (\A k \in i + 2 .. c - 1 : s[k] # EndBrace) => Closing(s, i) = c
<1> DEFINE ends == {j \in i + 2 .. Len(s) : s[j] = EndBrace}
<1>1. Len(s) \in Nat /\ ends \subseteq Nat
  OBVIOUS
<1>2. CASE ends = {}
  <2>1. Closing(s, i) = 0
    BY <1>2, Zenon DEF Closing, EndBrace
  <2> QED
    BY <1>2, <2>1
<1>3. CASE ends # {}
  <2>1. PICK m \in ends : \A k \in ends : m <= k
    BY <1>1, <1>3, LeastExists
  <2>2. Closing(s, i) = CHOOSE j \in ends : \A k \in ends : j <= k
    BY <1>3, Zenon DEF Closing, EndBrace
  <2> DEFINE c == Closing(s, i)
  <2>3. c \in ends /\ \A k \in ends : c <= k
    BY <2>1, <2>2
  <2>4. ASSUME NEW d \in i + 2 .. Len(s), s[d] = EndBrace, \A k \in i + 2 .. d - 1 : s[k] # EndBrace
        PROVE  c = d
    <3>1. c <= d /\ c \in i + 2 .. Len(s) /\ s[c] = EndBrace 
      BY <2>3, <2>4
    <3> HIDE DEF c
    <3>2. c \notin i + 2 .. d - 1
      BY <2>4, <3>1
    <3> QED
      BY <1>1, <3>1, <3>2
  <2> QED
    BY <2>3, <2>4
<1> QED
  BY <1>2, <1>3

\* Where a scan goes on after what it reads at i.
After(s, i) == IF ~Opens(s, i) THEN i + 1
               ELSE IF Closing(s, i) = 0 THEN 0 ELSE Closing(s, i) + 1
Onward(s) == [i \in 1 .. Len(s) |-> After(s, i)]

LEMMA GoesForward ==
  ASSUME NEW S, NEW s \in Seq(S)
  PROVE  Forward(Len(s), Onward(s))
<1>1. ASSUME NEW i \in 1 .. Len(s) PROVE After(s, i) = 0 \/ After(s, i) \in i + 1 .. Len(s) + 1
  <2>1. Closing(s, i) = 0 \/ Closing(s, i) \in i + 2 .. Len(s)
    BY ClosingFound
  <2> QED
    BY <2>1 DEF After
<1> QED
  BY <1>1 DEF Forward, Onward

\* A name stands between its braces in s, from i on.
Stands(s, i, name, l) ==
    /\ i + l + 2 <= Len(s) /\ \A k \in DOMAIN name : name[k] # EndBrace
    /\ s[i] = Dollar /\ s[i + 1] = Brace /\ s[i + l + 2] = EndBrace
    /\ \A k \in 1 .. l : s[i + 1 + k] = name[k]

\* Then it is read as that name.
LEMMA PlaceholderRead ==
  ASSUME NEW S, NEW s \in Seq(S), NEW name \in Seq(S), NEW l, l = Len(name),
         NEW i \in 1 .. Len(s), Stands(s, i, name, l)
  PROVE  Opens(s, i) /\ Closing(s, i) = i + l + 2 /\ NameAt(s, i) = name
<1>0. /\ i + l + 2 <= Len(s) /\ \A k \in DOMAIN name : name[k] # EndBrace
      /\ s[i] = Dollar /\ s[i + 1] = Brace /\ s[i + l + 2] = EndBrace
      /\ \A k \in 1 .. l : s[i + 1 + k] = name[k]
  BY Zenon DEF Stands
<1>1. Len(s) \in Nat /\ l \in Nat /\ DOMAIN name = 1 .. l
  OBVIOUS
<1> DEFINE c == i + l + 2
<1>2. c \in i + 2 .. Len(s) /\ s[c] = EndBrace
  BY <1>0, <1>1
<1>3. ASSUME NEW k \in i + 2 .. c - 1 PROVE s[k] = name[k - i - 1] /\ k - i - 1 \in 1 .. l
  <2>1. k - i - 1 \in 1 .. l /\ i + 1 + (k - i - 1) = k
    BY <1>1
  <2> QED
    BY <1>0, <2>1
<1>4. Closing(s, i) = c
  <2>1. \A k \in i + 2 .. c - 1 : s[k] # EndBrace
    BY <1>0, <1>1, <1>3
  <2> QED
    BY <1>2, <2>1, ClosingFound
<1>5. Opens(s, i)
  <2>1. i < Len(s)
    BY <1>0, <1>1
  <2> QED
    BY <1>0, <2>1, Zenon DEF Opens, Dollar, Brace
<1>6. NameAt(s, i) = SubSeq(s, i + 2, c - 1)
  BY <1>4 DEF NameAt
<1>7. SubSeq(s, i + 2, c - 1) = name
  <2> DEFINE t == SubSeq(s, i + 2, c - 1)
  <2>1. i + 2 \in Int /\ c - 1 \in Int /\ \A k \in i + 2 .. c - 1 : s[k] \in S
    BY <1>0, <1>1
  <2>2. /\ t \in Seq(S)
        /\ Len(t) = IF i + 2 <= c - 1 THEN c - 1 - (i + 2) + 1 ELSE 0
        /\ \A k \in 1 .. c - 1 - (i + 2) + 1 : t[k] = s[i + 2 + k - 1]
    BY <2>1, SubSeqProperties
  <2> HIDE DEF t
  <2>3. Len(t) = l /\ c - 1 - (i + 2) + 1 = l
    BY <1>0, <1>1, <2>2
  <2>4. ASSUME NEW k \in 1 .. l PROVE t[k] = name[k]
    <3>1. i + 2 + k - 1 = i + 1 + k
      BY <1>0, <1>1
    <3> QED
      BY <1>0, <2>2, <2>3, <3>1
  <2>5. t = name
    BY <2>2, <2>3, <2>4, SeqEqual
  <2> QED
    BY <2>5 DEF t
<1> QED
  BY <1>4, <1>5, <1>6, <1>7

(***************************************************************************)
(* From a spelling to a meaning.                                           *)
(***************************************************************************)

\* What a scan of s writes from character i on.
Scanned(s, values, out, i) ==
    IF i > Len(s) THEN <<>>
    ELSE IF Opens(s, i) THEN values[NameAt(s, i)] \o out[Closing(s, i) + 1]
    ELSE <<s[i]>> \o out[i + 1]
TheScan(s, values) == CHOOSE out : out = [i \in 1 .. Len(s) + 1 |-> Scanned(s, values, out, i)]

LEMMA ExpandedIs == ASSUME NEW s, NEW values PROVE Expanded(s, values) = TheScan(s, values)[1]
  BY DEF Expanded, TheScan, Scanned

\* A text is as long as it is.
LEMMA TextLength ==
  ASSUME NEW t, IsText(t)
  PROVE  Len(t) \in Nat /\ DOMAIN t = 1 .. Len(t)
<1>1. PICK S : t \in Seq(S)
  BY DEF IsText
<1> QED
  BY <1>1, LenProperties

\* The texts of legible parts, and of their inputs, are of some characters.
LEMMA TextsTyped ==
  ASSUME NEW parts, Legible(parts), NEW values,
         \A i \in DOMAIN parts : ~parts[i].literal => IsText(values[parts[i].text])
  PROVE  \E S : \A i \in DOMAIN parts :
           /\ parts[i].text \in Seq(S)
           /\ Spelled(parts[i]) \in Seq(S) /\ Meant(parts[i], values) \in Seq(S)
<1> DEFINE T(i) == {parts[i].text[k] : k \in DOMAIN parts[i].text}
           V(i) == {values[parts[i].text][k] : k \in DOMAIN values[parts[i].text]}
           W(i) == T(i) \cup V(i)
           S == {Dollar, Brace, EndBrace} \cup UNION {W(i) : i \in DOMAIN parts}
<1>1. ASSUME NEW i \in DOMAIN parts
      PROVE  /\ parts[i].text \in Seq(S)
             /\ Spelled(parts[i]) \in Seq(S) /\ Meant(parts[i], values) \in Seq(S)
  <2>1. T(i) \subseteq S /\ V(i) \subseteq S
    <3>1. T(i) \subseteq W(i) /\ V(i) \subseteq W(i)
      OBVIOUS
    <3> HIDE DEF T, V, W
    <3> QED
      BY <3>1
  <2>2. {Dollar, Brace, EndBrace} \subseteq S
    OBVIOUS
  <2> HIDE DEF S
  <2>3. parts[i].text \in Seq(S)
    <3>1. parts[i].text \in Seq(T(i))
      BY DEF Legible, IsText
    <3> QED
      BY <2>1, <3>1, SeqMonotonic
  <2>4. CASE parts[i].literal
    BY <2>3, <2>4 DEF Spelled, Meant
  <2>5. CASE ~parts[i].literal
    <3>1. values[parts[i].text] \in Seq(V(i))
      BY <2>5 DEF IsText
    <3>2. values[parts[i].text] \in Seq(S)
      BY <2>1, <3>1, SeqMonotonic
    <3>3. <<Dollar, Brace>> \in Seq(S) /\ <<EndBrace>> \in Seq(S)
      BY <2>2
    <3>4. <<Dollar, Brace>> \o parts[i].text \o <<EndBrace>> \in Seq(S)
      BY <2>3, <3>3, ConcatProperties
    <3>5. Spelled(parts[i]) = <<Dollar, Brace>> \o parts[i].text \o <<EndBrace>>
      BY <2>5 DEF Spelled, Dollar, Brace, EndBrace
    <3> QED
      BY <2>3, <2>5, <3>2, <3>4, <3>5 DEF Meant
  <2> QED
    BY <2>4, <2>5
<1> QED
  BY <1>1, Zenon

\* Where the parts start in s, and what is read there.
ReadAs(parts, s, n, start) ==
    /\ start[1] = 1 /\ start[n + 1] = Len(s) + 1
    /\ \A i \in 1 .. n :
         /\ start[i] \in 1 .. Len(s) /\ start[i + 1] \in 1 .. Len(s) + 1
         /\ parts[i].literal =>
              /\ ~Opens(s, start[i]) /\ <<s[start[i]]>> = parts[i].text
              /\ start[i + 1] = start[i] + 1
         /\ ~parts[i].literal =>
              /\ Opens(s, start[i]) /\ NameAt(s, start[i]) = parts[i].text
              /\ start[i + 1] = Closing(s, start[i]) + 1 /\ Closing(s, start[i]) # 0

\* What the scan of a spelling reads at each part, and where it goes on from there.
LEMMA PartsRead ==
  ASSUME NEW parts, Legible(parts), NEW S,
         \A i \in DOMAIN parts : parts[i].text \in Seq(S) /\ Spelled(parts[i]) \in Seq(S),
         NEW s, s = Spelling(parts), NEW n, n = Len(parts)
  PROVE  s \in Seq(S) /\ \E start \in [1 .. n + 1 -> Nat] : ReadAs(parts, s, n, start)
<1> DEFINE P == [i \in DOMAIN parts |-> Spelled(parts[i])]
<1>1. n \in Nat /\ DOMAIN parts = 1 .. n
  BY TextLength DEF Legible
<1>2. P \in Seq(Seq(S)) /\ Len(P) = n /\ (\A i \in 1 .. n : P[i] = Spelled(parts[i]))
  BY <1>1
<1>3. s = FlattenSeq(P)
  BY DEF Spelling
<1> HIDE DEF P
<1>4. s \in Seq(S) /\ Len(s) \in Nat
  BY <1>2, <1>3, PiecesFound
<1>5. PICK start \in [1 .. n + 1 -> Nat] : Starts(P, n, s, start)
  <2>1. n = Len(P) /\ s = FlattenSeq(P) /\ P \in Seq(Seq(S))
    BY <1>2, <1>3
  <2> QED
    BY <2>1, PiecesFound
<1>6. /\ start[1] = 1 /\ start[n + 1] = Len(s) + 1
       /\ \A i \in 1 .. n :
            /\ start[i] >= 1 /\ start[i + 1] = start[i] + Len(P[i])
            /\ start[i + 1] <= Len(s) + 1
            /\ \A k \in 1 .. Len(P[i]) : s[start[i] + k - 1] = P[i][k]
  BY <1>5, Zenon DEF Starts
<1>7. ASSUME NEW i \in 1 .. n, parts[i].literal
      PROVE  /\ Len(P[i]) = 1 /\ P[i][1] = parts[i].text[1] /\ <<P[i][1]>> = parts[i].text
             /\ s[start[i]] = P[i][1]
  <2>1. P[i] = parts[i].text /\ parts[i].text \in Seq(S) /\ Len(parts[i].text) = 1
    BY <1>1, <1>2, <1>7 DEF Spelled, Legible
  <2>2. start[i] \in Nat /\ start[i] + 1 - 1 = start[i]
    BY <1>1, <1>6
  <2>3. s[start[i] + 1 - 1] = P[i][1]
    BY <1>6, <2>1
  <2>4. <<P[i][1]>> = parts[i].text
    BY <2>1
  <2> QED
    BY <2>1, <2>2, <2>3, <2>4
<1>8. ASSUME NEW i \in 1 .. n, ~parts[i].literal
      PROVE  LET name == parts[i].text
                 l == Len(name) IN
             /\ name \in Seq(S) /\ Len(P[i]) = l + 3
             /\ \A k \in DOMAIN name : name[k] # EndBrace
             /\ s[start[i]] = Dollar /\ s[start[i] + 1] = Brace
             /\ s[start[i] + l + 2] = EndBrace
             /\ \A k \in 1 .. l : s[start[i] + 1 + k] = name[k]
  <2>1. PICK name \in Seq(S) : name = parts[i].text
    BY <1>1
  <2>2. /\ P[i] = (<<Dollar, Brace>> \o name) \o <<EndBrace>>
        /\ <<Dollar, Brace>> \o name \o <<EndBrace>> \in Seq(S)
        /\ \A k \in DOMAIN name : name[k] # EndBrace
    BY <1>1, <1>2, <1>8, <2>1 DEF Spelled, Legible, Dollar, Brace, EndBrace
  <2>3. /\ Len(P[i]) = Len(name) + 3 /\ P[i][1] = Dollar /\ P[i][2] = Brace
        /\ P[i][Len(name) + 3] = EndBrace
        /\ \A k \in 1 .. Len(name) : P[i][k + 2] = name[k]
    BY <2>2
  <2>4. PICK a \in Nat, l \in Nat : a = start[i] /\ l = Len(name)
    BY <1>1, <1>6
  <2>5. \A k \in 1 .. l + 3 : s[a + k - 1] = P[i][k]
    BY <1>6, <2>3, <2>4
  <2>6. s[a] = P[i][1] /\ s[a + 1] = P[i][2] /\ s[a + l + 2] = P[i][l + 3]
    <3>1. 1 \in 1 .. l + 3 /\ 2 \in 1 .. l + 3 /\ l + 3 \in 1 .. l + 3
          /\ a + 1 - 1 = a /\ a + 2 - 1 = a + 1 /\ a + (l + 3) - 1 = a + l + 2
      OBVIOUS
    <3> QED
      BY <2>5, <3>1
  <2>7. ASSUME NEW k \in 1 .. l PROVE s[a + 1 + k] = P[i][k + 2]
    <3>1. k + 2 \in 1 .. l + 3 /\ a + (k + 2) - 1 = a + 1 + k
      OBVIOUS
    <3> QED
      BY <2>5, <3>1
  <2> QED
    BY <2>1, <2>2, <2>3, <2>4, <2>6, <2>7
<1>9. ASSUME NEW i \in 1 .. n
      PROVE  /\ start[i] \in 1 .. Len(s) /\ start[i + 1] \in 1 .. Len(s) + 1
             /\ parts[i].literal =>
                  /\ ~Opens(s, start[i]) /\ <<s[start[i]]>> = parts[i].text
                  /\ start[i + 1] = start[i] + 1
             /\ ~parts[i].literal =>
                  /\ Opens(s, start[i]) /\ NameAt(s, start[i]) = parts[i].text
                  /\ start[i + 1] = Closing(s, start[i]) + 1 /\ Closing(s, start[i]) # 0
  <2>0. P[i] \in Seq(S) /\ i \in 1 .. n + 1
    BY <1>1, <1>2
  <2>1. PICK a \in Nat, l \in Nat : a = start[i] /\ l = Len(P[i])
    <3>1. start[i] \in Nat /\ Len(P[i]) \in Nat
      BY <2>0
    <3> QED
      BY <3>1
  <2>2. a >= 1 /\ start[i + 1] = a + l /\ a + l <= Len(s) + 1 
    BY <1>6, <2>1
  <2>3. CASE parts[i].literal
    <3>1. l = 1
      BY <1>7, <2>1, <2>3
    <3>2. a \in 1 .. Len(s) /\ start[i + 1] = a + 1 /\ a + 1 \in 1 .. Len(s) + 1
      BY <1>4, <2>2, <3>1
    <3>3. <<s[a]>> = parts[i].text /\ s[a] = parts[i].text[1]
      BY <1>7, <2>1, <2>3
    <3>4. ASSUME s[a] = Dollar, a < Len(s), s[a + 1] = Brace PROVE FALSE
      <4>1. i + 1 \in 1 .. n /\ i \in 1 .. n - 1
        <5>1. i # n
          BY <1>4, <1>6, <3>2, <3>4
        <5> QED
          BY <1>1, <5>1
      <4>2. CASE parts[i + 1].literal
        <5>1. s[a + 1] = parts[i + 1].text[1]
          BY <1>7, <3>2, <4>1, <4>2
        <5> QED
          BY <2>3, <3>3, <3>4, <4>1, <4>2, <5>1, Zenon DEF Legible, Dollar, Brace
      <4>3. CASE ~parts[i + 1].literal
        <5>1. s[a + 1] = Dollar
          BY <1>8, <3>2, <4>1, <4>3
        <5>2. Dollar # Brace
          BY DEF Dollar, Brace
        <5> QED
          BY <3>4, <5>1, <5>2
      <4> QED
        BY <4>2, <4>3
    <3>5. ~Opens(s, a)
      BY <3>4, Zenon DEF Opens, Dollar, Brace
    <3> QED
      BY <2>1, <2>3, <3>2, <3>3, <3>5
  <2>4. CASE ~parts[i].literal
    <3>0. PICK name \in Seq(S) : name = parts[i].text
      BY <1>1
    <3>1. PICK m \in Nat : m = Len(name)
      OBVIOUS
    <3>2. /\ l = m + 3 /\ \A k \in DOMAIN name : name[k] # EndBrace
          /\ s[a] = Dollar /\ s[a + 1] = Brace /\ s[a + m + 2] = EndBrace
          /\ \A k \in 1 .. m : s[a + 1 + k] = name[k]
      BY <1>8, <2>1, <2>4, <3>0, <3>1
    <3>3. a \in 1 .. Len(s) /\ a + m + 2 <= Len(s) /\ a + l = (a + m + 2) + 1
          /\ a + l \in 1 .. Len(s) + 1
      BY <1>4, <2>2, <3>2
    <3>4. Stands(s, a, name, m)
      BY <3>2, <3>3, Zenon DEF Stands
    <3>5. Opens(s, a) /\ Closing(s, a) = a + m + 2 /\ NameAt(s, a) = name
      BY <1>4, <3>1, <3>3, <3>4, PlaceholderRead
    <3>6. a + m + 2 # 0
      OBVIOUS
    <3> QED
      BY <2>1, <2>2, <2>4, <3>0, <3>3, <3>5, <3>6
  <2> QED
    BY <2>3, <2>4
<1> QED
  BY <1>4, <1>5, <1>6, <1>9 DEF ReadAs

\* Whatever writes at the start of each piece what the piece means and then what
\* is written at the start of the next, writes the meaning of all.
Follows(Q, n, out, start) ==
    /\ out[start[n + 1]] = <<>>
    /\ \A i \in 1 .. n : out[start[i]] = Q[i] \o out[start[i + 1]]
LEMMA Regrouped ==
  ASSUME NEW S, NEW a \in Seq(S), NEW q \in Seq(S), NEW b \in Seq(S)
  PROVE  (a \o q) \o b = a \o (q \o b) /\ q \o b \in Seq(S)
BY ConcatAssociative, ConcatProperties

LEMMA ScanFollows ==
  ASSUME NEW S, NEW Q \in Seq(Seq(S)), NEW n, n = Len(Q), NEW out, NEW start,
         Follows(Q, n, out, start)
  PROVE  out[start[1]] = FlattenSeq(Q)
<1>1. PICK upto \in [0 .. n -> Seq(S)] :
        /\ upto[0] = <<>> /\ upto[n] = FlattenSeq(Q)
        /\ \A i \in 1 .. n : upto[i] = upto[i - 1] \o Q[i]
  BY Flattened
<1>2. n \in Nat /\ \A i \in 1 .. n : Q[i] \in Seq(S)
  OBVIOUS
<1> DEFINE rest == [i \in 0 .. n |-> out[start[i + 1]]]
           Right(i) == rest[i] \in Seq(S) /\ upto[i] \o rest[i] = FlattenSeq(Q)
           K == {m \in Nat : m <= n => Right(n - m)}
<1>3. ASSUME NEW i \in 1 .. n PROVE rest[i - 1] = Q[i] \o rest[i] /\ i - 1 \in 0 .. n
  <2>1. i - 1 \in 0 .. n /\ i \in 0 .. n /\ (i - 1) + 1 = i
    BY <1>2
  <2> QED
    BY <2>1 DEF Follows
<1>4. rest[n] = <<>> /\ rest[0] = out[start[1]]
  <2>1. n \in 0 .. n /\ 0 \in 0 .. n /\ 0 + 1 = 1
    BY <1>2
  <2> QED
    BY <2>1 DEF Follows
<1> HIDE DEF rest
<1>5. 0 \in K
  <2>1. upto[n] \in Seq(S) /\ n - 0 = n /\ <<>> \in Seq(S)
    BY <1>1, <1>2
  <2>2. upto[n] \o <<>> = upto[n]
    BY <2>1, ConcatEmptySeq
  <2> QED
    BY <1>1, <1>4, <2>1, <2>2
<1>6. ASSUME NEW i \in 1 .. n, Right(i) PROVE Right(i - 1)
  <2>1. PICK a \in Seq(S), q \in Seq(S), b \in Seq(S) : a = upto[i - 1] /\ q = Q[i] /\ b = rest[i]
    BY <1>1, <1>2, <1>3, <1>6
  <2>2. upto[i] = a \o q /\ rest[i - 1] = q \o b
    BY <1>1, <1>3, <2>1
  <2>3. (a \o q) \o b = a \o (q \o b) /\ q \o b \in Seq(S)
    BY Regrouped
  <2> QED
    BY <1>6, <2>1, <2>2, <2>3
<1> HIDE DEF Right
<1>7. ASSUME NEW m \in Nat, m \in K PROVE m + 1 \in K
  <2>1. m + 1 <= n => n - m \in 1 .. n /\ (n - m) - 1 = n - (m + 1) /\ m <= n
    BY <1>2
  <2>2. m <= n => Right(n - m)
    BY <1>7
  <2>3. m + 1 <= n => Right(n - (m + 1))
    BY <1>6, <2>1, <2>2
  <2> QED
    BY <2>3
<1> HIDE DEF K
<1>8. n \in K
  BY <1>2, <1>5, <1>7, CountUp
<1>9. Right(0)
  <2>1. n - n = 0 /\ n <= n
    BY <1>2
  <2> QED
    BY <1>8, <2>1 DEF K
<1>10. <<>> \o rest[0] = rest[0]
  BY <1>9, ConcatEmptySeq DEF Right
<1> QED
  BY <1>1, <1>4, <1>9, <1>10 DEF Right

\* What is read as a character or as a name is substituted as one: substitute
\* turns the spelling of a template into its meaning, whatever the values are.
LEMMA SubstituteMeans ==
  ASSUME NEW parts, Legible(parts), NEW values,
         \A i \in DOMAIN parts : ~parts[i].literal => IsText(values[parts[i].text])
  PROVE  Expanded(Spelling(parts), values) = Meaning(parts, values)
<1> DEFINE n == Len(parts)
           s == Spelling(parts)
           Q == [i \in DOMAIN parts |-> Meant(parts[i], values)]
           Scan(out) == [i \in 1 .. Len(s) + 1 |-> Scanned(s, values, out, i)]
<1>1. n \in Nat /\ DOMAIN parts = 1 .. n
  BY TextLength DEF Legible
<1>2. PICK S : \A i \in DOMAIN parts :
        /\ parts[i].text \in Seq(S)
        /\ Spelled(parts[i]) \in Seq(S) /\ Meant(parts[i], values) \in Seq(S)
  BY TextsTyped
<1>3. Q \in Seq(Seq(S)) /\ Len(Q) = n /\ (\A i \in 1 .. n : Q[i] = Meant(parts[i], values))
  BY <1>1, <1>2
<1>4. Meaning(parts, values) = FlattenSeq(Q)
  BY DEF Meaning
<1>5. s \in Seq(S) /\ \E start \in [1 .. n + 1 -> Nat] : ReadAs(parts, s, n, start)
  BY <1>2, PartsRead
<1>6. PICK start \in [1 .. n + 1 -> Nat] : ReadAs(parts, s, n, start)
  BY <1>5
<1> HIDE DEF n, s, Q
<1>7. Len(s) \in Nat
  BY <1>5
<1>8. ASSUME NEW out, \A i \in 1 .. Len(s) + 1 :
               \/ out[i] = Scanned(s, values, out, i)
               \/ Opens(s, i) /\ Closing(s, i) = 0
      PROVE  out[1] = FlattenSeq(Q)
  <2>1. start[1] = 1 /\ start[n + 1] = Len(s) + 1
    BY <1>6 DEF ReadAs
  <2>2. out[start[n + 1]] = <<>>
    <3>1. Len(s) + 1 \in 1 .. Len(s) + 1 /\ Len(s) + 1 > Len(s) /\ ~(Len(s) + 1 < Len(s))
      BY <1>7
    <3>2. ~Opens(s, Len(s) + 1)
      BY <3>1, Zenon DEF Opens
    <3> QED
      BY <1>8, <2>1, <3>1, <3>2 DEF Scanned
  <2>3. ASSUME NEW i \in 1 .. n PROVE out[start[i]] = Q[i] \o out[start[i + 1]]
    <3>1. PICK k \in 1 .. Len(s) : k = start[i] /\ k \in 1 .. Len(s) + 1 /\ ~(k > Len(s))
      BY <1>6, <1>7 DEF ReadAs
    <3>2. Q[i] = Meant(parts[i], values)
      BY <1>3
    <3>3. CASE parts[i].literal
      <4>1. ~Opens(s, k) /\ <<s[k]>> = parts[i].text /\ start[i + 1] = k + 1
        BY <1>6, <3>1, <3>3 DEF ReadAs
      <4>2. out[k] = <<s[k]>> \o out[k + 1]
        BY <1>8, <3>1, <4>1 DEF Scanned
      <4> QED
        BY <3>1, <3>2, <3>3, <4>1, <4>2, Zenon DEF Meant
    <3>4. CASE ~parts[i].literal
      <4>1. Opens(s, k) /\ NameAt(s, k) = parts[i].text /\ start[i + 1] = Closing(s, k) + 1
        BY <1>6, <3>1, <3>4 DEF ReadAs
      <4>2. Closing(s, k) # 0
        BY <1>5, <1>6, <1>7, <3>1, <3>4 DEF ReadAs
      <4>3. out[k] = values[NameAt(s, k)] \o out[Closing(s, k) + 1]
        BY <1>8, <3>1, <4>1, <4>2 DEF Scanned
      <4> QED
        BY <3>1, <3>2, <3>4, <4>1, <4>3, Zenon DEF Meant
    <3> QED
      BY <3>3, <3>4
  <2> QED
    <3>1. n = Len(Q) /\ Q \in Seq(Seq(S)) /\ Follows(Q, n, out, start)
      BY <1>3, <2>2, <2>3, Zenon DEF Follows
    <3> QED
      BY <2>1, <3>1, ScanFollows
<1>9. \E out : out = Scan(out)
  <2> DEFINE W == [i \in 1 .. Len(s) |-> IF Opens(s, i) THEN values[NameAt(s, i)] ELSE <<s[i]>>]
             T == Onward(s)
             b == FlattenSeq(Q)
  <2>1. Forward(Len(s), T) /\ \A i \in 1 .. Len(s) : T[i] = After(s, i)
    BY <1>5, GoesForward DEF Onward
  <2>2. PICK out : Gathers(FALSE, Len(s), W, T, b, out)
    <3> HIDE DEF W, T, b
    <3> QED
      BY <1>7, <2>1, ScanExists, Zenon
  <2>3. \A i \in 1 .. Len(s) + 1 : out[i] = From(FALSE, Len(s), W, T, b, out, i)
    BY <2>2, Zenon DEF Gathers
  <2>4. ASSUME NEW i \in 1 .. Len(s) + 1, Opens(s, i) => Closing(s, i) # 0
        PROVE  From(FALSE, Len(s), W, T, b, out, i) = Scanned(s, values, out, i)
    <3>1. CASE i > Len(s)
      BY <3>1 DEF From, And, Scanned
    <3>2. CASE ~(i > Len(s))
      <4>1. i \in 1 .. Len(s) /\ i + 1 # 0 /\ T[i] = After(s, i)
        BY <1>7, <2>1, <3>2
      <4>2. CASE Opens(s, i)
        <5>1. Closing(s, i) + 1 # 0
          BY <1>5, <1>7, <2>4, <4>1, <4>2, ClosingFound
        <5> QED
          BY <2>4, <3>2, <4>1, <4>2, <5>1 DEF From, And, Scanned, After
      <4>3. CASE ~Opens(s, i)
        BY <3>2, <4>1, <4>3 DEF From, And, Scanned, After
      <4> QED
        BY <4>2, <4>3
    <3> QED
      BY <3>1, <3>2
  <2>5. out[1] = b
    BY <1>8, <2>3, <2>4, Zenon
  <2>6. ASSUME NEW i \in 1 .. Len(s) + 1, Opens(s, i), Closing(s, i) = 0
        PROVE  From(FALSE, Len(s), W, T, b, out, i) = Scanned(s, values, out, i)
    <3>0. i < Len(s)
      BY <2>6, Zenon DEF Opens
    <3>1. i \in 1 .. Len(s) /\ ~(i > Len(s)) /\ 0 + 1 = 1
      BY <1>7, <3>0
    <3> HIDE DEF b
    <3> QED
      BY <2>1, <2>5, <2>6, <3>1 DEF From, And, Scanned, After
  <2>7. \A i \in 1 .. Len(s) + 1 : From(FALSE, Len(s), W, T, b, out, i) = Scanned(s, values, out, i)
    BY <2>4, <2>6, Zenon
  <2> HIDE DEF W, T, b
  <2> QED
    BY <2>2, <2>7 DEF Gathers
<1>10. TheScan(s, values) = Scan(TheScan(s, values))
  BY <1>9 DEF TheScan
<1>11. \A i \in 1 .. Len(s) + 1 : TheScan(s, values)[i] = Scanned(s, values, TheScan(s, values), i)
  BY <1>10, Zenon
<1>12. TheScan(s, values)[1] = FlattenSeq(Q)
  BY <1>8, <1>11, Zenon
<1> QED
  BY <1>4, <1>12, ExpandedIs DEF s

\* What a scan of s passes from character i on.
Passed(s, scan, i) ==
    IF i > Len(s) THEN {}
    ELSE {i} \cup (IF ~Opens(s, i) THEN scan[i + 1]
                   ELSE IF Closing(s, i) = 0 THEN {} ELSE scan[Closing(s, i) + 1])
ThePassage(s) == CHOOSE scan : scan = [i \in 1 .. Len(s) + 1 |-> Passed(s, scan, i)]

LEMMA ScannedFromIs == ASSUME NEW s PROVE ScannedFrom(s) = ThePassage(s)
  BY DEF ScannedFrom, ThePassage, Passed

\* The passage is what it is said to be: every scan goes forward and ends.
LEMMA PassageFound ==
  ASSUME NEW S, NEW s \in Seq(S)
  PROVE  \A i \in 1 .. Len(s) + 1 : ScannedFrom(s)[i] = Passed(s, ScannedFrom(s), i)
<1> DEFINE W == [i \in 1 .. Len(s) |-> {i}]
           T == Onward(s)
           All(scan) == [i \in 1 .. Len(s) + 1 |-> Passed(s, scan, i)]
<1>1. Len(s) \in Nat
  OBVIOUS
<1>2. Forward(Len(s), T) /\ \A i \in 1 .. Len(s) : T[i] = After(s, i)
  BY GoesForward DEF Onward
<1>3. PICK scan : Gathers(TRUE, Len(s), W, T, {}, scan)
  <2> HIDE DEF W, T
  <2> QED
    BY <1>1, <1>2, ScanExists, Zenon
<1>4. ASSUME NEW i \in 1 .. Len(s) + 1
      PROVE  From(TRUE, Len(s), W, T, {}, scan, i) = Passed(s, scan, i)
  <2>1. CASE i > Len(s)
    BY <2>1 DEF From, Passed
  <2>2. CASE ~(i > Len(s))
    <3>1. i \in 1 .. Len(s) /\ i + 1 # 0 /\ T[i] = After(s, i) /\ W[i] = {i}
      BY <1>1, <1>2, <2>2
    <3>2. Closing(s, i) # 0 => Closing(s, i) + 1 # 0
      BY <3>1, ClosingFound
    <3> HIDE DEF W, T
    <3> QED
      BY <2>2, <3>1, <3>2 DEF From, And, Passed, After
  <2> QED
    BY <2>1, <2>2
<1>5. scan = All(scan)
  <2> HIDE DEF W, T
  <2>1. All(scan) = [i \in 1 .. Len(s) + 1 |-> From(TRUE, Len(s), W, T, {}, scan, i)]
    BY <1>4
  <2> QED
    BY <1>3, <2>1, Zenon DEF Gathers
<1>6. ThePassage(s) = All(ThePassage(s))
  BY <1>5 DEF ThePassage
<1> QED
  BY <1>6, ScannedFromIs, Zenon

\* Every name that was spelled is found: what placeholders returns holds it.
LEMMA NamesAreFound ==
  ASSUME NEW parts, Legible(parts), NEW j \in DOMAIN parts, ~parts[j].literal
  PROVE  parts[j].text \in placeholders(Spelling(parts))
<1> DEFINE n == Len(parts)
           s == Spelling(parts)
           none == [t \in {parts[i].text : i \in DOMAIN parts} |-> <<>>]
           scan == ScannedFrom(s)
<1>1. n \in Nat /\ DOMAIN parts = 1 .. n
  BY TextLength DEF Legible
<1>2. PICK S : \A i \in DOMAIN parts : parts[i].text \in Seq(S) /\ Spelled(parts[i]) \in Seq(S)
  <2>1. \A i \in DOMAIN parts : IsText(none[parts[i].text])
    BY DEF IsText
  <2> HIDE DEF none
  <2> QED
    BY <2>1, TextsTyped
<1>3. s \in Seq(S) /\ \E start \in [1 .. n + 1 -> Nat] : ReadAs(parts, s, n, start)
  BY <1>2, PartsRead
<1>4. PICK start \in [1 .. n + 1 -> Nat] : ReadAs(parts, s, n, start)
  BY <1>3
<1> HIDE DEF n, s
<1>5. \A i \in 1 .. Len(s) + 1 : scan[i] = Passed(s, scan, i)
  BY <1>3, PassageFound
<1> HIDE DEF scan
<1>6. ASSUME NEW i \in 1 .. n
      PROVE  start[i] \in scan[start[i]] /\ scan[start[i + 1]] \subseteq scan[start[i]]
  <2>1. PICK k \in 1 .. Len(s) : k = start[i]
    BY <1>4 DEF ReadAs
  <2>2. k \in 1 .. Len(s) + 1 /\ ~(k > Len(s))
    BY <1>3
  <2>3. \/ ~Opens(s, k) /\ start[i + 1] = k + 1
        \/ Opens(s, k) /\ Closing(s, k) # 0 /\ start[i + 1] = Closing(s, k) + 1
    BY <1>4, <2>1, Zenon DEF ReadAs
  <2>4. k \in scan[k] /\ scan[start[i + 1]] \subseteq scan[k]
    BY <1>5, <2>2, <2>3 DEF Passed
  <2> QED
    BY <2>1, <2>4
<1> DEFINE K == {m \in Nat : m + 1 <= n => scan[start[m + 1]] \subseteq scan[1]}
<1>7. 0 \in K
  BY <1>4 DEF ReadAs
<1>8. ASSUME NEW m \in Nat, m \in K PROVE m + 1 \in K
  <2>1. m + 1 + 1 <= n => m + 1 <= n /\ m + 1 \in 1 .. n
    BY <1>1
  <2> QED
    BY <1>6, <1>8, <2>1
<1> HIDE DEF K
<1>9. j - 1 \in Nat /\ j \in 1 .. n /\ j - 1 + 1 = j /\ j <= n
  BY <1>1
<1>10. Nat \subseteq K
  BY <1>7, <1>8, CountUp
<1>11. start[j] \in scan[1]
  BY <1>6, <1>9, <1>10 DEF K
<1>12. Opens(s, start[j]) /\ NameAt(s, start[j]) = parts[j].text
  BY <1>4, <1>9, Zenon DEF ReadAs
<1> QED
  BY <1>11, <1>12, Zenon DEF placeholders, PlaceholderStarts, scan, s

(***************************************************************************)
(* What a call executes.                                                   *)
(***************************************************************************)

\* A meaning begins as the first of its parts does.
LEMMA BeginsAsMeant ==
  ASSUME NEW parts, Legible(parts), NEW values,
         \A i \in DOMAIN parts : ~parts[i].literal => IsText(values[parts[i].text]),
         Meaning(parts, values) # <<>>
  PROVE  /\ 1 \in DOMAIN parts
         /\ Meant(parts[1], values) # <<>> =>
              Meaning(parts, values)[1] = Meant(parts[1], values)[1]
<1> DEFINE n == Len(parts)
           Q == [i \in DOMAIN parts |-> Meant(parts[i], values)]
           F == FlattenSeq(Q)
<1>1. n \in Nat /\ DOMAIN parts = 1 .. n
  BY TextLength DEF Legible
<1>2. PICK S : \A i \in DOMAIN parts : Meant(parts[i], values) \in Seq(S)
  <2>1. PICK S : \A i \in DOMAIN parts :
          /\ parts[i].text \in Seq(S)
          /\ Spelled(parts[i]) \in Seq(S) /\ Meant(parts[i], values) \in Seq(S)
    BY TextsTyped
  <2> QED
    BY <2>1
<1>3. Q \in Seq(Seq(S)) /\ Len(Q) = n /\ (\A i \in 1 .. n : Q[i] = Meant(parts[i], values))
  BY <1>1, <1>2
<1>4. Meaning(parts, values) = F
  BY DEF Meaning
<1> HIDE DEF Q
<1>5. 1 \in DOMAIN parts
  <2> SUFFICES ASSUME n = 0 PROVE FALSE
    BY <1>1
  <2>1. \E upto \in [0 .. Len(Q) -> Seq(S)] :
          /\ upto[0] = <<>> /\ upto[Len(Q)] = F
          /\ \A i \in 1 .. Len(Q) : upto[i] = upto[i - 1] \o Q[i]
    BY <1>3, Flattened
  <2> QED
    BY <1>3, <1>4, <2>1
<1>6. ASSUME Q[1] # <<>> PROVE F[1] = Q[1][1]
  <2>1. PICK start \in [1 .. n + 1 -> Nat] : Starts(Q, n, F, start)
    BY <1>3, PiecesFound
  <2> HIDE DEF n, F
  <2>2. 1 \in 1 .. n /\ Q[1] \in Seq(S)
    BY <1>1, <1>3, <1>5
  <2>3. 1 \in 1 .. Len(Q[1]) /\ 1 + 1 - 1 = 1
    BY <1>6, <2>2
  <2>4. start[1] = 1 /\ F[start[1] + 1 - 1] = Q[1][1]
    BY <2>1, <2>2, <2>3 DEF Starts
  <2> QED
    BY <2>3, <2>4
<1> QED
  BY <1>1, <1>3, <1>4, <1>5, <1>6

\* What BuildArgv makes of one template and inputs that were accepted.
LEMMA OneAsMeant ==
  ASSUME NEW op, validOperation(op), Spells(op),
         NEW c, Accepts(op, c), \A t \in DOMAIN c : IsText(c[t]),
         NEW i \in DOMAIN op.argv
  PROVE  /\ Arguments(op, c)[i] = Meaning(op.meant[i], Values(op, c))
         /\ (/\ Meaning(op.meant[i], Values(op, c)) # <<>>
             /\ Meaning(op.meant[i], Values(op, c))[1] = "-") =>
                \/ op.meant[i][1].literal
                \/ op.inputs[op.meant[i][1].text].allowLeadingDash
                \/ Values(op, c)[op.meant[i][1].text] = <<>>
<1> DEFINE parts == op.meant[i]
           values == Values(op, c)
<1>0. \A t \in DOMAIN op.inputs : values[t] = IF t \in DOMAIN c THEN c[t] ELSE <<>>
  BY DEF Values
<1>1. Legible(parts) /\ op.argv[i] = Spelling(parts)
  BY DEF Spells
<1> HIDE DEF parts, values
<1>2. ASSUME NEW j \in DOMAIN parts, ~parts[j].literal
      PROVE  parts[j].text \in DOMAIN op.inputs
  BY <1>1, <1>2, NamesAreFound DEF validOperation
<1>3. ASSUME NEW t \in DOMAIN op.inputs
      PROVE  /\ IsText(values[t])
             /\ values[t] # <<>> => check(op.inputs[t], values[t])
  <2>1. values[t] = IF t \in DOMAIN c THEN c[t] ELSE <<>>
    BY <1>0
  <2>2. t \in DOMAIN c => check(op.inputs[t], c[t])
    BY DEF Accepts
  <2>3. IsText(<<>>)
    BY DEF IsText
  <2> QED
    BY <2>1, <2>2, <2>3
<1>4. \A j \in DOMAIN parts : ~parts[j].literal => IsText(values[parts[j].text])
  BY <1>2, <1>3
<1>5. Arguments(op, c)[i] = Meaning(parts, values)
  BY <1>1, <1>4, SubstituteMeans DEF Arguments, substitute, values
<1>6. ASSUME Meaning(parts, values) # <<>>, Meaning(parts, values)[1] = "-",
             ~parts[1].literal, values[parts[1].text] # <<>>
      PROVE  op.inputs[parts[1].text].allowLeadingDash
  <2>1. 1 \in DOMAIN parts /\ Meant(parts[1], values) = values[parts[1].text]
    BY <1>1, <1>4, <1>6, BeginsAsMeant DEF Meant
  <2>2. values[parts[1].text][1] = "-"
    BY <1>1, <1>4, <1>6, <2>1, BeginsAsMeant
  <2>3. check(op.inputs[parts[1].text], values[parts[1].text])
    BY <1>2, <1>3, <1>6, <2>1
  <2> QED
    BY <1>6, <2>2, <2>3, Zenon DEF check
<1> QED
  BY <1>5, <1>6 DEF parts, values

\* And of all.
LEMMA BuildsWhatIsMeant ==
  ASSUME NEW op, validOperation(op), Spells(op),
         NEW c, Accepts(op, c), \A t \in DOMAIN c : IsText(c[t])
  PROVE  MeantBy(op, Values(op, c), Arguments(op, c))
<1> DEFINE values == Values(op, c)
           args == Arguments(op, c)
<1>1. DOMAIN op.meant = DOMAIN op.argv /\ DOMAIN args = DOMAIN op.argv
      /\ args = [i \in DOMAIN op.argv |-> args[i]]
  BY DEF Spells, Arguments
<1> HIDE DEF values, args
<1>2. ASSUME NEW i \in DOMAIN op.argv
      PROVE  /\ args[i] = Meaning(op.meant[i], values)
             /\ args[i] # <<>> /\ args[i][1] = "-" =>
                  \/ op.meant[i][1].literal
                  \/ op.inputs[op.meant[i][1].text].allowLeadingDash
                  \/ values[op.meant[i][1].text] = <<>>
  <2>1. /\ args[i] = Meaning(op.meant[i], values)
        /\ (/\ Meaning(op.meant[i], values) # <<>>
            /\ Meaning(op.meant[i], values)[1] = "-") =>
               \/ op.meant[i][1].literal
               \/ op.inputs[op.meant[i][1].text].allowLeadingDash
               \/ values[op.meant[i][1].text] = <<>>
    BY OneAsMeant, Zenon DEF args, values
  <2> QED
    BY <2>1, Zenon
<1>3. args = [i \in DOMAIN op.meant |-> Meaning(op.meant[i], values)]
  BY <1>1, <1>2
<1> QED
  BY <1>1, <1>2, <1>3, Zenon DEF MeantBy, args, values

\* What is executed is what the administrator meant, whatever a client sends: no
\* input opens a placeholder, ends one early or reaches another argument, and
\* none is taken for an option that was not to be one (BuildArgv).
THEOREM ExecutesWhatIsMeant == Spec => []AsMeant
<1>1. ASSUME Inductive PROVE AsMeant
  <2>1. Filled
    BY <1>1, ParsedIsFilled DEF Inductive, Callable, Declared, Filled
  <2>2. ASSUME ~argv.refused, NEW op, op = defs[argv.consumer].operations[argv.op], Spells(op)
        PROVE  MeantBy(op, Values(op, argv.inputs), argv.args)
    <3>1. /\ validOperation(op) /\ Accepts(op, argv.inputs)
          /\ argv.inputs \in Calls /\ argv.args = Arguments(op, argv.inputs)
      BY <1>1, <2>2 DEF Inductive, Callable, Declared
    <3>2. \A t \in DOMAIN argv.inputs : IsText(argv.inputs[t])
      BY <3>1, CallsAssumption
    <3>3. MeantBy(op, Values(op, argv.inputs), Arguments(op, argv.inputs))
      BY <2>2, <3>1, <3>2, BuildsWhatIsMeant
    <3> QED
      BY <3>1, <3>3
  <2> QED
    BY <2>1, <2>2, Zenon DEF AsMeant
<1> QED
  BY InductiveHolds, <1>1, PTL
=============================================================================
