# parzival: a formal model

parzival hands secrets from a store (OpenBao, 1Password, gopass) to programs
without handing them to the people or agents that run those programs. A policy
file says which label may have which secret in which way (`get`, `exec`,
`mount`); a broker daemon runs whole operations on behalf of peers that may
never see the credential at all.

This directory holds TLA+ models of the parts of parzival where the order of
steps, a failure between two steps, or the shape of a rule list decides whether
a secret stays where it belongs. TLC checks them on small instances, TLAPS
proves the central properties for instances of every size. Paths below are
relative to `src/`.

## The system

| part | code | state | operations |
|---|---|---|---|
| Broker: serving | `internal/broker/broker.go`, `session.go`, `launcher.go`, `audit.go`, `protocol.go`, `cmd/parzival-broker/main.go` | listener, WaitGroup, one goroutine per connection with its secrets, directory and consumer, the audit file | `Serve`, `handleConn`, `finish`, `runConsumer`, `fileAuditWriter.Write`, SIGTERM |
| Broker: startup | `broker.go` `newServer`, `internal/consumer/trustroot.go` | the loaded definitions, profiles and authorization file | load, verify ownership, validate |
| Authorization file | `internal/broker/authz.go` | uid to operations | `Parse`, `Validate`, `Decide` |
| Broker client | `internal/broker/client.go` | one connection | `Dial`, `Call` |
| Policy evaluation | `internal/policy/policy.go`, `nearmiss.go` | the rules | `Load`, `Authorize`, `Evaluate`, `wildcardMatch`, `NearMisses` |
| Policy analysis | `internal/policy/analyze.go`, `check.go` | none | `Analyze`, `Check` |
| Policy editing | `internal/policy/edit.go`, `delta.go`, `write.go`, `cmd/parzival/grant.go` | policy.json, its backups and temporary files | `policy grant`, `policy apply` |
| CLI exec | `cmd/parzival/main.go`, `internal/ephemeral` | secrets in memory, a RAM-backed directory, the child | `exec`, SIGINT and SIGTERM |
| FUSE mount | `internal/mount/mount_linux.go` | one buffer per open file | open, read, release |
| Consumer definitions | `internal/consumer/consumer.go` | operations and their argv templates | `LoadAll`, `BuildArgv` |
| Response validators | `internal/broker/response_*.go` | none | validate, canonicalize |
| Profiles, stores, bootstrap | `internal/profile`, `internal/store` | none that lasts | render, fetch |
| CLI get, probe, service, doctor | `cmd/parzival` | none | one request each |

How they meet. A broker handler reads the peer's uid from the kernel, asks the
authorization file, fetches the profile's secrets from the store, renders them
into a directory on tmpfs, starts the consumer with that directory in its
environment, validates what it printed, removes the directory, appends to the
audit file, syncs it and only then answers. Handlers share the audit file, the
WaitGroup and, through `Serve`'s context, the shutdown signal. The CLI commands
share `policy.json` with each other and with the commands that edit it, without
a lock: each `policy.Authorize` loads it again, and the opens of a mounted file
run concurrently in one process. Before any of this, `parzival-broker` loads its
definitions, profiles and authorization file and verifies each of them, by path,
after it was loaded. Inside `exec`, the main goroutine and the signal goroutine share one
`ephemeral.Dir`, without a lock either. Placement, analyses, delta and
enforcement share one matcher, `wildcardMatch`, which the analyses also call
with patterns in place of references.

What is hard about it:

* broker: every interleaving of handlers with the signal, a deadline in the
  store or in the consumer, a kill or a power loss between the audit line, its
  sync and the answer, an audit write that fails after the consumer has run, a
  peer that stops reading, a consumer that forks;
* editing: two operators at once, a failure or a crash in the middle of backup,
  write, rename and verification, names that reach the disk before data;
* rules: which rule a grant silences or is silenced by, what an analysis that
  compares texts says of requests nobody wrote down, what a rule against agents
  is worth when agents choose their own label;
* exec: a signal at any point of creating, writing and using the credential;
* delivery: a request judged by several policies, secrets that are rotated and
  profiles that are edited between its steps, opens and releases of one file
  side by side, a fetch that fails half-way;
* startup: a tree that changes between load and verification, files that may be
  written by others, names a definition gives itself, a socket left by a kill;
* argv: values that look like placeholders or options, templates scanned twice
  by different code;
* the matcher: backtracking at the ends of strings, termination.

What makes each part correct:

* broker: credentials only for entitled requests; a peer cannot learn which
  operations exist; no OK without a durable record; a log that agrees with the
  answers; nothing left behind an answer or behind `Serve`; connections end and a
  shutdown finishes;
* editing: a reader finds a whole policy at any instant, power losses included;
  complete backups are never overwritten; what is installed is what was
  approved; reports are true; no temporary files;
* rules: grants only add, and only what they match; they take nothing from a
  rule above which they were not meant to be; findings are complete where the
  documentation relies on them; what is called dead is dead;
* exec: wiped at exit, zeroed before unlinked, whole for the child, ended by a
  signal;
* delivery: nothing is fetched that was not admitted since the request began; the
  log tells what was; what is served is fresh and whole, and gone afterwards;
* startup: a broker that starts holds only what root wrote, and what `Broker`
  assumes of it; those it authorizes can reach it;
* argv: what is executed is what the administrator meant;
* matcher: a match is a match, no match is missed, the loop ends.

## Modules

| module | models | extended or instantiated by |
|---|---|---|
| `Broker` | the daemon from `Listen` to `Exit`, handlers, consumers, clients, machine | `MCBroker`, `BrokerProofs` |
| `BrokerPromise` | what the broker owes a peer and the log, with no order of steps | `Broker` (`Promise`) |
| `BrokerProofs` | proofs about `Broker`: credentials, records, what is left | `BrokerAnswerProofs` |
| `BrokerAnswerProofs` | proofs about `Broker`: answers, the log, the refinement of `BrokerPromise` | |
| `PolicyEdit` | the editing transaction over a file system | `MCPolicyEdit`, `PolicyEditProofs` |
| `PolicyEditProofs` | proofs about `PolicyEdit` | |
| `Policy` | rules, evaluation, analyses, placement, delta, and the commands as single steps | `MCPolicy`, `PolicyProofs` |
| `PolicyProofs` | proofs about `Policy` | |
| `Match` | the matcher as a function | `Wildcard`, `MCPolicy` |
| `Wildcard` | the matcher as the loop it is, against what a pattern means | `MCWildcard`, `WildcardProofs` |
| `WildcardProofs` | proofs about `Wildcard` | |
| `ExecSession` | `runExec`, `cleanupOnSignal` and `ephemeral.Dir` | `MCExecSession`, `ExecSessionProofs` |
| `ExecSessionProofs` | proofs about `ExecSession` | |
| `Delivery` | `get`, `exec`, `probe` and the opens of a mounted file, with policy, profile and store that change | `MCDelivery`, `DeliveryProofs` |
| `DeliveryProofs` | proofs about `Delivery` | |
| `Argv` | templates, inputs and the arguments made of them, as operators | `Startup` |
| `Startup` | `newServer`, the trust root, the socket, and the calls a started broker makes commands for | `MCStartup`, `StartupProofs` |
| `StartupProofs` | proofs about `Startup` | |

A definition commented "Variant with a bug", or one that stands before another
whose name it carries with a word added (`DowngradeNot`, `FlushTempNot`, `PlacementAnyway`, ...) is a
plausible mistake in the code. It belongs to no behaviour; put in place of the
definition it varies, it makes the property listed for it under `mutants` in
`PROJECT.json` fail, which shows that the property sees that mistake.

### Broker

A connection carries one request, so `c \in Conns` names a connection, its
handler and its request. `pc[c]` is the handler's place in `handleConn`
(session.go:23-176): `peer`, `read`, `decide`, `fetch`, `mkdir`, `write`,
`launch`, `run`, `cleanup`, then `finish` (186-203) as `audit`, `sync`,
`respond`, and `unwind` for the deferred calls. `Verdict` is the chain of early
returns from the decoded frame to `BuildArgv` in the order of the code: the
order is what `NoExistenceOracle` is about. `page` is the audit file as readers
see it and `disk` what a power loss leaves of it; `auditErr` remembers whose
write returned an error. `proc`, `launch` and `orphan` are a consumer, what it
left, and a descendant of it that still holds its stdout, for which
`exec.Cmd.Run` waits. `ctx[c]` is the operation context, a child of `Serve`'s.

Actions outside the code: clients that connect, send, leave or stop reading;
consumers that exit as they like; `Kill` (SIGKILL or a panic) and `PowerLoss`.
`ForkOps` and `BigOps` are assumptions about the environment: the operations
whose consumer may fork, and those whose answer may not fit the socket's
buffer, so that a client that does not read can hold up its handler.

`BrokerPromise` is the contract: it has no handlers, only what credentials are
in use, which of them are outside the broker's memory, the durable log and what
clients were told. `KeepsPromise` says that `Broker`, seen through `Promise`,
allows nothing else.

### PolicyEdit

`runTransaction` (grant.go:242-427) with `Backup`, `WriteAtomic`, `Restore` and
`VerifyInstalled` (write.go), one step per file operation, for any number of
`Editors`. A policy is the set of `Grants` it authorizes; what the analyses say
of a candidate is `Unexpected`, and which candidates pass is free, since this
module is about the transaction and `Policy` about the analyses. A file has
what readers see and what survives a power loss, and `WriteBack` may bring the
directory to the disk at any time: a rename may be durable before the data is.
Backup names are `Slots`, in the order of their timestamps; `Attempts` stands
for the code's 60.

### Policy

A rule with all its conditions, `Evaluate` and `decide`, the coverage and
overlap tests, every finding that refuses a candidate and those that the
properties speak of, `AnalyzeRuleInsertion`, `InsertRule`, `ProbeSet`, `Delta`
and its `Unexpected`, near misses. `Grant`, `GrantAt` (`--at`) and `Apply` are
the commands, each in one step. `Glob` is a constant operator: the proofs hold
for the matcher whatever it computes, or for the conditions on it named at the
end of the module.

The code compares texts: a pattern covers another if it matches it as a
string. `TextTransitive`, `TextReflexive`, `OverlapNested` and
`StarMatchesLabels` say of the patterns in use that this is exact. They fail
for some vocabularies, `?` beside `*` or two globs that overlap in the middle;
the theorems that need one of them name it, `MCPolicy` assumes all of them of
its instance and TLC evaluates that assumption.

### Wildcard and Match

`Wildcard` has one action for each branch of the loop of `wildcardMatch`
(policy.go:383-405). `Accounts` is what a pattern means: the subject can be cut
so that each byte of the pattern accounts for its piece. `Match!WildcardMatch`
is the same algorithm as a recursive function, which `MCPolicy` uses;
`FunctionAgrees` compares the two on every string, those with a `*` of their
own included, because the analyses pass such strings.

### ExecSession

Two goroutines, each unsynchronised access to `Dir.path` a step of its own.
`WriteFile` reads it three times (join, containment, parent), `Cleanup` checks,
walks, unlinks and clears. `file` says what is on the RAM-backed directory and
in the working directory. A signal goes to the handler while `listening`, and
kills the process otherwise (`Die`).

### Delivery

A request is a run of `get`, `exec` or `probe`, or one open of a file under the
mount (mount_linux.go:115-214); `req[q]` is what its process or goroutine holds.
`Authorize` is one call of `policy.Authorize` (policy.go:143-164): it loads the
live policy, decides one reference, appends a line, or fails to without telling
anybody (writeAudit, 340-367), and only an ALLOW goes on. `Fetch` takes one
secret at its present version. `Release` zeroes the buffer of the handle. What
`exec` does with the rendered credential is `ExecSession`; here it is one step.

A policy is what it authorizes for the identity, the agent context and the time
at hand, so an `hours` window that closes is an edit like another. Between any
two steps `EditPolicy`, `EditProfile` and `Rotate` may happen, `MaxEdits` of
them. `granted` remembers the union of what the policies in force since the
request began authorized, `asof` the versions at its beginning: `AdmittedFirst`
says that nothing revoked before a request began is fetched by it, and does not
say that one policy admitted all of it, which the code does not promise.
`server` is the goroutine that waits for one signal: while a file is open its
unmount fails, and it is `deaf` from then on.

References stand for the names of a profile's secrets, each with a reference of
its own. The strings that a template makes of a secret are garbage the
collector has to find (profile.go:104-106); `buf` is the rendering itself.

### Startup and Argv

`newServer` (broker.go:170-260) as it is written: all definitions are loaded
(`LoadAll`), each is verified with its executable and bound to its validators,
profiles are loaded and verified one by one, then `authz.json`; one step for
each load and one for each verification, in any order the code's map iterations
allow. A node of `tree` has an owner, a mode and a text with its author. The
administrator edits (`Save`), others write what a mode or a directory above it
lets them write (`Forge`), restored texts of root's included: a forged file may
hold what root once wrote there. `MaxEdits` bounds edits and kills together.
`Coherent` is what `Broker` assumes by `AuthzValidated` and `ProfilesLoaded`.

Two things are left out of the tree. The administrator does not repair owners
and modes while a broker starts: a file that is forged, loaded, replaced and
made root's again before its verification passes it, as in any check that comes
after the load. And the unit runs one broker at a time: `os.Remove` of the
socket, and the unlinking when a listener is closed, go by path, so a second
broker started by hand would take the socket of the first.

In `Argv` a text is a sequence of characters, because the placeholders of a
template are found by a scan. `placeholders` (what a definition is checked by)
and `substitute` (what a call uses) are written as their loops are;
`Spelling` and `Meaning` are the reference: a template as a list of parts, how
it is spelled and what it should become. `AsMeant` compares them for every
template of up to three parts and every set of inputs. It speaks of operations
whose templates were spelled from such parts (`Spells`); `Legible` says which
parts can be told apart once spelled, since there is no escape for a `$` before
a `{` or for a `}` in a name.

## Runs

| run | instance | states | shows |
|---|---|---|---|
| `handlers` | 2 connections, one good request, 2 secrets, symmetric | 3,211,000 | the audit properties, nothing survives `Serve`, refinement of `BrokerPromise` |
| `requests` | 1 connection, 2 uids, all ten kinds of request, forking consumer, stalling client | 45,100 | who gets a credential, what an answer says and does not tell a stranger, connections end, a signal ends `Serve` |
| `policy_edit` | 1 operator, 3 commands, 2 grants, 3 backup names | 739,000 | whole files, true reports, approved changes, backups |
| `policy` | every list of up to two of 17 rules, 8 grants, 2 instants | 7,600 | what grants may do and analyses promise |
| `wildcard` | patterns up to 3 bytes of 4, or 4 of 2; subjects up to 3 or 4 | 47,000 | the matcher is exact, but for subjects with `*`, ends, and is the function `Policy` uses |
| `exec_session` | 2 secrets, file at the top of the directory or below | 14,700 | wiping, zeroing, what the child sees, signals |
| `delivery` | two opens, exec beside probe, or two gets; 2 secrets, 5 policy files, 2 edits | 3,689,000 | admission, the audit trail, freshness, nothing lingers |
| `startup` | 2 definitions under 4 namings, 1 profile, every single unsound node, 4 edits, 12 forgeries; 259 templates | 295,000 | only root's word, coherence, the socket, arguments as meant |
| `shutdown_kills`, `edit_race_delta`, `exec_outside`, `grant_no_effect` | | | each refutes one sentence of the documentation, see Findings |

Why the bounds are enough. Handlers meet only in the WaitGroup, the audit file
and the cancelled context, and each of these is met by a pair; a third handler
adds no new kind of step (and the proofs cover any number). One connection
suffices for properties of a single request, and lets every kind of request be
tried. Two secrets are the least for which the second can fail after the first.
Three commands let a command find what an earlier, killed one left, and a third
find what the recovery left; two operators are a race (`edit_race_delta`, and in
the proofs any number). Two rules and a grant
are the least for which an existing rule can be above the grant and another
below it, or both push it; the 17 rules have each condition, both outcomes,
`deny_agents`, and schedules that do and do not overlap. Strings of three and
four bytes have two stars, a star at either end, and backtracking into
backtracking. Two requests of one kind meet in the policy, the log and a file's
handles; two edits let a secret be admitted by one policy, a second by another,
and both be gone when the fetch begins, or a policy move and move back. One
unsound node is the least a broker must refuse, one edit between load and
verification the least that can slip through, and the second undoes the first;
kills take a broker's whole life, so one and a half lives fit in the bound.
Three parts give a template with text before, between and after, and every
neighbourhood of `$` and `}`. `MaxRules`, `MaxRuns`, `Attempts` and `MaxEdits` are the only
bounds in guards; `Slots` bounds the backup names.

`CHECK_DEADLOCK FALSE` is set where a process really ends: the broker exits,
exec exits, a match is decided, every request of `Delivery` has ended and the
mount is gone, and a policy or a tree that nobody edits stays. In
`PolicyEdit` the kernel can always write back, so there is no such state.

Fairness. Goroutines run and timers fire, so the steps of a handler, of
`Serve`, of its closing goroutine and of both goroutines of `exec` are weakly
fair, each as one group with one goroutine in it. A done context ends the wait
for the store and kills the consumer, so `Deadline` and `KillConsumer` are
fair. Nothing is assumed of clients, stores, consumers, children, signals and
crashes: `FetchSecret`, `ConsumerExits`, `Send` or `OrphanEnds` may never
happen. `AcceptFails` is fair only once the listener is closed. Under this
`ConnectionsEnd` and `ShutdownEnds` still need two exceptions, `HeldUp`: a
descendant of the consumer that keeps its stdout, and a client that does not
read. `Delivery` and `Startup` are checked for safety only: an open waits for its
store as long as the kernel's caller does, and a signal does not end a mount
(Findings).

## Proofs

All theorems are about `Spec` without fairness, for every value of the
constants that the named assumptions admit. These are of three kinds.

* What the code enforces when it loads its files: `AuthzValidated`,
  `ProfilesLoaded`, `PoliciesLoad`. `Startup` proves what `Broker` assumes.
* The typing of inputs (`RequestsTyped`, `GrantsTyped`, `TimesTyped`,
  `StringsValid`, `SecretsValid`, `DeliveryConstants`, `StartupConstants`,
  `ArgvConstants`), finitely many connections, backup and definition names, and
  values that differ where the code tells them apart (`BadRefIsBad`,
  `ContentsDistinct`).
* Of `Startup`, what a file system is (`PathsAssumption`: what is above a
  directory is above its files, two names are two paths) and who has written
  what (`AuthorsAssumption`: the administrator is root, and a text of somebody
  else's is in a file that is his or that anybody may write). The second is what
  makes an owner and a mode say anything about an author; no code can check it.

`TLC` evaluates each of them on every run of its module. `OneOperator` is not an
assumption of a module but a hypothesis of two theorems.

* **BrokerProofs**. The safety invariants are not inductive: that an OK has a
  durable record depends on where the handler is. `Inductive` adds to the types
  that a handler inside an operation is entitled (`OnlyEntitled`), that one on
  its way to answer holds a response (`ResponseHeld`), that files, consumers,
  secrets and answers exist only at certain positions (`InPlace`), that a
  handler that synced an OK has its record on the disk (`RecordedFirst`), and
  that the WaitGroup counts the handlers (`Counted`, with the cardinality of
  the set of active handlers). From it follow `CredentialOnlyIfEntitled`,
  `OKHasDurableRecord`, `CleanBeforeAnswer` and `NothingSurvivesServe`.
* **BrokerAnswerProofs**. `Answers` is inductive relative to `Inductive`: before
  an operation settles there is no response (`Undecided`), a response was earned
  by what the consumer did (`Earned`), a record is of a request whose handler
  settled on it (`Logged`), a client was told what its handler settled on, or
  that the log failed (`Told`), and a handler past its sync has its record or an
  error (`Audited`). What makes them stable is one lemma: once a request is
  settled, consumers, deadlines and cancellations come too late for it
  (`SettledFrame`). Hence `LogAgreesWithAnswer`, `DecidedIsAudited`,
  `AnswerIsTrue`, `NoExistenceOracle`, and the refinement `KeepsPromise`, in
  which each step of the broker is one step of `BrokerPromise` or none.
* **PolicyEditProofs**. Whatever is on its way to the name `policy.json` is
  whole, and flushed before it is renamed (`OnItsWay`); two operators never
  fill one backup (`OwnBackups`, which rests on O_EXCL). Hence `LiveIsWhole`
  and `BackupsNeverChange` for any number of operators. Of each command on its
  own, `Told` is inductive (it told nothing before it ended, and goes back only
  from what it replaced), which gives `ReportsAreTrue` and `TempsRemoved`, for
  any number of operators too. `OnlyApprovedChanges` and `ReplacedIsKept` hold
  for one operator at a time, by `Undisturbed`: what was loaded stays live until
  it is replaced. Two refute the first (`edit_race_delta`), so the hypothesis
  `OneOperator` is the theorem's own, and the least there is.
* **ExecSessionProofs**, for any number of secrets. The two goroutines share the
  path and the files, so `Inductive` says of each where it may find what: what
  may be in memory (`Needed`), what a signal at each place excludes (`Handled`),
  what the file is while it is created without one (`Staged`), and that whoever
  unlinked, emptied the path or left has nothing behind it (`Wiped`). Hence
  `HeldOnlyWhileNeeded`, `WipedAtExit`, `ChildSeesWhole` and `ZeroedFirst`,
  with the signal at every point; the exceptions are those of the properties.
* **DeliveryProofs**, for any number of requests. No request's step touches
  another request, so `Inductive` is `Fine` of each: what is authorized was so
  since it began (`Admission`), what it holds it wanted and fetched since
  (`Holding`), the log holds the lines of what is authorized, in order
  (`Recorded`, `Probing`), and versions only grow (`Current`). The order of the
  log rests on `Authorize` taking the least reference left. Hence
  `AdmittedFirst`, `AuditTrail`, `FreshAndWhole` and `NothingLingers`.
* **StartupProofs**. Each file is loaded first and verified afterwards, by its
  path. That this is sound rests on `TrustNeverMoves`: nobody who may not write
  a path can come to be trusted with it, so what is found sound at the
  verification was written by root at the load. The rest of `Inductive` says
  what each stage leaves behind it (`DefinitionsChecked`, `ProfilesChecked`,
  `AuthzChecked`), and from which file each definition came (`Traced`): a
  definition is verified by the name it declares, not by its own file's, and
  that all of them were root's after all follows by counting, since every name
  verified is a sound file that was loaded, and there are as many files as names
  (`EveryFileIsSound`). Hence `OnlyRootsWord`, `Coherent` and `Reachable`.
  `Callable` adds that what can be called was parsed, so that `substitute` finds
  an input for every placeholder (`EveryPlaceholderIsFilled`), and that what was
  executed was built from accepted inputs. `AsMeant` follows for templates of
  any length and inputs of any texts (`ExecutesWhatIsMeant`, from
  `CallsAssumption`: what clients send are texts). The argument: the scans always
  go forward, so the functions that define them exist (`ScanExists`); each part
  is found in the spelling where those before it end (`PiecesFound`) and is read
  there as what it is (`PartsRead`); so `placeholders` finds every name
  (`NamesAreFound`), and what is written from each part on is the meaning of the
  parts from there (`SubstituteMeans`). The inductions count with `CountUp`,
  which rests on finite sets being well-founded under inclusion.
* **PolicyProofs**. Lemmas about inserting a rule (what stays in place, what
  moves by one, who decides after), about coverage (`RuleCovers` carries
  matches over, where matching is transitive) and overlap (where it is nested),
  and about probes (for each request that a grant changes there is a probe that
  changes alike: `ProbeForRequest`). The three action properties of grants
  follow from these for one step, the invariants for installed policies from
  `InstalledClean`: what a command left has no errors. `DeadRulesAreDead` takes
  the least rule that covers.
  Nothing is needed of the matcher for `TypeCorrect`, `GrantsAreConfined`,
  `GetLabelsAreComplete`, `EvaluatorsAgree` and `NearMissesAreExplained`.
  `DeadRulesAreDead` needs
  `TextTransitive`; `OverlapsAreReported` and `GrantsDisturbNothing` need
  `OverlapNested`; `RestrictionsHold` needs both; `AgentsAreKeptOut` needs
  `OverlapNested` and `StarMatchesLabels`; `GrantsOverruleOnlyWider` needs
  `TextTransitive`, `TextReflexive` and `OverlapNested`.
* **WildcardProofs**. What the loop has consumed is accounted for (`Consumed`),
  and if the pattern means a subject without `*`, a way to cut it is still
  ahead of the loop (`StillAhead`): forgetting all but the last star loses
  nothing, because an earlier star that took more would do no better.
  `Complete` and `Sound`, and so `Exact`, follow. That the recursive function of
  `Match` returns what the loop ends with (`TheFunctionIsTheLoop`) needs that
  such a function exists: the function "some finite run from here succeeds"
  solves its equation, which is then followed along the steps of the loop.

The type invariants of `Broker`, `PolicyEdit`, `ExecSession`, `Delivery` and
`Wildcard` are conjuncts of their `Inductive`, which `InductiveHolds` proves in
each module; `Policy`'s is `TypeCorrect`. Being proved for all instances, the
inductive invariants, `Answers`, `CleanBeforeAnswer`, `GetLabelsComplete`,
`TrustNeverMoves` and `EvaluatorsAgree` (the loop that authorizes and the loop
of the delta decide alike) have no run.

Only model-checked: liveness (`ConnectionsEnd`, `ShutdownEnds`, `SignalEnds`,
`Terminates`), which the prover does not reach.

## Findings

Each of the first four has a run in which TLC shows the sequence.

1. `shutdown_kills`: a signal cancels the contexts of operations in flight,
   which kills their consumers (session.go:116), where broker.go:262-264 and
   cmd/parzival-broker/main.go:112-119 say that they finish.
2. `edit_race_delta`: with two operators, an installation replaces a policy its
   operator never saw, and authorizations move that the delta did not list
   (grant.go:113, 396; MANUAL.md:243-244).
3. `exec_outside`: `Cleanup` empties `Dir.path` while `WriteFile` is about to
   join it, and the credential is written to the working directory
   (ephemeral.go:90; 33-34).
4. `grant_no_effect`: two deny-rules, each wholly below the grant's reach, push
   it below both; it is installed and never fires (edit.go:219; 8-16).

Met while modelling, visible in the models, without a run of their own:

* a deadline that passes in the store is answered `broker_unavailable`, not
  `timeout` (session.go:121-125; SERVICE-PROTOCOL.md:81, 193): `AnswerIsTrue`
  states what the two answers do mean;
* a consumer's child that keeps its stdout holds the handler beyond the
  deadline (launcher.go:61-72), and a client that does not read blocks it and
  so the shutdown (session.go:200): the exceptions of
  `ConnectionsEnd` and `ShutdownEnds`;
* a signal while exec creates the credential file may leave it behind
  (main.go:633): the exception of `WipedAtExit`;
* a `*` of the pattern does not match a subject that holds a `*` at that place,
  because the literal comparison comes first (policy.go:387, against 380-381);
  requests have none, but the analyses and the probes pass patterns as
  subjects: the exception of `Complete`;
* a `?` of one rule covers a `*` of another for `Analyze` (analyze.go:335), so
  that a live rule is called unreachable: excluded by `TextTransitive`;
* an allow-rule that refuses agents counts as having the outcome of a grant
  when the grant is placed (edit.go:196-227): the exception of
  `DisturbsNothing`; the delta's probes in an agent's context then refuse the
  installation where it matters (`OverrulesOnlyWider`);
* `mount` takes one signal, and `Unmount` fails while a file is open: nobody is
  told and no later signal is taken (mount_linux.go:53-58), where
  mount_linux.go:30-31 and 60 say that it ends on SIGINT, SIGTERM and Ctrl-C
  (`Delivery`, `server = "deaf"`);
* an audit line of the CLI that cannot be written is lost in silence
  (policy.go:340-345), where probe.go:111-112 takes a log that could not be
  written for a refusal: `lost` in `AuditTrail`; and a probe without a policy
  file is answered DENIED and leaves no line (probe.go:90-93);
* a probe that found no mode asks `Authorize` for a line under `get` and answers
  DENIED whatever that says (probe.go:106): the line may be an ALLOW;
* a definition is verified as `<name>.json`, of the name it declares, and
  `LoadAll` skips directories (consumer.go:195): a directory of root's called
  `a.json` vouches for a file `x.json` that declares `a`. A file in `Startup` is
  never a directory;
* `consumer.Parse` asks `dec.More()` for trailing data (consumer.go:150), which
  accepts a stray `}` or `]`, as protocol.go's decodeExactlyOne explains, where
  consumer.go:147-149 refuses anything after the first value;
* an optional input that is absent leaves what follows it at the head of the
  argument, so `${x}-y` begins with a dash that `AllowLeadingDash` does not see
  (consumer.go:120-123): the last exception of `AsMeant`;
* the client waits 35 seconds for an answer (client.go:19), an operation may
  declare a longer timeout: to `Broker` a client that leaves.

## Not modelled

Listed with reasons in `PROJECT.json`. In short: stores and bootstrap are I/O
against other services, with no state between two calls (`openbao.json` is read
again for every secret, and caught half-written it means the caller's own login,
bootstrap.go:50-57: a hazard outside the models); the shapes of answers are
closed tables checked in one step; the text that commands print is layout; agent detection
reads the environment; the RAM disk of macOS is made by external programs.
Data that no property tells apart is abstracted: the bytes of secrets,
templates and answers, wording of errors and reasons, the JSON of requests and
files. A torn read of `Dir.path` by the race in exec is one of the ways `Die`
happens.

## Plan

The serving broker, the policy and its editing came first, because there a
mistake hands out a credential or loses the policy; then delivery and startup.
Then came the proofs, of every safety property a passing run checks (two of
`PolicyEdit` for one operator, which is when they hold; those of `Policy` from the
assumptions on its matcher named above).

What is left: the outcome of `Parse` and `Decide` of the authorization file is
one step in `Startup`; the duplicate rules of authz.go could be told apart there.
