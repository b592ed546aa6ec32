----------------------------- MODULE DriftCheck -----------------------------
(***************************************************************************)
(* What a generator with a drift check promises (spec sections 4.8 and 7), *)
(* with no versions loop, no formats and no files on disk.  A run works    *)
(* through its target paths in any grouping.  In generate mode it rewrites *)
(* each one with the expected artifact; in check mode it leaves the        *)
(* repository alone and records each path whose committed content is not   *)
(* the expected artifact.  When every target has been handled it exits 0,  *)
(* or 1 in check mode when some path is stale.  It may instead fail at any *)
(* point: it exits 1, having handled some of the paths it reached and      *)
(* rolled nothing back; in generate mode the paths it reached and did not  *)
(* finish may hold anything (a write that raised half way).  Once a run    *)
(* has exited, another run may start on the same repository.              *)
(***************************************************************************)
CONSTANTS
  Paths,   \* every path a run could write
  None     \* no exit status yet

VARIABLES
  mode,      \* "generate" or "check"
  targets,   \* the paths the run is asked for
  expected,  \* [Paths -> the artifact a path should hold]
  repo,      \* [Paths -> the committed content]
  done,      \* the targets handled so far
  stale,     \* the targets found to differ (check mode)
  status     \* the exit status, None while running

avars == <<mode, targets, expected, repo, done, stale, status>>

Differs(p) == repo[p] # expected[p]

\* handle the paths W: rewrite them, or note those that differ
Handle(W) ==
  IF mode = "generate"
  THEN /\ repo' = [p \in Paths |-> IF p \in W THEN expected[p] ELSE repo[p]]
       /\ stale' = stale
  ELSE /\ repo' = repo
       /\ stale' = stale \cup {p \in W : Differs(p)}

Init ==
  /\ mode \in {"generate", "check"}
  /\ targets \subseteq Paths
  /\ DOMAIN expected = Paths
  /\ DOMAIN repo = Paths
  /\ done = {}
  /\ stale = {}
  /\ status = None

Process(S) ==
  /\ status = None
  /\ S # {} /\ S \subseteq targets \ done
  /\ done' = done \cup S
  /\ Handle(S)
  /\ UNCHANGED <<mode, targets, expected, status>>

\* an exception after the paths W of S were handled; in generate mode the
\* other paths of S are left in an unknown state, those outside S intact
Fail(S) ==
  /\ status = None
  /\ S \subseteq targets \ done
  /\ \E W \in SUBSET S :
       IF mode = "generate"
       THEN /\ \A x \in W : repo'[x] = expected[x]
            /\ \A x \in Paths \ S : repo'[x] = repo[x]
            /\ stale' = stale
       ELSE Handle(W)
  /\ done' = done \cup S
  /\ status' = 1
  /\ UNCHANGED <<mode, targets, expected>>

Conclude ==
  /\ status = None
  /\ done = targets
  /\ status' = IF mode = "check" /\ stale # {} THEN 1 ELSE 0
  /\ UNCHANGED <<mode, targets, expected, repo, done, stale>>

\* a new run on the repository the previous one left
Restart ==
  /\ status # None
  /\ mode' \in {"generate", "check"}
  /\ targets' \subseteq Paths
  /\ done' = {}
  /\ stale' = {}
  /\ status' = None
  /\ UNCHANGED <<expected, repo>>

Next == (\E S \in SUBSET Paths : Process(S) \/ Fail(S)) \/ Conclude \/ Restart

\* a run that is not stopped by an exception goes on until it exits: the
\* work on its targets is taken up unless an exception ends the run
Spec ==
  /\ Init /\ [][Next]_avars
  /\ WF_avars(\E S \in SUBSET Paths : Process(S))
  /\ WF_avars(Conclude)

=============================================================================
