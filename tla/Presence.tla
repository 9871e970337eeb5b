------------------------------ MODULE Presence ------------------------------
(***************************************************************************)
(* list --current (internal/presence, internal/runtimeprobe on Linux): what *)
(* the Codex and the Claude provider claim about the process that has one  *)
(* PID, from observations made one after the other, while processes end,   *)
(* start under the same PID, and open and close sessions.  Each PID is     *)
(* inspected by itself.                                                    *)
(*                                                                         *)
(* An identity is the second of the start, from ps, and a token, the       *)
(* instant of the start in the finer clock of the kernel, read after it.   *)
(***************************************************************************)
EXTENDS Integers, Sequences

CONSTANTS
    Sessions,  \* what a harness may have: [id, native], occurrences of native IDs
    PerSecond, \* instants of the kernel's clock in a second
    MaxTime,   \* bound of the instants
    MaxChanges \* bound of what processes do besides starting and ending

\* An occurrence has an ID: 0 stands for none.
ConstantsOK ==
    /\ \A s \in Sessions : s.id # 0
    /\ PerSecond \in Nat \ {0} /\ MaxTime \in Nat

VARIABLES
    provider, \* whose processes are looked for
    time,
    process,  \* who has the PID now: its start, name, and the sessions it has open
    registry, \* Claude's file for the PID: who wrote it, and for which session
    listed,   \* the sessions the command has listed
    probe,    \* the step of the provider, and what it has observed
    held,     \* history: who had which session open since the probe began
    changes

vars == <<provider, time, process, registry, listed, probe, held, changes>>

Instants == 0 .. MaxTime
Second(instant) == instant \div PerSecond
Identities == [second : Instants, token : Instants]
Nobody == [alive |-> FALSE, start |-> 0, name |-> "other", open |-> {}]
NoRegistry == [there |-> FALSE, by |-> 0, native |-> 0]
NoIdentity == [second |-> 0, token |-> 0]
Natives == {s.native : s \in Sessions}

\* A look is two steps, Processes and Process alike.  Codex looks for its files
\* between two looks, Claude reads a registry file in two steps.
Look(of) == <<<<of, "ps">>, <<of, "token">>>>
Steps == Look("roster") \o Look("check") \o
         (IF provider = "codex"
          THEN Look("before") \o <<<<"files", "lsof">>>> \o Look("after")
          ELSE <<<<"registry", "find">>, <<"registry", "read">>>>) \o
         Look("final")

TypeOK ==
    /\ provider \in {"codex", "claude"}
    /\ time \in Instants
    /\ process.start \in Instants /\ process.name \in {"codex", "claude", "other"}
    /\ process.open \subseteq Sessions
    /\ registry.by \in Instants /\ registry.native \in Natives \cup {0}
    /\ listed \subseteq Sessions
    /\ probe.step \in 0 .. Len(Steps)
    /\ probe.second \in Instants
    /\ probe.seen \in Identities /\ probe.kept \in Identities
    /\ probe.owned \subseteq Sessions
    /\ probe.outcome \in {"none", "claims", "no identity", "unavailable",
                          "stale", "failed"}
    /\ probe.claims \subseteq Sessions \cup [id : {0}, native : Natives]

IdleProbe ==
    [step |-> 0, second |-> 0, seen |-> NoIdentity, kept |-> NoIdentity,
     owned |-> {}, user |-> NoIdentity, usable |-> TRUE, read |-> NoRegistry,
     outcome |-> "none", claims |-> {}]
Init ==
    /\ provider \in {"codex", "claude"}
    /\ time = 0
    /\ process = Nobody
    /\ registry = NoRegistry
    /\ listed \in SUBSET Sessions
    /\ probe = IdleProbe
    /\ held = {}
    /\ changes = 0

-----------------------------------------------------------------------------
(* The probe.                                                              *)

World == UNCHANGED <<provider, time, process, registry, listed, held, changes>>
At(of, what) == probe.step > 0 /\ Steps[probe.step] = <<of, what>>
Go(new) == probe' = [new EXCEPT !.step = @ + 1]
Done(new, outcome) == probe' = [new EXCEPT !.step = 0, !.outcome = outcome]
\* A process that is gone, or is not the one it was, is left out.
LeftOut == probe' = [IdleProbe EXCEPT !.outcome = "none"]

StartProbe ==
    /\ probe = IdleProbe
    /\ probe' = [IdleProbe EXCEPT !.step = 1]
    /\ held' = {[by |-> process.start, session |-> s] : s \in process.open}
    /\ UNCHANGED <<provider, time, process, registry, listed, changes>>

\* In FileUses a process that is gone only owns no file.
Missing(of) ==
    IF of \in {"before", "after"}
    THEN Go([probe EXCEPT !.seen = NoIdentity, !.owned = {}])
    ELSE LeftOut
Ps(of) ==
    /\ At(of, "ps")
    /\ IF process.alive THEN Go([probe EXCEPT !.second = Second(process.start)])
       ELSE Missing(of)
    /\ World

\* An identity is compared as a whole; the map of the Codex processes has only
\* the PID and the second.
SameKey(a, b) == a.second = b.second
SameIdentity(a, b) == a = b

\* validatedClaudeProcess, and the loop of the Codex provider: the process of
\* the roster is the one that has the PID, and is one of the harness.
Check(new) ==
    IF SameIdentity(new.seen, probe.seen) /\ process.name = provider
    THEN Go([new EXCEPT !.kept = new.seen])
    ELSE LeftOut

\* FileUses: who owned the files, if it was there before and is there after.
FilesUsed(new) ==
    Go(IF SameIdentity(new.seen, probe.seen) THEN [new EXCEPT !.user = new.seen]
       ELSE [new EXCEPT !.owned = {}])

\* The last look, and what is then claimed.
ObserveCodex(new) ==
    LET claims == IF SameKey(probe.user, probe.kept) THEN probe.owned ELSE {} IN
    IF ~probe.usable THEN Done(new, "unavailable")
    ELSE Done([new EXCEPT !.claims = claims],
              IF claims = {} THEN "no identity" ELSE "claims")
ObserveClaude(new) ==
    IF new.seen.second # Second(probe.read.by) THEN Done(new, "stale")
    ELSE Done([new EXCEPT !.claims = {[id |-> 0, native |-> probe.read.native]}],
              "claims")
Observe(new) ==
    IF ~SameIdentity(new.seen, probe.kept) THEN LeftOut
    ELSE IF provider = "codex" THEN ObserveCodex(new) ELSE ObserveClaude(new)

Token(of) ==
    /\ At(of, "token")
    /\ LET new == [probe EXCEPT !.seen = [second |-> probe.second,
                                         token |-> process.start]] IN
       IF ~process.alive THEN Missing(of)
       ELSE CASE of = "roster" -> IF process.name = provider THEN Go(new)
                                  ELSE LeftOut
              [] of = "check" -> Check(new)
              [] of = "before" -> Go(new)
              [] of = "after" -> FilesUsed(new)
              [] of = "final" -> Observe(new)
    /\ World

\* lsof: the sessions that were listed and that the PID has open; not to be had,
\* or failing, it makes the provider say so.
Lsof ==
    /\ At("files", "lsof")
    /\ \/ Go([probe EXCEPT !.owned = process.open \cap listed])
       \/ probe' = [probe EXCEPT !.usable = FALSE, !.step = Len(Steps) - 1]
    /\ World

\* readClaudeRegistry: without a file there is no last look; a file that changes
\* or goes while it is read fails the command.
FindRegistry ==
    /\ At("registry", "find")
    /\ IF registry.there THEN Go([probe EXCEPT !.read = registry])
       ELSE Done(probe, "no identity")
    /\ World
ReadRegistry ==
    /\ At("registry", "read")
    /\ IF registry = probe.read THEN Go(probe)
       ELSE probe' = [IdleProbe EXCEPT !.outcome = "failed"]
    /\ World

\* addProcessObservation and match: the listed sessions of a claimed native ID,
\* and the one that is selected; 0, if they are ambiguous.
Candidates(native) == {s \in listed : s.native = native}
Selected(native) ==
    LET exact == {s.id : s \in {c \in probe.claims : c.native = native}} \ {0}
        ids == IF exact # {} THEN exact ELSE {s.id : s \in Candidates(native)} IN
    IF \E id \in ids : ids = {id} THEN CHOOSE id \in ids : TRUE ELSE 0

-----------------------------------------------------------------------------
(* The processes that have the PID.                                        *)

StartProcess ==
    /\ ~process.alive
    /\ \E start \in time + 1 .. MaxTime, name \in {provider, "other"} :
          /\ process' = [alive |-> TRUE, start |-> start, name |-> name, open |-> {}]
          /\ time' = start
    /\ UNCHANGED <<provider, registry, listed, probe, held, changes>>
\* Claude removes its registry file, unless it is killed.
EndProcess ==
    /\ process.alive
    /\ process' = Nobody
    /\ \/ registry.there /\ registry.by = process.start /\ registry' = NoRegistry
       \/ UNCHANGED registry
    /\ UNCHANGED <<provider, time, listed, probe, held, changes>>
Change == process.alive /\ changes < MaxChanges /\ changes' = changes + 1
\* A launcher executes the harness, or the harness something else.
ExecProcess ==
    /\ Change
    /\ \E name \in {provider, "other"} \ {process.name} :
          process' = [process EXCEPT !.name = name, !.open = {}]
    /\ UNCHANGED <<provider, time, registry, listed, probe, held>>
OpenSessions ==
    /\ Change
    /\ process.name = "codex"
    /\ \E open \in SUBSET Sessions :
          /\ process' = [process EXCEPT !.open = open]
          /\ held' = held \cup {[by |-> process.start, session |-> s] : s \in open}
    /\ UNCHANGED <<provider, time, registry, listed, probe>>
WriteRegistry ==
    /\ Change
    /\ process.name = "claude"
    /\ \E native \in Natives :
          registry' = [there |-> TRUE, by |-> process.start, native |-> native]
    /\ UNCHANGED <<provider, time, process, listed, probe, held>>

Next == \/ StartProbe
        \/ \E of \in {"roster", "check", "before", "after", "final"} :
              Ps(of) \/ Token(of)
        \/ Lsof \/ FindRegistry \/ ReadRegistry
        \/ StartProcess \/ EndProcess \/ ExecProcess \/ OpenSessions
        \/ WriteRegistry

Spec == Init /\ [][Next]_vars

-----------------------------------------------------------------------------
\* What is claimed of a process was its own: it had the rollout open during the
\* probe, or it wrote the registry file, or else one that started in the same
\* second did; and no process is called stale because of its own file.  A
\* selected session is one it had open, or the only one of the native ID.
ClaimsAreOwn ==
    /\ probe.outcome = "claims" /\ provider = "codex" =>
          \A s \in probe.claims :
             /\ [by |-> probe.kept.token, session |-> s] \in held
             /\ Selected(s.native) \in {0} \cup {c.id : c \in probe.claims}
    /\ probe.outcome = "claims" /\ provider = "claude" =>
          /\ Second(probe.read.by) = Second(probe.kept.token)
          /\ \A s \in probe.claims : \A c \in Candidates(s.native) :
                Selected(s.native) # 0 => c.id = Selected(s.native)
    /\ probe.outcome = "stale" => probe.read.by # probe.kept.token
=============================================================================
