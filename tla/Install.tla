------------------------------- MODULE Install -------------------------------
(***************************************************************************)
(* completion install (internal/completion/install.go): installs that run  *)
(* at the same time and may be killed, a user who edits the shell profiles. *)
(*                                                                         *)
(* A profile is the version of the user's own lines, and the marked blocks *)
(* in it; 0 lines: it is not there, or has only what an install put there. *)
(***************************************************************************)
EXTENDS Integers, FiniteSets

CONSTANTS
    Installs,  \* processes that run completion install
    Shells,    \* for each shell somebody uses, its number of profiles
    MaxEdits, MaxRuns \* bounds

ConstantsOK == MaxEdits \in Nat

VARIABLES
    shell,    \* how many profiles the shell has: none for fish, two for bash
    profile,  \* per profile: what is at its path
    script,   \* what is at the path of the completion script
    run,      \* per process: where it is, and what it has read
    backup,   \* per profile: what runs had moved aside when they were killed
    safe,     \* history: per profile, the lines there were before any install that runs
    hole,     \* history: somebody read a profile while it was moved aside
    lost,     \* history: a rename and the rename that was to undo another failed
    edits, runs

vars == <<shell, profile, script, run, backup, safe, hole, lost, edits, runs>>

Profiles == 1 .. shell
AllProfiles == 1 .. 2
Versions == 0 .. MaxEdits + 1
\* "malformed": one marker without the other, or more than one block.
Contents == [there : BOOLEAN, lines : Versions,
             block : {"none", "old", "ours", "malformed"}]
NoFile == [there |-> FALSE, lines |-> 0, block |-> "none"]

TypeOK ==
    /\ shell \in Shells
    /\ profile \in [AllProfiles -> Contents]
    /\ script \in {"absent", "partial", "whole"}
    /\ \A i \in Installs :
          /\ run[i].at \in {"idle", "truncate", "generate", "read", "rename",
                            "set aside", "rename again", "roll back", "clean up"}
          /\ run[i].of \in AllProfiles
          /\ run[i].new \in Contents /\ run[i].old \in Contents
    /\ \A p \in AllProfiles : backup[p] \subseteq Contents
    /\ safe \in [AllProfiles -> Versions]
    /\ hole \in BOOLEAN /\ lost \in BOOLEAN

Idle == [at |-> "idle", of |-> 1, new |-> NoFile, old |-> NoFile]
Init ==
    /\ shell \in Shells
    /\ profile \in [AllProfiles -> {NoFile} \cup
                       [there : {TRUE}, lines : {1},
                        block : {"none", "old", "malformed"}]]
    /\ \A p \in AllProfiles \ Profiles : profile[p] = NoFile
    /\ script \in {"absent", "whole"}
    /\ \A p \in Profiles : profile[p].block = "old" => script = "whole"
    /\ run = [i \in Installs |-> Idle]
    /\ backup = [p \in AllProfiles |-> {}]
    /\ safe = [p \in AllProfiles |-> profile[p].lines]
    /\ hole = FALSE /\ lost = FALSE
    /\ edits = 0 /\ runs = 0

\* What an install moves aside has a name of its own (os.CreateTemp), and is
\* there from the first step to the last of these.
Aside == {"rename again", "roll back", "clean up"}
Beside(p) ==
    backup[p] \cup
    {run[i].old : i \in {j \in Installs : run[j].of = p /\ run[j].at \in Aside}}

Goto(i, at) == run' = [run EXCEPT ![i].at = at]
\* Bash has a second profile; a failure leaves the first as it is.
OneMore(of) == of <= shell
More(of) == of < shell
NextProfile(i) ==
    LET of == run[i].of IN
    run' = [run EXCEPT ![i] = IF More(of)
                              THEN [Idle EXCEPT !.at = "read", !.of = of + 1]
                              ELSE Idle]
Ends(i) == run' = [run EXCEPT ![i] = Idle]
Rest == UNCHANGED <<shell, edits>>

-----------------------------------------------------------------------------
StartInstall(i) ==
    /\ run[i].at = "idle"
    /\ runs < MaxRuns
    /\ runs' = runs + 1
    /\ Goto(i, "truncate")
    /\ safe' = IF \A j \in Installs : run[j].at = "idle"
               THEN [p \in AllProfiles |-> IF profile[p].lines > safe[p]
                                           THEN profile[p].lines ELSE safe[p]]
               ELSE safe
    /\ UNCHANGED <<profile, script, backup, hole, lost>>
    /\ Rest

\* generate: os.WriteFile truncates the script and then writes it.
Truncate(i) ==
    /\ run[i].at = "truncate"
    /\ script' = "partial"
    /\ Goto(i, "generate")
    /\ UNCHANGED <<profile, backup, safe, hole, lost, runs>>
    /\ Rest
Generate(i) ==
    /\ run[i].at = "generate"
    /\ script' = "whole"
    /\ IF shell = 0 THEN Ends(i) ELSE Goto(i, "read")
    /\ UNCHANGED <<profile, backup, safe, hole, lost, runs>>
    /\ Rest

\* ensureManagedBlock: reads the profile and computes the new one.
EnsureManagedBlock(i) ==
    /\ run[i].at = "read"
    /\ LET p == run[i].of
           new == [there |-> TRUE, lines |-> profile[p].lines, block |-> "ours"] IN
       /\ \/ profile[p].block = "malformed" /\ Ends(i)
          \/ profile[p] = new /\ NextProfile(i)
          \/ /\ profile[p].block # "malformed" /\ profile[p] # new
             /\ run' = [run EXCEPT ![i].at = "rename", ![i].new = new]
       /\ hole' = (hole \/ \E j \in Installs \ {i} :
                      run[j].of = p /\ run[j].at \in {"rename again", "roll back"})
    /\ UNCHANGED <<profile, script, backup, safe, lost, runs>>
    /\ Rest

\* writeProfile has written a temporary file, which replaces the profile.
Replace(i, from, failed) ==
    /\ run[i].at = from
    /\ \/ /\ profile' = [profile EXCEPT ![run[i].of] = run[i].new]
          /\ IF from = "rename" THEN NextProfile(i) ELSE Goto(i, "clean up")
       \/ /\ Goto(i, failed)
          /\ UNCHANGED profile
    /\ UNCHANGED <<script, backup, safe, hole, lost, runs>>
    /\ Rest
Rename(i) == Replace(i, "rename", "set aside")

\* The fallback of replaceFile, for systems that do not replace an open file.
SetAside(i) ==
    /\ run[i].at = "set aside"
    /\ LET p == run[i].of IN
       IF profile[p].there
       THEN /\ run' = [run EXCEPT ![i].at = "rename again", ![i].old = profile[p]]
            /\ profile' = [profile EXCEPT ![p] = NoFile]
       ELSE Ends(i) /\ UNCHANGED profile
    /\ UNCHANGED <<script, backup, safe, hole, lost, runs>>
    /\ Rest
RenameAgain(i) == Replace(i, "rename again", "roll back")
\* The deferred removal takes the backup when the roll back has failed, too.
NoRollBack(i) == profile
RolledBack(i) == [profile EXCEPT ![run[i].of] = run[i].old]
RollBack(i) ==
    /\ run[i].at = "roll back"
    /\ \/ profile' = RolledBack(i) /\ UNCHANGED lost
       \/ lost' = TRUE /\ UNCHANGED profile
    /\ Ends(i)
    /\ UNCHANGED <<script, backup, safe, hole, runs>>
    /\ Rest
CleanUp(i) ==
    /\ run[i].at = "clean up"
    /\ NextProfile(i)
    /\ UNCHANGED <<profile, script, backup, safe, hole, lost, runs>>
    /\ Rest

\* A kill anywhere, or an error that leaves everything as it is: what is aside
\* stays there.
Killed(i) ==
    /\ run[i].at # "idle"
    /\ Ends(i)
    /\ backup' = IF run[i].at \in Aside
                 THEN [backup EXCEPT ![run[i].of] = @ \cup {run[i].old}]
                 ELSE backup
    /\ UNCHANGED <<profile, script, safe, hole, lost, runs>>
    /\ Rest

\* The user writes a profile, with or without the block that is in it.
EditProfile(p) ==
    /\ edits < MaxEdits
    /\ edits' = edits + 1
    /\ \E block \in {profile[p].block, "none"} :
          profile' = [profile EXCEPT ![p] = [there |-> TRUE, lines |-> edits + 2,
                                             block |-> block]]
    /\ UNCHANGED <<shell, script, run, backup, safe, hole, lost, runs>>

Run(i) == \/ StartInstall(i) \/ Truncate(i) \/ Generate(i)
          \/ EnsureManagedBlock(i) \/ Rename(i) \/ SetAside(i)
          \/ RenameAgain(i) \/ RollBack(i) \/ CleanUp(i) \/ Killed(i)
Next == (\E i \in Installs : Run(i)) \/ \E p \in Profiles : EditProfile(p)

Spec == Init /\ [][Next]_vars

-----------------------------------------------------------------------------
\* The lines a user wrote while no install ran are never lost: an install that
\* ended, or was killed, or failed left them in the profile or beside it, unless
\* a roll back failed too or another install read the profile while it was moved
\* aside.  And whatever is connected has a script.
ProfileKept ==
    /\ ~lost /\ ~hole =>
          \A p \in Profiles :
             \E content \in {profile[p]} \cup Beside(p) : content.lines >= safe[p]
    /\ \A p \in Profiles : profile[p].block = "ours" => script # "absent"
=============================================================================
