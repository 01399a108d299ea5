---------------------------- MODULE RunDirectory ----------------------------
(***************************************************************************)
(* What the commands of os-datagen leave in a run directory.  A command    *)
(* writes some fifteen files one after the other, straight into their      *)
(* final places, over whatever an earlier command left there; nothing is   *)
(* renamed, locked or cleaned up, so a command that dies leaves a mixture  *)
(* of two runs and perhaps one file cut short.  The manifest and the       *)
(* checksums come last and list what is in the directory at that moment.   *)
(* A file's contents are abstracted to the process that wrote them; one    *)
(* command runs at a time, as the documented workflow has it.              *)
(***************************************************************************)
EXTENDS Integers, Sequences, FiniteSets

CONSTANTS Dirs,      \* the directories given as --out and --run
          NoDir,     \* no directory: no command runs
          Kinds,     \* the commands that are used
          MaxProcs   \* bound: how many commands are run

\* The order in which a command writes its files: "results" are
\* execution_results, validation_results and lineage, "accepted" the four
\* accepted_*.jsonl, "config" also prompts.lock.json.
Rank == [raw |-> 1, config |-> 2, worlds |-> 3, candidates |-> 4, accepted |-> 5,
         rejected |-> 6, results |-> 7, reports |-> 8, manifest |-> 9,
         checksums |-> 10, mixture |-> 11]
Files == DOMAIN Rank
Rows == {"worlds", "candidates", "rejected"}

\* Mutated form: generate_only leaves the rejected rows out.
GenerateOnly_NoRejected == {"raw", "worlds", "candidates"}
\* Mutated form: generate_only saves no raw generations.
GenerateOnly_NoRaw == Rows

\* generate_only writes the worlds, the candidates and the rejected rows.
GenerateOnly == Rows \cup {"raw"}
\* write_run, and the generations that came before it.
WriteRun == Files \ {"raw", "mixture"}
\* The code-only packs: four split files, the manifest and the checksums.
CodePack == {"accepted", "manifest", "checksums"}

AllKinds == {"generate", "generate_mixture", "generate_only", "reverify",
             "reverify_mixture", "code_pack"}
Writes == [generate         |-> WriteRun \cup {"raw"},
           generate_mixture |-> Files,
           generate_only    |-> GenerateOnly,
           reverify         |-> WriteRun,
           reverify_mixture |-> WriteRun \cup {"mixture"},
           code_pack        |-> CodePack]
Reverifies == {"reverify", "reverify_mixture"}
Generates == {"generate", "generate_mixture", "generate_only"}

ASSUME KindsAssumption == Kinds \subseteq AllKinds
ASSUME MaxProcsAssumption == MaxProcs \in Nat

VARIABLES
  disk,     \* disk[d][f]: 0 absent, p whole and written by process p, -p cut short
  listed,   \* listed[d][l][f]: the content of f that list l (manifest, checksums) gives, 0 none
  log,      \* the kind of every process so far: the p-th is process p
  proc,     \* the process that is running
  broken    \* broken[d]: the last command that wrote d's rows was cut off

vars == <<disk, listed, log, proc, broken>>

Lists == {"manifest", "checksums"}
Contents == -MaxProcs .. MaxProcs
Empty == [f \in Files |-> 0]
Idle == [id |-> 0, dir |-> NoDir, src |-> NoDir, done |-> {}, loaded |-> TRUE]

Init == /\ disk = [d \in Dirs |-> Empty]
        /\ listed = [d \in Dirs |-> [l \in Lists |-> Empty]]
        /\ log = <<>>
        /\ proc = Idle
        /\ broken = [d \in Dirs |-> FALSE]

Running == proc.id # 0
Kind == log[proc.id]
Remaining == Writes[Kind] \ proc.done
\* Mutated form: the checksums are taken when the rows are on disk, before
\* the reports.
NextFile_SumsFirst == IF "checksums" \in Remaining /\ "results" \notin Remaining
                        THEN "checksums"
                        ELSE CHOOSE f \in Remaining : \A g \in Remaining : Rank[f] <= Rank[g]
\* The files are written in their order.
NextFile == CHOOSE f \in Remaining : \A g \in Remaining : Rank[f] <= Rank[g]
WritesRows == Rows \subseteq Writes[Kind]

\* Mutated form: the checksums list the checksum file itself.
Excluded_SelfListed(l) == IF l = "manifest" THEN {"raw", "manifest", "checksums"} ELSE {"raw"}

(***************************************************************************)
(* The manifest's `files` and the checksums list every file under the      *)
(* directory but raw/ and themselves, the manifest leaving out the         *)
(* checksums too; a code-only pack hashes just the files it wrote and its  *)
(* manifest lists none.                                                    *)
(***************************************************************************)
Excluded(l) == IF l = "manifest" THEN {"raw", "manifest", "checksums"} ELSE {"raw", "checksums"}
Listing(l, files) == [f \in Files |-> IF f \in Excluded(l) THEN 0 ELSE files[f]]
CodeListing(l, files) == [f \in Files |-> IF l = "checksums" /\ f = "accepted" THEN files[f] ELSE 0]

\* A command is started; one that reverifies has another run to load first.
Begin(kind, d, s) ==
    /\ ~Running
    /\ Len(log) < MaxProcs
    /\ kind \in Kinds
    /\ kind \notin Reverifies => s = d
    /\ log' = Append(log, kind)
    /\ proc' = [id |-> Len(log) + 1, dir |-> d, src |-> s, done |-> {},
                loaded |-> kind \notin Reverifies]
    /\ UNCHANGED <<disk, listed, broken>>

\* load_run reads the worlds, the rejected rows and the candidates: files cut
\* short at a line's end are read like whole ones, anything else ends in Fails.
Load == /\ Running
        /\ ~proc.loaded
        /\ \A f \in Rows : disk[proc.src][f] # 0
        /\ proc' = [proc EXCEPT !.loaded = TRUE]
        /\ UNCHANGED <<disk, listed, log, broken>>

Write == /\ Running
         /\ proc.loaded
         /\ Remaining # {}
         /\ LET f == NextFile
                d == proc.dir
            IN /\ disk' = [disk EXCEPT ![d][f] = proc.id]
               /\ proc' = [proc EXCEPT !.done = @ \cup {f}]
               /\ broken' = [broken EXCEPT ![d] = @ \/ WritesRows]
               /\ listed' = IF f \notin Lists THEN listed
                            ELSE [listed EXCEPT ![d][f] =
                                    IF Kind = "code_pack" THEN CodeListing(f, disk[d])
                                                          ELSE Listing(f, disk[d])]
         /\ UNCHANGED log

\* The process dies or an exception leaves it, between two files or inside one.
Fails == /\ Running
         /\ proc' = Idle
         /\ \/ UNCHANGED <<disk, broken>>
            \/ /\ proc.loaded
               /\ Remaining # {}
               /\ disk' = [disk EXCEPT ![proc.dir][NextFile] = -proc.id]
               /\ broken' = [broken EXCEPT ![proc.dir] = @ \/ WritesRows]
         /\ UNCHANGED <<listed, log>>

Finish == /\ Running
          /\ proc.loaded
          /\ Remaining = {}
          /\ proc' = Idle
          /\ broken' = [broken EXCEPT ![proc.dir] = @ /\ ~WritesRows]
          /\ UNCHANGED <<disk, listed, log>>

\* redact --delete-raw removes raw/, redact without it rewrites its files: cut
\* off halfway either leaves some of them.
Redact(d) == /\ ~Running
             /\ disk[d]["raw"] > 0
             /\ \E left \in {0, -disk[d]["raw"]} : disk' = [disk EXCEPT ![d]["raw"] = left]
             /\ UNCHANGED <<listed, log, proc, broken>>

Next == \/ \E kind \in Kinds, d, s \in Dirs : Begin(kind, d, s)
        \/ Load
        \/ Write
        \/ Fails
        \/ Finish
        \/ \E d \in Dirs : Redact(d)

Spec == Init /\ [][Next]_vars

-----------------------------------------------------------------------------

TypeOK == /\ disk \in [Dirs -> [Files -> Contents]]
          /\ listed \in [Dirs -> [Lists -> [Files -> Contents]]]
          /\ log \in Seq(Kinds)
          /\ \/ proc = Idle
             \/ /\ proc \in [id : 1 .. MaxProcs, dir : Dirs, src : Dirs,
                             done : SUBSET Files, loaded : BOOLEAN]
                /\ proc.id = Len(log)
          /\ broken \in [Dirs -> BOOLEAN]

\* `sha256sum -c checksums.sha256` succeeds in d.
Verifies(d) == /\ disk[d]["checksums"] > 0
               /\ \A f \in Files : listed[d]["checksums"][f] \in {0, disk[d][f]}

\* The files that a complete run's checksums vouch for.
Vouched(kind) == Writes[kind] \ {"raw", "checksums", "mixture"}

(***************************************************************************)
(* A directory whose checksums verify holds one run: every file the        *)
(* command that took them writes is that command's own, whatever was in    *)
(* the directory before, whatever died in it since (write_run writes the   *)
(* manifest and the checksums last; a code-only pack too, though it lists  *)
(* less).                                                                  *)
(***************************************************************************)
VerifiedIsOneRun ==
    \A d \in Dirs : Verifies(d) =>
        LET p == disk[d]["checksums"]
        IN \A f \in Vouched(log[p]) :
              (log[p] = "code_pack" /\ f = "manifest") \/ disk[d][f] = p

\* When the checksums of a run verify, its manifest describes the same files:
\* nothing was written between file_entries and write_checksums but the manifest.
ManifestAgrees ==
    \A d \in Dirs : Verifies(d) /\ log[disk[d]["checksums"]] # "code_pack" =>
        \A f \in Files \ {"manifest"} :
            listed[d]["manifest"][f] = listed[d]["checksums"][f]

(***************************************************************************)
(* reverify pairs worlds, surfaces and rejection reasons of one            *)
(* generation: in a directory whose last command over them ended, the      *)
(* three files are one command's (load_run joins them by ids that every    *)
(* run numbers alike, so it would not notice).                             *)
(***************************************************************************)
LoadsOneGeneration ==
    [][~proc.loaded /\ proc'.loaded /\ proc' # Idle /\ ~broken[proc.src] =>
         \E p \in 1 .. Len(log) : \A f \in Rows : disk[proc.src][f] = p]_vars

\* A command that takes checksums and ends leaves a directory that verifies,
\* unless it also writes the mixture files, which come after.
FinishedVerifies ==
    [][Finish /\ "checksums" \in Writes[Kind] /\ "mixture" \notin Writes[Kind]
         => Verifies(proc.dir)]_vars

\* The raw generations beside the candidates of a finished generating command
\* are its own, as far as redaction has left them: raw_generation_path is a
\* path in the run directory and the ids repeat from run to run.
RowsHaveTheirRaw ==
    \A d \in Dirs :
        LET p == disk[d]["candidates"]
        IN ~broken[d] /\ p > 0 /\ log[p] \in Generates =>
              disk[d]["raw"] \in {0, p, -p}

\* The checksums of a command that has ended cover all the artifacts but raw/.
ChecksumsCoverArtifacts ==
    [][Finish /\ "checksums" \in Writes[Kind] /\ Kind # "code_pack" =>
         \A f \in Files \ {"raw", "checksums"} :
            listed[proc.dir]["checksums"][f] = disk[proc.dir][f]]_vars
=============================================================================
