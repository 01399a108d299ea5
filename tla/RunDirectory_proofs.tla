------------------------ MODULE RunDirectory_proofs -------------------------
(***************************************************************************)
(* The guarantees of RunDirectory for any directories, commands and number *)
(* of runs.  The inductive invariant says what the files a command has     *)
(* written so far, the lists it has taken and a finished command's rows    *)
(* have in common; that no process number is used twice makes it carry     *)
(* over to the commands that come after.                                   *)
(***************************************************************************)
EXTENDS RunDirectory, TLAPS

\* The numbers and values of the records, as facts.
LEMMA Ranks ==
    /\ Files = {"raw", "config", "worlds", "candidates", "accepted", "rejected", "results",
                "reports", "manifest", "checksums", "mixture"}
    /\ Rank["raw"] = 1 /\ Rank["config"] = 2 /\ Rank["worlds"] = 3 /\ Rank["candidates"] = 4
    /\ Rank["accepted"] = 5 /\ Rank["rejected"] = 6 /\ Rank["results"] = 7
    /\ Rank["reports"] = 8 /\ Rank["manifest"] = 9 /\ Rank["checksums"] = 10
    /\ Rank["mixture"] = 11
  BY DEF Files, Rank

LEMMA RankNat == \A f \in Files : Rank[f] \in Nat
  BY Ranks

\* A set of files that is not empty has a first one.
LEMMA FirstFile ==
  ASSUME NEW R \in SUBSET Files, R # {}
  PROVE  \E f \in R : \A g \in R : Rank[f] <= Rank[g]
<1> DEFINE Early == {"raw", "config", "worlds", "candidates", "accepted"}
           Late  == {"rejected", "results", "reports", "manifest", "checksums", "mixture"}
<1>1. ASSUME NEW S \in SUBSET Early, S # {}
      PROVE  \E f \in S : \A g \in S : Rank[f] <= Rank[g]
  <2>1. CASE "raw" \in S       BY <2>1, Ranks
  <2>2. CASE "raw" \notin S /\ "config" \in S       BY <2>2, Ranks
  <2>3. CASE "raw" \notin S /\ "config" \notin S
    <3>1. S \subseteq {"worlds", "candidates", "accepted"}  BY <2>3
    <3>2. CASE "worlds" \in S   BY <3>1, <3>2, Ranks
    <3>3. CASE "worlds" \notin S /\ "candidates" \in S   BY <3>1, <3>3, Ranks
    <3>4. CASE S = {"accepted"}   BY <3>4, Ranks
    <3> QED  BY <1>1, <3>1, <3>2, <3>3, <3>4
  <2> QED  BY <2>1, <2>2, <2>3
<1>2. ASSUME NEW S \in SUBSET Late, S # {}
      PROVE  \E f \in S : \A g \in S : Rank[f] <= Rank[g]
  <2>1. CASE "rejected" \in S   BY <2>1, Ranks
  <2>2. CASE "rejected" \notin S /\ "results" \in S   BY <2>2, Ranks
  <2>3. CASE "rejected" \notin S /\ "results" \notin S /\ "reports" \in S   BY <2>3, Ranks
  <2>4. CASE "rejected" \notin S /\ "results" \notin S /\ "reports" \notin S
    <3>1. S \subseteq {"manifest", "checksums", "mixture"}   BY <2>4
    <3>2. CASE "manifest" \in S  BY <3>1, <3>2, Ranks
    <3>3. CASE "manifest" \notin S /\ "checksums" \in S   BY <3>1, <3>3, Ranks
    <3>4. CASE S = {"mixture"}   BY <3>4, Ranks
    <3> QED  BY <1>2, <3>1, <3>2, <3>3, <3>4
  <2> QED  BY <2>1, <2>2, <2>3, <2>4
<1>3. CASE R \cap Early # {}
  <2>1. PICK f \in R \cap Early : \A g \in R \cap Early : Rank[f] <= Rank[g]
    <3> HIDE DEF Early, Late
    <3> QED  BY <1>1, <1>3
  <2>2. \A g \in R \ Early : Rank[f] <= Rank[g]
    BY Ranks
  <2> QED  BY <2>1, <2>2
<1>4. CASE R \cap Early = {}
  <2>1. R \subseteq Late  BY <1>4, Ranks
  <2> HIDE DEF Early, Late
  <2> QED  BY <1>2, <2>1
<1> QED  BY <1>3, <1>4

\* What the commands write, as far as the invariant needs it.
LEMMA WritesFacts ==
  ASSUME NEW k \in Kinds
  PROVE  /\ Writes[k] \subseteq Files
         /\ Rows \subseteq Files
         /\ Rows \subseteq Writes[k] \/ Rows \cap Writes[k] = {}
         /\ k \in Generates => "raw" \in Writes[k] /\ Rows \subseteq Writes[k]
         /\ k \notin Generates => "raw" \notin Writes[k]
         /\ Rows \subseteq Writes[k] \/ "raw" \notin Writes[k]
         /\ k # "code_pack" /\ "checksums" \in Writes[k] =>
               "manifest" \in Writes[k]
         /\ k = "code_pack" => Vouched(k) = {"accepted", "manifest"}
         /\ Vouched(k) \subseteq Writes[k]
         /\ \A f \in Vouched(k) : Rank[f] < 10 /\ f \notin {"raw", "checksums", "mixture"}
<1>1. k \in AllKinds  BY KindsAssumption
<1>2. /\ Writes["generate"] = WriteRun \cup {"raw"} /\ Writes["generate_mixture"] = Files
      /\ Writes["generate_only"] = GenerateOnly /\ Writes["reverify"] = WriteRun
      /\ Writes["reverify_mixture"] = WriteRun \cup {"mixture"}
      /\ Writes["code_pack"] = CodePack
  BY DEF Writes
<1>3. Writes[k] \subseteq Files
  BY <1>1, <1>2, Ranks DEF AllKinds, WriteRun, GenerateOnly, CodePack, Rows
<1>4. Rows \subseteq Files  BY Ranks DEF Rows
<1>5. Rows \subseteq Writes[k] \/ Rows \cap Writes[k] = {}
  BY <1>1, <1>2, Ranks DEF AllKinds, WriteRun, GenerateOnly, CodePack, Rows
<1>6. /\ k \in Generates => "raw" \in Writes[k] /\ Rows \subseteq Writes[k]
      /\ k \notin Generates => "raw" \notin Writes[k]
      /\ Rows \subseteq Writes[k] \/ "raw" \notin Writes[k]
  BY <1>1, <1>2, Ranks DEF AllKinds, WriteRun, GenerateOnly, CodePack, Rows, Generates
<1>7. k # "code_pack" /\ "checksums" \in Writes[k] => "manifest" \in Writes[k]
  BY <1>1, <1>2, Ranks DEF AllKinds, WriteRun, GenerateOnly, CodePack, Rows
<1>8. k = "code_pack" => Vouched(k) = {"accepted", "manifest"}
  BY <1>2 DEF Vouched, CodePack
<1>9. \A f \in Vouched(k) : Rank[f] < 10 /\ f \notin {"raw", "checksums", "mixture"}
  BY <1>3, Ranks DEF Vouched
<1> QED  BY <1>3, <1>4, <1>5, <1>6, <1>7, <1>8, <1>9 DEF Vouched

LEMMA NextFileFacts ==
  ASSUME TypeOK, Running, Remaining # {}
  PROVE  /\ Kind \in Kinds
         /\ NextFile \in Remaining /\ NextFile \in Files
         /\ \A g \in Remaining : Rank[NextFile] <= Rank[g]
<1>1. Kind \in Kinds  BY DEF TypeOK, Running, Kind, Idle
<1>2. Remaining \subseteq Files  BY <1>1, WritesFacts DEF Remaining
<1> HIDE DEF Remaining
<1>3. \E f \in Remaining : \A g \in Remaining : Rank[f] <= Rank[g]  BY <1>2, FirstFile
<1> QED  BY <1>1, <1>2, <1>3 DEF NextFile

-----------------------------------------------------------------------------
\* The running command's files are its own, written in their order.
Progress == Running =>
    /\ proc.done \subseteq Writes[Kind]
    /\ \A f \in proc.done : disk[proc.dir][f] = proc.id
    /\ \A f \in Files \ proc.done : disk[proc.dir][f] < proc.id
    /\ \A f \in proc.done, g \in Writes[Kind] : Rank[g] < Rank[f] => g \in proc.done

\* Every file is of a process that has started.
Known == \A d \in Dirs, f \in Files : disk[d][f] \in -Len(log) .. Len(log)

\* Whole checksums list the files of the command that took them as its own.
SumsVouch ==
    \A d \in Dirs : disk[d]["checksums"] > 0 =>
        /\ "checksums" \in Writes[log[disk[d]["checksums"]]]
        /\ \A f \in Vouched(log[disk[d]["checksums"]]) :
            \/ log[disk[d]["checksums"]] = "code_pack" /\ f = "manifest"
            \/ listed[d]["checksums"][f] = disk[d]["checksums"]

\* A manifest whose checksums are not taken yet describes the directory.
ManifestFresh ==
    Running /\ Kind # "code_pack" /\ "manifest" \in proc.done /\ "checksums" \notin proc.done =>
        listed[proc.dir]["manifest"] = Listing("manifest", disk[proc.dir])

\* A manifest and checksums of one command describe the same files.
ManifestSeen ==
    \A d \in Dirs :
        /\ disk[d]["checksums"] > 0
        /\ log[disk[d]["checksums"]] # "code_pack"
        /\ disk[d]["manifest"] = disk[d]["checksums"]
        => \A f \in Files \ {"manifest"} :
              listed[d]["manifest"][f] = listed[d]["checksums"][f]

\* Rows that no command was cut off in are one command's.
OneGeneration ==
    \A d \in Dirs : ~broken[d] =>
        \E p \in 0 .. Len(log) : \A f \in Rows : disk[d][f] = p

\* Checksums just taken verify until the mixture is written.
SumsFresh ==
    Running /\ "checksums" \in proc.done /\ "mixture" \notin Writes[Kind]
        => Verifies(proc.dir)

IInv == /\ TypeOK /\ Progress /\ Known /\ SumsVouch /\ ManifestFresh /\ ManifestSeen
        /\ OneGeneration /\ RowsHaveTheirRaw /\ SumsFresh

LEMMA InitInv == Init => IInv
<1> SUFFICES ASSUME Init PROVE IInv  OBVIOUS
<1> USE MaxProcsAssumption
<1>1. /\ ~Running /\ log = <<>> /\ Len(log) = 0
      /\ \A d \in Dirs, f \in Files : disk[d][f] = 0
      /\ "checksums" \in Files /\ Rows \subseteq Files /\ "candidates" \in Files
  BY Ranks DEF Init, Running, Idle, Empty, Rows
<1>2. TypeOK  BY DEF Init, TypeOK, Empty, Contents
<1>3. Known  BY <1>1 DEF Known
<1>4. SumsVouch /\ ManifestSeen /\ RowsHaveTheirRaw
  BY <1>1 DEF SumsVouch, ManifestSeen, RowsHaveTheirRaw
<1>5. OneGeneration
  <2>1. 0 \in 0 .. Len(log) /\ \A d \in Dirs, f \in Rows : disk[d][f] = 0  BY <1>1
  <2> QED  BY <2>1 DEF OneGeneration
<1> QED  BY <1>1, <1>2, <1>3, <1>4, <1>5 DEF IInv, Progress, ManifestFresh, SumsFresh

\* What the kinds of the processes so far were stays so.
LEMMA BeginInv ==
  ASSUME IInv, NEW kind \in Kinds, NEW d \in Dirs, NEW s \in Dirs, Begin(kind, d, s)
  PROVE  IInv'
<1> USE MaxProcsAssumption DEF IInv
<1>1. /\ disk' = disk /\ listed' = listed /\ broken' = broken
      /\ log' = Append(log, kind) /\ log \in Seq(Kinds)
      /\ Len(log) \in Nat /\ Len(log') = Len(log) + 1 /\ Len(log) < MaxProcs
      /\ \A p \in 1 .. Len(log) : log'[p] = log[p]
  BY DEF Begin, TypeOK
<1>2. /\ proc' = [id |-> Len(log) + 1, dir |-> d, src |-> s, done |-> {},
                  loaded |-> kind \notin Reverifies]
      /\ (kind \notin Reverifies) \in BOOLEAN
  BY DEF Begin
<1>3. log' \in Seq(Kinds)  BY <1>1
<1>4. TypeOK'  BY <1>1, <1>2, <1>3 DEF TypeOK
<1>5. proc'.done = {} /\ Progress' /\ ManifestFresh' /\ SumsFresh'
  <2>1. \A f \in Files : disk[d][f] < Len(log) + 1  BY <1>1 DEF Known
  <2> QED  BY <1>1, <1>2, <2>1 DEF Progress, ManifestFresh, SumsFresh
<1>6. Known'  BY <1>1 DEF Known
<1>7. \A e \in Dirs, f \in Files : disk[e][f] > 0 => disk[e][f] \in 1 .. Len(log)
  BY <1>1 DEF Known, TypeOK, Contents
<1>8. \A e \in Dirs, f \in Files : disk'[e][f] > 0 => log'[disk'[e][f]] = log[disk[e][f]]
  BY <1>1, <1>7
<1>9. SumsVouch' /\ ManifestSeen' /\ RowsHaveTheirRaw'
  <2>1. "checksums" \in Files /\ "candidates" \in Files  BY Ranks
  <2>2. SumsVouch'
    <3>2. \A e \in Dirs : disk[e]["checksums"] > 0 =>
             "checksums" \in Writes[log'[disk[e]["checksums"]]]
      BY <1>1, <1>8, <2>1 DEF SumsVouch
    <3> SUFFICES ASSUME NEW e \in Dirs, disk[e]["checksums"] > 0,
                        NEW f \in Vouched(log'[disk[e]["checksums"]])
                 PROVE  \/ log'[disk[e]["checksums"]] = "code_pack" /\ f = "manifest"
                        \/ listed[e]["checksums"][f] = disk[e]["checksums"]
      BY <1>1, <3>2 DEF SumsVouch
    <3>1. log'[disk[e]["checksums"]] = log[disk[e]["checksums"]]  BY <1>1, <1>8, <2>1
    <3> QED  BY <3>1 DEF SumsVouch
  <2>3. ManifestSeen'  BY <1>1, <1>8, <2>1 DEF ManifestSeen
  <2>4. RowsHaveTheirRaw'
    <3> SUFFICES ASSUME NEW e \in Dirs, ~broken[e], disk[e]["candidates"] > 0,
                        log'[disk[e]["candidates"]] \in Generates
                 PROVE  disk[e]["raw"] \in {0, disk[e]["candidates"], -disk[e]["candidates"]}
      BY <1>1 DEF RowsHaveTheirRaw
    <3>1. log'[disk[e]["candidates"]] = log[disk[e]["candidates"]]  BY <1>1, <1>8, <2>1
    <3> QED  BY <3>1 DEF RowsHaveTheirRaw
  <2> QED  BY <2>2, <2>3, <2>4
<1>10. OneGeneration'
  <2> SUFFICES ASSUME NEW e \in Dirs, ~broken[e]
               PROVE  \E p \in 0 .. Len(log) + 1 : \A f \in Rows : disk[e][f] = p
    BY <1>1 DEF OneGeneration
  <2>1. PICK p \in 0 .. Len(log) : \A f \in Rows : disk[e][f] = p  BY DEF OneGeneration
  <2>2. p \in 0 .. Len(log) + 1  BY <1>1
  <2> QED  BY <2>1, <2>2
<1> QED  BY <1>4, <1>5, <1>6, <1>9, <1>10

LEMMA LoadInv == IInv /\ Load => IInv'
<1> SUFFICES ASSUME IInv, Load PROVE IInv'  OBVIOUS
<1> USE DEF IInv
<1>1. /\ UNCHANGED <<disk, listed, log, broken>>
      /\ proc' = [proc EXCEPT !.loaded = TRUE] /\ Running
  BY DEF Load
<1>2. proc \in [id : 1 .. MaxProcs, dir : Dirs, src : Dirs, done : SUBSET Files, loaded : BOOLEAN]
      /\ proc.id = Len(log)
  BY <1>1 DEF TypeOK, Running, Idle
<1>3. proc'.id = proc.id /\ proc'.dir = proc.dir /\ proc'.done = proc.done  BY <1>1, <1>2
<1>4. TypeOK'  BY <1>1, <1>2, <1>3 DEF TypeOK
<1>5. Running' /\ Kind' = Kind  BY <1>1, <1>3 DEF Running, Kind
<1>6. Progress' /\ ManifestFresh' /\ SumsFresh'
  BY <1>1, <1>3, <1>5 DEF Progress, ManifestFresh, SumsFresh, Verifies
<1>7. Known' /\ SumsVouch' /\ ManifestSeen' /\ OneGeneration' /\ RowsHaveTheirRaw'
  BY <1>1 DEF Known, SumsVouch, ManifestSeen, OneGeneration, RowsHaveTheirRaw
<1> QED  BY <1>4, <1>6, <1>7

\* A file written by the running command: what it lists is what is there.
LEMMA WriteInv == IInv /\ Write => IInv'
<1> SUFFICES ASSUME IInv, Write PROVE IInv'  OBVIOUS
<1> USE MaxProcsAssumption DEF IInv
<1> DEFINE d == proc.dir
           f == NextFile
           p == proc.id
<1>1. /\ Running /\ proc.loaded /\ Remaining # {} /\ log' = log
      /\ disk' = [disk EXCEPT ![d][f] = p]
      /\ proc' = [proc EXCEPT !.done = @ \cup {f}]
      /\ broken' = [broken EXCEPT ![d] = @ \/ WritesRows]
      /\ listed' = IF f \notin Lists THEN listed
                   ELSE [listed EXCEPT ![d][f] = IF Kind = "code_pack" THEN CodeListing(f, disk[d])
                                                                       ELSE Listing(f, disk[d])]
  BY DEF Write
<1>2. /\ proc \in [id : 1 .. MaxProcs, dir : Dirs, src : Dirs, done : SUBSET Files, loaded : BOOLEAN]
      /\ p = Len(log) /\ p \in 1 .. Len(log) /\ d \in Dirs
  BY <1>1 DEF TypeOK, Running, Idle
<1>3. /\ Kind \in Kinds /\ f \in Remaining /\ f \in Files /\ f \in Writes[Kind] /\ f \notin proc.done
      /\ \A g \in Remaining : Rank[f] <= Rank[g]
  BY <1>1, NextFileFacts DEF Remaining
<1>4. \A g \in Writes[Kind] : Rank[g] < Rank[f] => g \in proc.done
  BY <1>3, WritesFacts, RankNat DEF Remaining
<1> HIDE DEF f
<1>5. /\ proc'.id = p /\ proc'.dir = d /\ proc'.src = proc.src /\ proc'.done = proc.done \cup {f}
      /\ proc'.loaded = proc.loaded /\ Running' /\ Kind' = Kind /\ p \in Contents
      /\ proc' \in [id : 1 .. MaxProcs, dir : Dirs, src : Dirs, done : SUBSET Files, loaded : BOOLEAN]
  <2>1. /\ proc'.id = p /\ proc'.dir = d /\ proc'.src = proc.src /\ proc'.done = proc.done \cup {f}
        /\ proc'.loaded = proc.loaded
    BY <1>1, <1>2
  <2>2. Running' /\ Kind' = Kind  BY <1>1, <2>1 DEF Running, Kind
  <2>3. p \in Contents  BY <1>2 DEF Contents
  <2>4. proc' \in [id : 1 .. MaxProcs, dir : Dirs, src : Dirs, done : SUBSET Files, loaded : BOOLEAN]
    BY <1>1, <1>2, <1>3
  <2> QED  BY <2>1, <2>2, <2>3, <2>4
<1>6. /\ disk \in [Dirs -> [Files -> Contents]]
      /\ disk'[d][f] = p
      /\ \A g \in Files : g # f => disk'[d][g] = disk[d][g]
      /\ \A e \in Dirs : e # d => disk'[e] = disk[e]
      /\ disk' \in [Dirs -> [Files -> Contents]]
  BY <1>1, <1>2, <1>3, <1>5 DEF TypeOK
<1>7. /\ listed \in [Dirs -> [Lists -> [Files -> Contents]]]
      /\ \A e \in Dirs, l \in Lists : ~(e = d /\ l = f) => listed'[e][l] = listed[e][l]
      /\ f \in Lists => listed'[d][f] = IF Kind = "code_pack" THEN CodeListing(f, disk[d])
                                                             ELSE Listing(f, disk[d])
  BY <1>1, <1>2 DEF TypeOK
<1>8. TypeOK'
  <2>1. /\ CodeListing(f, disk[d]) \in [Files -> Contents]
        /\ Listing(f, disk[d]) \in [Files -> Contents]
    BY <1>2, <1>6 DEF CodeListing, Listing, Contents
  <2>2. listed' \in [Dirs -> [Lists -> [Files -> Contents]]]
    <3>1. CASE f \notin Lists  BY <1>1, <1>7, <3>1
    <3>2. CASE f \in Lists
      <4> DEFINE new == IF Kind = "code_pack" THEN CodeListing(f, disk[d]) ELSE Listing(f, disk[d])
      <4>1. new \in [Files -> Contents]  BY <2>1
      <4>2. listed' = [listed EXCEPT ![d][f] = new]  BY <1>1, <3>2
      <4> HIDE DEF new, d
      <4> QED  BY <1>2, <1>7, <4>1, <4>2, <3>2
    <3> QED  BY <3>1, <3>2
  <2>3. WritesRows \in BOOLEAN  BY DEF WritesRows
  <2>4. broken' \in [Dirs -> BOOLEAN]
    <3>1. broken \in [Dirs -> BOOLEAN]  BY DEF TypeOK
    <3> QED  BY <1>1, <1>2, <2>3, <3>1
  <2> QED  BY <1>1, <1>2, <1>5, <1>6, <2>2, <2>4 DEF TypeOK
<1>9. Progress'
  <2>1. /\ proc.done \subseteq Writes[Kind] /\ \A g \in proc.done : disk[d][g] = p
        /\ \A g \in proc.done, h \in Writes[Kind] : Rank[h] < Rank[g] => h \in proc.done
        /\ \A g \in Files \ proc.done : disk[d][g] < p
    BY <1>1 DEF Progress
  <2>2. proc.done \subseteq Files  BY <1>2
  <2>5. \A g \in Files \ proc'.done : disk'[d][g] < p  BY <1>3, <1>5, <1>6, <2>1
  <2>3. \A g \in proc'.done : disk'[d][g] = p  BY <1>3, <1>5, <1>6, <2>1, <2>2
  <2>4. \A g \in proc'.done, h \in Writes[Kind] : Rank[h] < Rank[g] => h \in proc'.done
    BY <1>4, <1>5, <2>1
  <2> QED  BY <1>3, <1>5, <2>1, <2>3, <2>4, <2>5 DEF Progress
<1>10. Known'
  BY <1>1, <1>2, <1>3, <1>6 DEF Known
\* When the checksums are taken, all they vouch for has been written.
<1>11. ASSUME f = "checksums"
       PROVE  /\ \A g \in Vouched(Kind) : disk[d][g] = p /\ g \in proc.done
              /\ \A g \in Vouched(Kind) : (Kind = "code_pack" /\ g = "manifest")
                                             \/ listed'[d]["checksums"][g] = p
  <2>1. \A g \in Vouched(Kind) : g \in proc.done
    BY <1>3, <1>4, <1>11, Ranks, WritesFacts
  <2>2. \A g \in Vouched(Kind) : disk[d][g] = p  BY <1>1, <2>1 DEF Progress
  <2>3. ASSUME NEW g \in Vouched(Kind), ~(Kind = "code_pack" /\ g = "manifest")
        PROVE  listed'[d]["checksums"][g] = p
    <3>1. g \in Files /\ g \notin {"raw", "checksums"}  BY <1>3, WritesFacts
    <3>2. Kind = "code_pack" => g = "accepted"  BY <1>3, <2>3, WritesFacts
    <3>3. listed'[d]["checksums"] = IF Kind = "code_pack" THEN CodeListing("checksums", disk[d])
                                                         ELSE Listing("checksums", disk[d])
      BY <1>7, <1>11 DEF Lists
    <3>4. disk[d][g] = p  BY <2>2
    <3>5. CodeListing("checksums", disk[d])["accepted"] = disk[d]["accepted"]
      BY Ranks DEF CodeListing
    <3>6. Listing("checksums", disk[d])[g] = disk[d][g]  BY <3>1 DEF Listing, Excluded
    <3> QED  BY <3>2, <3>3, <3>4, <3>5, <3>6
  <2> QED  BY <2>1, <2>2, <2>3
<1>12. log[p] = Kind  BY DEF Kind
<1>13. SumsVouch'
  <2>3. \A e \in Dirs : disk'[e]["checksums"] > 0 =>
           "checksums" \in Writes[log[disk'[e]["checksums"]]]
    <3> SUFFICES ASSUME NEW e \in Dirs, disk'[e]["checksums"] > 0
                 PROVE  "checksums" \in Writes[log[disk'[e]["checksums"]]]
      OBVIOUS
    <3>1. CASE e = d /\ f = "checksums"  BY <1>3, <1>6, <1>12, <3>1
    <3>2. CASE ~(e = d /\ f = "checksums")
      <4>1. disk'[e]["checksums"] = disk[e]["checksums"]  BY <1>6, <3>2, Ranks
      <4> QED  BY <4>1 DEF SumsVouch
    <3> QED  BY <3>1, <3>2
  <2> SUFFICES ASSUME NEW e \in Dirs, disk'[e]["checksums"] > 0,
                      NEW g \in Vouched(log[disk'[e]["checksums"]])
               PROVE  \/ log[disk'[e]["checksums"]] = "code_pack" /\ g = "manifest"
                      \/ listed'[e]["checksums"][g] = disk'[e]["checksums"]
    BY <1>1, <2>3 DEF SumsVouch
  <2>1. CASE e = d /\ f = "checksums"  BY <1>6, <1>11, <1>12, <2>1
  <2>2. CASE ~(e = d /\ f = "checksums")
    <3>1. disk'[e]["checksums"] = disk[e]["checksums"]  BY <1>6, <2>2, Ranks
    <3>2. listed'[e]["checksums"] = listed[e]["checksums"]  BY <1>7, <2>2 DEF Lists
    <3> QED  BY <3>1, <3>2 DEF SumsVouch
  <2> QED  BY <2>1, <2>2
<1>14. ManifestFresh'
  <2> SUFFICES ASSUME Kind # "code_pack", "manifest" \in proc.done \cup {f},
                      "checksums" \notin proc.done \cup {f}
               PROVE  listed'[d]["manifest"] = Listing("manifest", disk'[d])
    BY <1>5 DEF ManifestFresh
  <2>1. f = "manifest"
    <3> SUFFICES ASSUME f # "manifest" PROVE FALSE  OBVIOUS
    <3>1. "manifest" \in proc.done  OBVIOUS
    <3>2. ~(Rank[f] < Rank["manifest"])  BY <1>1, <1>3, <3>1 DEF Progress
    <3>3. f = "mixture"  BY <1>3, <3>2, Ranks
    <3>4. "checksums" \in Writes[Kind]
      BY <1>3, <3>3, KindsAssumption, Ranks
         DEF AllKinds, Writes, WriteRun, GenerateOnly, CodePack, Rows
    <3> QED  BY <1>4, <3>3, <3>4, Ranks
  <2>2. listed'[d]["manifest"] = Listing("manifest", disk[d])  BY <1>7, <2>1 DEF Lists
  <2>3. \A g \in Files \ Excluded("manifest") : disk'[d][g] = disk[d][g]
    BY <1>6, <2>1 DEF Excluded
  <2> QED  BY <2>2, <2>3 DEF Listing
<1>15. ManifestSeen'
  <2> SUFFICES ASSUME NEW e \in Dirs, disk'[e]["checksums"] > 0,
                      log[disk'[e]["checksums"]] # "code_pack",
                      disk'[e]["manifest"] = disk'[e]["checksums"],
                      NEW g \in Files \ {"manifest"}
               PROVE  listed'[e]["manifest"][g] = listed'[e]["checksums"][g]
    BY <1>1 DEF ManifestSeen
  <2>1. CASE e = d /\ f = "checksums"
    <3>1. Kind # "code_pack"  BY <1>6, <1>12, <2>1
    <3>2. "manifest" \in proc.done  BY <1>3, <1>4, <2>1, <3>1, WritesFacts, Ranks
    <3>3. "checksums" \notin proc.done  BY <1>3, <2>1
    <3>4. listed[d]["manifest"] = Listing("manifest", disk[d])
      BY <1>1, <3>1, <3>2, <3>3 DEF ManifestFresh
    <3>5. listed'[d]["manifest"] = listed[d]["manifest"]  BY <1>2, <1>7, <2>1 DEF Lists
    <3>6. listed'[d]["checksums"] = Listing("checksums", disk[d])  BY <1>7, <2>1, <3>1 DEF Lists
    <3> QED  BY <2>1, <3>4, <3>5, <3>6 DEF Listing, Excluded
  <2>2. CASE e = d /\ f = "manifest"
    <3>1. disk[d]["checksums"] = p  BY <1>6, <2>2, Ranks
    <3>2. "checksums" \in proc.done  BY <1>1, <1>2, <3>1, Ranks DEF Progress
    <3> QED  BY <1>1, <1>3, <2>2, <3>2, Ranks DEF Progress
  <2>3. CASE ~(e = d /\ f \in Lists)
    <3>1. /\ disk'[e]["checksums"] = disk[e]["checksums"]
          /\ disk'[e]["manifest"] = disk[e]["manifest"]
      BY <1>6, <2>3, Ranks DEF Lists
    <3>2. listed'[e] = listed[e]  BY <1>1, <1>2, <2>3 DEF TypeOK
    <3> QED  BY <3>1, <3>2 DEF ManifestSeen
  <2> QED  BY <2>1, <2>2, <2>3 DEF Lists
<1>16. OneGeneration' /\ RowsHaveTheirRaw'
  <2>1. \A e \in Dirs : ~broken'[e] => ~broken[e] /\ (e = d => ~WritesRows)
    BY <1>1 DEF TypeOK
  <2>2. ~WritesRows => f \notin Rows /\ f # "raw"
    BY <1>3, WritesFacts DEF WritesRows
  <2>3. \A e \in Dirs : ~broken'[e] =>
           \A g \in Rows \cup {"raw"} : disk'[e][g] = disk[e][g]
    BY <1>3, <1>6, <2>1, <2>2, WritesFacts, Ranks
  <2>4. OneGeneration'
    <3> SUFFICES ASSUME NEW e \in Dirs, ~broken'[e]
                 PROVE  \E q \in 0 .. Len(log) : \A g \in Rows : disk'[e][g] = q
      BY <1>1 DEF OneGeneration
    <3>1. PICK q \in 0 .. Len(log) : \A g \in Rows : disk[e][g] = q
      BY <2>1 DEF OneGeneration
    <3> QED  BY <2>3, <3>1
  <2>5. RowsHaveTheirRaw'
    BY <1>1, <2>1, <2>3 DEF RowsHaveTheirRaw, Rows
  <2> QED  BY <2>4, <2>5
<1>17. SumsFresh'
  <2> SUFFICES ASSUME "checksums" \in proc.done \cup {f}, "mixture" \notin Writes[Kind]
               PROVE  Verifies(d)'
    BY <1>5 DEF SumsFresh
  <2>1. f = "checksums"
    <3> SUFFICES ASSUME f # "checksums" PROVE FALSE  OBVIOUS
    <3>1. ~(Rank[f] < Rank["checksums"])  BY <1>1, <1>3 DEF Progress
    <3> QED  BY <1>3, <3>1, Ranks
  <2>2. disk'[d]["checksums"] > 0  BY <1>2, <1>6, <2>1
  <2>3. \A g \in Files : listed'[d]["checksums"][g] \in {0, disk'[d][g]}
    <3>1. listed'[d]["checksums"] = IF Kind = "code_pack" THEN CodeListing("checksums", disk[d])
                                                         ELSE Listing("checksums", disk[d])
      BY <1>7, <2>1 DEF Lists
    <3>2. \A g \in Files : /\ CodeListing("checksums", disk[d])[g] \in {0, disk'[d][g]}
                           /\ Listing("checksums", disk[d])[g] \in {0, disk'[d][g]}
      BY <1>6, <2>1 DEF CodeListing, Listing, Excluded
    <3> QED  BY <3>1, <3>2
  <2> QED  BY <1>5, <2>2, <2>3 DEF Verifies
<1> QED  BY <1>8, <1>9, <1>10, <1>13, <1>14, <1>15, <1>16, <1>17

LEMMA IdleInv ==
  ASSUME IInv, proc' = Idle, log' = log, Known', SumsVouch', ManifestSeen', OneGeneration',
         RowsHaveTheirRaw', TypeOK'
  PROVE  IInv'
<1>1. ~Running'  BY DEF Running, Idle
<1> QED  BY <1>1 DEF IInv, Progress, ManifestFresh, SumsFresh

LEMMA FinishInv == IInv /\ Finish => IInv'
<1> SUFFICES ASSUME IInv, Finish PROVE IInv'  OBVIOUS
<1> USE MaxProcsAssumption DEF IInv
<1> DEFINE d == proc.dir
           p == proc.id
<1>1. /\ Running /\ Remaining = {} /\ UNCHANGED <<disk, listed, log>> /\ proc' = Idle
      /\ broken' = [broken EXCEPT ![d] = @ /\ ~WritesRows]
  BY DEF Finish
<1>2. /\ proc \in [id : 1 .. MaxProcs, dir : Dirs, src : Dirs, done : SUBSET Files, loaded : BOOLEAN]
      /\ p = Len(log) /\ p \in 1 .. Len(log) /\ d \in Dirs /\ Kind \in Kinds
  BY <1>1 DEF TypeOK, Running, Idle, Kind
<1>3. TypeOK'
  <2>1. broken' \in [Dirs -> BOOLEAN]
    <3>1. broken \in [Dirs -> BOOLEAN] /\ WritesRows \in BOOLEAN  BY DEF TypeOK, WritesRows
    <3> QED  BY <1>1, <1>2, <3>1
  <2> QED  BY <1>1, <2>1 DEF TypeOK
<1>4. Known' /\ SumsVouch' /\ ManifestSeen'  BY <1>1 DEF Known, SumsVouch, ManifestSeen
<1>5. Writes[Kind] = proc.done /\ \A g \in proc.done : disk[d][g] = p
  BY <1>1 DEF Remaining, Progress
<1>6. \A e \in Dirs : ~broken'[e] => ~broken[e] \/ (e = d /\ WritesRows)
  BY <1>1 DEF TypeOK
<1>7. OneGeneration'
  <2> SUFFICES ASSUME NEW e \in Dirs, ~broken'[e]
               PROVE  \E q \in 0 .. Len(log) : \A g \in Rows : disk[e][g] = q
    BY <1>1 DEF OneGeneration
  <2>1. CASE ~broken[e]  BY <2>1 DEF OneGeneration
  <2>2. CASE e = d /\ WritesRows
    <3>1. p \in 0 .. Len(log) /\ \A g \in Rows : disk[d][g] = p  BY <1>2, <1>5, <2>2 DEF WritesRows
    <3> QED  BY <2>2, <3>1
  <2> QED  BY <1>6, <2>1, <2>2
<1>8. RowsHaveTheirRaw'
  <2> SUFFICES ASSUME NEW e \in Dirs, ~broken'[e], disk[e]["candidates"] > 0,
                      log[disk[e]["candidates"]] \in Generates
               PROVE  disk[e]["raw"] \in {0, disk[e]["candidates"], -disk[e]["candidates"]}
    BY <1>1 DEF RowsHaveTheirRaw
  <2>1. CASE ~broken[e]  BY <2>1 DEF RowsHaveTheirRaw
  <2>2. CASE e = d /\ WritesRows
    <3>1. disk[d]["candidates"] = p  BY <1>5, <2>2 DEF WritesRows, Rows
    <3>2. Kind \in Generates  BY <2>2, <3>1 DEF Kind
    <3>3. disk[d]["raw"] = p  BY <1>2, <1>5, <3>2, WritesFacts
    <3> QED  BY <2>2, <3>1, <3>3
  <2> QED  BY <1>6, <2>1, <2>2
<1> QED  BY <1>1, <1>3, <1>4, <1>7, <1>8, IdleInv

\* A command that dies leaves at most the file it was writing cut short.
LEMMA FailsInv == IInv /\ Fails => IInv'
<1> SUFFICES ASSUME IInv, Fails PROVE IInv'  OBVIOUS
<1> USE MaxProcsAssumption DEF IInv
<1>1. CASE UNCHANGED <<disk, broken>>
  <2>1. UNCHANGED <<disk, broken, listed, log>> /\ proc' = Idle  BY <1>1 DEF Fails
  <2>2. TypeOK' /\ Known' /\ SumsVouch' /\ ManifestSeen' /\ OneGeneration' /\ RowsHaveTheirRaw'
    BY <2>1 DEF TypeOK, Known, SumsVouch, ManifestSeen, OneGeneration, RowsHaveTheirRaw
  <2> QED  BY <2>1, <2>2, IdleInv
<1>2. CASE ~UNCHANGED <<disk, broken>>
  <2> DEFINE d == proc.dir
             f == NextFile
             p == proc.id
  <2>1. /\ Running /\ Remaining # {} /\ UNCHANGED <<listed, log>> /\ proc' = Idle
        /\ disk' = [disk EXCEPT ![d][f] = -p]
        /\ broken' = [broken EXCEPT ![d] = @ \/ WritesRows]
    BY <1>2 DEF Fails
  <2>2. /\ p = Len(log) /\ p \in 1 .. Len(log) /\ d \in Dirs /\ -p \in Contents
    BY <2>1 DEF TypeOK, Running, Idle, Contents
  <2>3. Kind \in Kinds /\ f \in Files /\ f \in Writes[Kind]
    BY <2>1, NextFileFacts DEF Remaining
  <2> HIDE DEF f
  <2>4. /\ disk'[d][f] = -p
        /\ \A g \in Files : g # f => disk'[d][g] = disk[d][g]
        /\ \A e \in Dirs : e # d => disk'[e] = disk[e]
        /\ disk' \in [Dirs -> [Files -> Contents]]
    BY <2>1, <2>2, <2>3 DEF TypeOK
  <2>5. TypeOK'
    <3>1. broken \in [Dirs -> BOOLEAN] /\ WritesRows \in BOOLEAN  BY DEF TypeOK, WritesRows
    <3>2. broken' \in [Dirs -> BOOLEAN]  BY <2>1, <2>2, <3>1
    <3> QED  BY <2>1, <2>4, <3>2 DEF TypeOK
  <2>6. Known'  BY <2>1, <2>2, <2>4 DEF Known
  <2>7. \A e \in Dirs, g \in Files : disk'[e][g] > 0 => disk'[e][g] = disk[e][g]
    BY <2>2, <2>4
  <2>8. SumsVouch'
    BY <2>1, <2>7, Ranks DEF SumsVouch
  <2>9. ManifestSeen'
    BY <2>1, <2>7, Ranks DEF ManifestSeen
  <2>10. \A e \in Dirs : ~broken'[e] => ~broken[e] /\ (e = d => ~WritesRows)
    BY <2>1 DEF TypeOK
  <2>11. ~WritesRows => f \notin Rows /\ f # "raw"
    BY <2>3, WritesFacts DEF WritesRows
  <2>12. \A e \in Dirs : ~broken'[e] =>
            \A g \in Rows \cup {"raw"} : disk'[e][g] = disk[e][g]
    BY <2>3, <2>4, <2>10, <2>11, WritesFacts, Ranks
  <2>13. OneGeneration'
    <3> SUFFICES ASSUME NEW e \in Dirs, ~broken'[e]
                 PROVE  \E q \in 0 .. Len(log) : \A g \in Rows : disk'[e][g] = q
      BY <2>1 DEF OneGeneration
    <3>1. PICK q \in 0 .. Len(log) : \A g \in Rows : disk[e][g] = q
      BY <2>10 DEF OneGeneration
    <3> QED  BY <2>12, <3>1
  <2>14. RowsHaveTheirRaw'
    BY <2>1, <2>10, <2>12 DEF RowsHaveTheirRaw, Rows
  <2> QED  BY <2>1, <2>5, <2>6, <2>8, <2>9, <2>13, <2>14, IdleInv
<1> QED  BY <1>1, <1>2

LEMMA RedactInv == ASSUME IInv, NEW d \in Dirs, Redact(d) PROVE IInv'
<1> USE MaxProcsAssumption DEF IInv
<1>1. /\ ~Running /\ UNCHANGED <<listed, log, proc, broken>>
      /\ disk[d]["raw"] > 0
  BY DEF Redact
<1>2. PICK left \in {0, -disk[d]["raw"]} : disk' = [disk EXCEPT ![d]["raw"] = left]
  BY DEF Redact
<1>3. /\ disk \in [Dirs -> [Files -> Contents]] /\ "raw" \in Files
      /\ left \in Contents /\ left \in -Len(log) .. Len(log) /\ Len(log) \in Nat
      /\ Contents \subseteq Int
  <2>1. disk \in [Dirs -> [Files -> Contents]] /\ log \in Seq(Kinds)  BY DEF TypeOK
  <2>2. "raw" \in Files  BY Ranks
  <2>3. disk[d]["raw"] \in Contents /\ disk[d]["raw"] \in -Len(log) .. Len(log)
    BY <2>1, <2>2 DEF Known
  <2>4. Len(log) \in Nat  BY <2>1
  <2>5. left = 0 \/ left = -disk[d]["raw"]  OBVIOUS
  <2>6. Contents \subseteq Int  BY DEF Contents
  <2>7. left \in Contents
    BY <2>3, <2>5 DEF Contents
  <2>8. left \in -Len(log) .. Len(log)  BY <2>3, <2>4, <2>5
  <2> QED  BY <2>1, <2>2, <2>4, <2>6, <2>7, <2>8
<1>4. /\ disk'[d]["raw"] = left
      /\ \A e \in Dirs, g \in Files : ~(e = d /\ g = "raw") => disk'[e][g] = disk[e][g]
      /\ disk' \in [Dirs -> [Files -> Contents]]
  BY <1>2, <1>3
<1>5. TypeOK'  BY <1>1, <1>4 DEF TypeOK
<1>6. Known'  BY <1>1, <1>3, <1>4 DEF Known
<1>7. ~Running'  BY <1>1 DEF Running
<1>8. "raw" \notin Rows /\ Rows \subseteq Files  BY Ranks DEF Rows
<1>9. SumsVouch' /\ ManifestSeen'  BY <1>1, <1>4, Ranks DEF SumsVouch, ManifestSeen
<1>10. OneGeneration'
  <2> SUFFICES ASSUME NEW e \in Dirs, ~broken[e]
               PROVE  \E q \in 0 .. Len(log) : \A g \in Rows : disk'[e][g] = q
    BY <1>1 DEF OneGeneration
  <2>1. PICK q \in 0 .. Len(log) : \A g \in Rows : disk[e][g] = q  BY DEF OneGeneration
  <2> QED  BY <1>4, <1>8, <2>1
<1>11. RowsHaveTheirRaw'
  <2> SUFFICES ASSUME NEW e \in Dirs, ~broken[e], disk[e]["candidates"] > 0,
                      log[disk[e]["candidates"]] \in Generates
               PROVE  disk'[e]["raw"] \in {0, disk[e]["candidates"], -disk[e]["candidates"]}
    BY <1>1, <1>4, Ranks DEF RowsHaveTheirRaw
  <2>1. disk[e]["raw"] \in {0, disk[e]["candidates"], -disk[e]["candidates"]}
    BY DEF RowsHaveTheirRaw
  <2>2. disk[e]["candidates"] \in Int /\ disk[e]["raw"] \in Int  BY <1>3, Ranks
  <2>3. CASE e = d  BY <1>1, <1>4, <2>1, <2>2, <2>3
  <2>4. CASE e # d  BY <1>4, <1>3, <2>1, <2>4
  <2> QED  BY <2>3, <2>4
<1> QED  BY <1>5, <1>6, <1>7, <1>9, <1>10, <1>11 DEF Progress, ManifestFresh, SumsFresh

LEMMA StepInv == IInv /\ [Next]_vars => IInv'
<1> SUFFICES ASSUME IInv, [Next]_vars PROVE IInv'  OBVIOUS
<1>1. CASE UNCHANGED vars
  BY <1>1 DEF IInv, vars, TypeOK, Progress, Known, SumsVouch, ManifestFresh, ManifestSeen,
              OneGeneration, RowsHaveTheirRaw, SumsFresh, Running, Kind, Verifies
<1>2. ASSUME NEW kind \in Kinds, NEW d \in Dirs, NEW s \in Dirs, Begin(kind, d, s) PROVE IInv'
  BY <1>2, BeginInv
<1>3. ASSUME NEW d \in Dirs, Redact(d) PROVE IInv'  BY <1>3, RedactInv
<1> QED  BY <1>1, <1>2, <1>3, LoadInv, WriteInv, FailsInv, FinishInv DEF Next

LEMMA Invariant == Spec => []IInv
  BY InitInv, StepInv, PTL DEF Spec

\* Type correctness: the variables keep their shape, process numbers included.
THEOREM TypeCorrect == Spec => []TypeOK
  BY Invariant, PTL DEF IInv

\* Whatever commands ran and died in a directory, when its checksums verify
\* the files they vouch for are the one command's that took them (write_run
\* and the code-only packs write the checksums after all of them).
THEOREM OneRunVerifies == Spec => []VerifiedIsOneRun
<1>1. IInv => VerifiedIsOneRun
  <2> SUFFICES ASSUME IInv, NEW d \in Dirs, Verifies(d),
                      NEW f \in Vouched(log[disk[d]["checksums"]]),
                      ~(log[disk[d]["checksums"]] = "code_pack" /\ f = "manifest")
               PROVE  disk[d][f] = disk[d]["checksums"]
    BY DEF VerifiedIsOneRun
  <2>1. disk[d]["checksums"] \in 1 .. Len(log)
    BY Ranks, MaxProcsAssumption DEF IInv, TypeOK, Known, Verifies, Contents
  <2>2. log[disk[d]["checksums"]] \in Kinds  BY <2>1 DEF IInv, TypeOK
  <2>3. f \in Files  BY <2>2, WritesFacts
  <2>4. listed[d]["checksums"][f] = disk[d]["checksums"]  BY DEF IInv, SumsVouch, Verifies
  <2>5. listed[d]["checksums"][f] \in {0, disk[d][f]}  BY <2>3 DEF Verifies
  <2> QED  BY <2>1, <2>4, <2>5
<1> QED  BY <1>1, Invariant, PTL

\* A manifest under checksums that verify describes the same files as they do
\* (build_manifest and write_checksums follow each other in write_run).
THEOREM ManifestsAgree == Spec => []ManifestAgrees
<1>1. IInv => ManifestAgrees
  <2> SUFFICES ASSUME IInv, NEW d \in Dirs, Verifies(d),
                      log[disk[d]["checksums"]] # "code_pack"
               PROVE  \A f \in Files \ {"manifest"} :
                         listed[d]["manifest"][f] = listed[d]["checksums"][f]
    BY DEF ManifestAgrees
  <2>1. disk[d]["checksums"] \in 1 .. Len(log)
    BY Ranks, MaxProcsAssumption DEF IInv, TypeOK, Known, Verifies, Contents
  <2>2. "manifest" \in Vouched(log[disk[d]["checksums"]])
    BY <2>1, WritesFacts DEF IInv, TypeOK, SumsVouch, Verifies, Vouched
  <2>3. listed[d]["checksums"]["manifest"] = disk[d]["checksums"]
    BY <2>2 DEF IInv, SumsVouch, Verifies
  <2>4. disk[d]["manifest"] = disk[d]["checksums"]  BY <2>1, <2>3, Ranks DEF Verifies
  <2> QED  BY <2>4 DEF IInv, ManifestSeen, Verifies
<1> QED  BY <1>1, Invariant, PTL

\* The raw generations beside a finished generation are its own.
THEOREM RawIsTheRows == Spec => []RowsHaveTheirRaw
  BY Invariant, PTL DEF IInv

\* reverify loads the worlds, surfaces and rejections of one command from a
\* directory that no command was cut off in.
THEOREM OneGenerationLoaded == Spec => LoadsOneGeneration
<1>1. IInv /\ [Next]_vars =>
        [~proc.loaded /\ proc'.loaded /\ proc' # Idle /\ ~broken[proc.src] =>
           \E p \in 1 .. Len(log) : \A f \in Rows : disk[proc.src][f] = p]_vars
  <2> SUFFICES ASSUME IInv, Next, ~proc.loaded, proc'.loaded, proc' # Idle, ~broken[proc.src]
               PROVE  \E p \in 1 .. Len(log) : \A f \in Rows : disk[proc.src][f] = p
    OBVIOUS
  <2>1. Running /\ proc.src \in Dirs
    BY DEF IInv, TypeOK, Idle, Running
  <2>2. Load
    BY <2>1 DEF Next, Begin, Write, Fails, Finish, Redact
  <2>3. PICK p \in 0 .. Len(log) : \A f \in Rows : disk[proc.src][f] = p
    BY <2>1 DEF IInv, OneGeneration
  <2>4. p # 0  BY <2>2, <2>3 DEF Load, Rows
  <2> QED  BY <2>3, <2>4
<1> QED  BY <1>1, Invariant, PTL DEF Spec, LoadsOneGeneration

\* A command that took checksums and no mixture ends with a directory that
\* verifies.
THEOREM EndsVerified == Spec => FinishedVerifies
<1>1. IInv => (Finish /\ "checksums" \in Writes[Kind] /\ "mixture" \notin Writes[Kind]
                 => Verifies(proc.dir))
  BY DEF IInv, SumsFresh, Progress, Finish, Remaining
<1>2. IInv /\ [Next]_vars =>
        [Finish /\ "checksums" \in Writes[Kind] /\ "mixture" \notin Writes[Kind]
           => Verifies(proc.dir)]_vars
  BY <1>1
<1> QED  BY <1>2, Invariant, PTL DEF Spec, FinishedVerifies
=============================================================================
