----------------------------- MODULE Gunzip_proofs -----------------------------
(***************************************************************************)
(* gunzip never loses a sound archive and touches no file but the one in   *)
(* hand and its output: for every command line, file system and history of *)
(* failures and kills.                                                     *)
(***************************************************************************)
EXTENDS Gunzip, SequenceTheorems, TLAPS

USE NamesAssumption, CommandsAssumption, WorldsAssumption, BoundsAssumption

(* A file is in hand; what was mapped is what its name still stands for,   *)
(* as far as the command does not write to its own inputs.                 *)
InHand ==
  pc \in {"inflate", "ok", "bad"} =>
    /\ f \in 1..Len(cmd.files)
    /\ data.kind = "archive"
    /\ Separate => data = fs[Path]
    /\ pc = "ok" /\ ToFile /\ data.sound => Plain(Out) /\ fs[Out].of = data.of

(* zcat counts no more files than it has gone through. *)
Counted == nfiles < f

(* The inputs stay as they were until they are removed. *)
InputsKept == Separate => \A p \in Named : fs[p] = initial[p] \/ fs[p] = Absent

IInv == TypeOK /\ InHand /\ Counted /\ InputsKept /\ SoundNeverLost

(* The file in hand is one of those named, and its output has a name.      *)
LEMMA PathType ==
  ASSUME TypeOK, f \in 1..Len(cmd.files)
  PROVE  /\ Path \in Named /\ Path \in Names /\ Out \in Names /\ Out # Path
         /\ fs[Path] \in Content
<1>1. cmd.files \in Seq(Names)
  BY DEF TypeOK, Command
<1>2. Path \in Names /\ Path \in Named
  BY <1>1, ElementOfSeq DEF Path, Named
<1> QED BY <1>2 DEF TypeOK, Out

(* The files named are names. *)
LEMMA NamedType ==
  ASSUME TypeOK
  PROVE  Named \subseteq Names /\ Len(cmd.files) \in Nat
<1>1. cmd.files \in Seq(Names)
  BY DEF TypeOK, Command
<1> QED BY <1>1, ElementOfSeq, LenProperties DEF Named

(* Nothing has been touched at the start. *)
LEMMA InitInv == Init => IInv
<1> SUFFICES ASSUME Init PROVE IInv
  OBVIOUS
<1>1. TypeOK
  <2>1. cmd.files \in Seq(Names)
    BY DEF Init, Command
  <2>2. 1 \in 1..(Len(cmd.files) + 1) /\ 0 \in 0..Len(cmd.files)
    BY <2>1, LenProperties
  <2>3. fs \in [Names -> Content] /\ stdin \in Content /\ data \in Content
    BY DEF Init, Absent, Content
  <2>4. /\ cmd \in Commands /\ initial = fs /\ stdout = << >> /\ kills = 0 /\ code = 0
        /\ fault = FALSE /\ stuck = {} /\ pc = "next" /\ f = 1 /\ nfiles = 0
    BY DEF Init
  <2>5. kills \in 0..MaxKills /\ stdout \in Seq(Content)
    BY <2>4
  <2> HIDE DEF Content, Absent
  <2> QED BY <2>2, <2>3, <2>4, <2>5 DEF TypeOK
<1>2. InHand /\ Counted /\ InputsKept /\ SoundNeverLost
  BY DEF Init, InHand, Counted, InputsKept, SoundNeverLost
<1> QED BY <1>1, <1>2 DEF IInv

(* Steps that leave the files alone and have no file in hand afterwards.   *)
LEMMA IdleStep ==
  ASSUME IInv, TypeOK', UNCHANGED <<cmd, fs, initial>>,
         pc' \notin {"inflate", "ok", "bad"}, Counted'
  PROVE  IInv'
<1>1. Named' = Named /\ Separate' = Separate
  BY DEF Separate, Named
<1>2. InHand'
  BY DEF InHand
<1>3. InputsKept'
  BY <1>1 DEF IInv, InputsKept
<1>4. SoundNeverLost'
  BY <1>1 DEF IInv, SoundNeverLost, Plain
<1> QED BY <1>2, <1>3, <1>4 DEF IInv

(* What inflating yields is a content. *)
LEMMA YieldsType ==
  ASSUME NEW a \in Content, NEW r \in Yields(a)
  PROVE  r \in Content /\ r.of = a.of /\ (a.sound => r.kind = "plain")
<1>0. a.of \in Names \cup {"none"}
  BY DEF Content
<1>1. CASE a.sound
  <2>1. r = [kind |-> "plain", of |-> a.of, sound |-> TRUE]
    BY <1>1 DEF Yields
  <2> QED BY <1>0, <2>1 DEF Content
<1>2. CASE ~a.sound
  <2>1. PICK k \in {"part", "wrong"} : r = [kind |-> k, of |-> a.of, sound |-> FALSE]
    BY <1>2 DEF Yields
  <2> QED BY <1>0, <1>2, <2>1 DEF Content
<1> QED BY <1>1, <1>2

(* Opening the output file. *)
LEMMA StartInv == IInv /\ Start => IInv'
<1> SUFFICES ASSUME IInv, Start PROVE IInv'
  OBVIOUS
<1> DEFINE part == [kind |-> "part", of |-> fs[Path].of, sound |-> FALSE]
<1>1. /\ pc = "next" /\ f <= Len(cmd.files) /\ fs[Path].kind = "archive"
      /\ data' = fs[Path] /\ pc' = "inflate"
      /\ fs' = IF ToFile THEN [fs EXCEPT ![Out] = part] ELSE fs
      /\ UNCHANGED <<cmd, f, nfiles, stdin, stdout, code, kills, fault, stuck, initial>>
  BY DEF Start, MoreFiles
<1>2. f \in 1..Len(cmd.files)
  BY <1>1, NamedType DEF IInv, TypeOK
<1>3. /\ Path \in Named /\ Path \in Names /\ Out \in Names /\ Out # Path
      /\ fs[Path] \in Content
  BY <1>2, PathType DEF IInv
<1>4. part \in Content
  BY <1>3 DEF Content
<1>5. TypeOK'
  BY <1>1, <1>3, <1>4 DEF IInv, TypeOK
<1>6. Path' = Path /\ Named' = Named /\ Separate' = Separate /\ Out' = Out /\ ToFile' = ToFile
  BY <1>1 DEF Path, Named, Separate, Out, ToFile
<1>7. \A p \in Names : p # Out => fs'[p] = fs[p]
  BY <1>1 DEF IInv, TypeOK
<1>8. InHand'
  BY <1>1, <1>2, <1>3, <1>6, <1>7 DEF InHand
<1>9. Separate => \A p \in Named : p # Out
  BY <1>3 DEF Separate, Out
<1>10. InputsKept'
  BY <1>1, <1>6, <1>7, <1>9, NamedType DEF IInv, InputsKept
<1>11. SoundNeverLost'
  <2> SUFFICES ASSUME Separate, NEW p \in Named, initial[p].kind = "archive", initial[p].sound
               PROVE  \/ fs'[p] = initial[p]
                      \/ fs'[OutName[p]].kind = "plain" /\ fs'[OutName[p]].of = initial[p].of
    BY <1>1, <1>6 DEF SoundNeverLost, Plain
  <2>1. p \in Names /\ OutName[p] \in Names
    BY NamedType DEF IInv
  <2>2. CASE p = Path
    <3>1. fs[p] = initial[p]
      BY <1>1, <2>2 DEF IInv, InputsKept, Absent
    <3> QED BY <1>3, <1>7, <2>2, <3>1
  <2>3. CASE p # Path
    <3>1. OutName[p] # Out /\ p # Out
      BY <1>3, <1>9, <2>3 DEF Separate, Out
    <3>2. fs'[p] = fs[p] /\ fs'[OutName[p]] = fs[OutName[p]]
      BY <1>7, <2>1, <3>1
    <3> QED BY <3>2 DEF IInv, SoundNeverLost, Plain
  <2> QED BY <2>2, <2>3
<1>12. Counted'
  BY <1>1 DEF IInv, Counted
<1> QED BY <1>5, <1>8, <1>10, <1>11, <1>12 DEF IInv

(* Inflating to the end. *)
LEMMA InflateOkInv == IInv /\ InflateOk => IInv'
<1> SUFFICES ASSUME IInv, InflateOk PROVE IInv'
  OBVIOUS
<1>1. /\ pc = "inflate" /\ pc' = "ok"
      /\ UNCHANGED <<cmd, f, nfiles, data, stdin, code, kills, fault, stuck, initial>>
  BY DEF InflateOk
<1>2. PICK r \in Yields(data) :
        IF ToFile THEN fs' = [fs EXCEPT ![Out] = r] /\ UNCHANGED stdout
                  ELSE stdout' = Append(stdout, r) /\ UNCHANGED fs
  BY DEF InflateOk
<1>3. r \in Content /\ r.of = data.of /\ (data.sound => r.kind = "plain")
  BY YieldsType DEF IInv, TypeOK
<1>4. /\ f \in 1..Len(cmd.files) /\ data.kind = "archive"
      /\ Separate => data = fs[Path]
  BY <1>1 DEF IInv, InHand
<1>5. Path \in Named /\ Path \in Names /\ Out \in Names /\ Out # Path
  BY <1>4, PathType DEF IInv
<1>6. TypeOK'
  <2>1. stdout' \in Seq(Content)
    BY <1>2, <1>3, AppendProperties DEF IInv, TypeOK
  <2>2. fs' \in [Names -> Content]
    BY <1>2, <1>3, <1>5 DEF IInv, TypeOK
  <2> QED BY <1>1, <2>1, <2>2 DEF IInv, TypeOK
<1>7. Path' = Path /\ Named' = Named /\ Separate' = Separate /\ Out' = Out /\ ToFile' = ToFile
  BY <1>1 DEF Path, Named, Separate, Out, ToFile
<1>8. /\ \A p \in Names : p # Out => fs'[p] = fs[p]
      /\ ToFile => fs'[Out] = r
      /\ ~ToFile => fs' = fs
  BY <1>2, <1>5 DEF IInv, TypeOK
<1>9. Separate => \A p \in Named : p # Out
  BY <1>5 DEF Separate, Out
<1>10. InHand'
  BY <1>1, <1>3, <1>4, <1>5, <1>7, <1>8 DEF InHand, Plain
<1>11. InputsKept'
  BY <1>1, <1>7, <1>8, <1>9, NamedType DEF IInv, InputsKept
<1>12. SoundNeverLost'
  <2> SUFFICES ASSUME Separate, NEW p \in Named, initial[p].kind = "archive", initial[p].sound
               PROVE  \/ fs'[p] = initial[p]
                      \/ fs'[OutName[p]].kind = "plain" /\ fs'[OutName[p]].of = initial[p].of
    BY <1>1, <1>7 DEF SoundNeverLost, Plain
  <2>1. p \in Names /\ OutName[p] \in Names
    BY NamedType DEF IInv
  <2>2. CASE p = Path
    <3>1. fs[p] = initial[p]
      BY <1>4, <2>2 DEF IInv, InputsKept, Absent
    <3> QED BY <1>5, <1>8, <2>2, <3>1
  <2>3. CASE p # Path
    <3>1. OutName[p] # Out /\ p # Out
      BY <1>5, <1>9, <2>3 DEF Separate, Out
    <3>2. fs'[p] = fs[p] /\ fs'[OutName[p]] = fs[OutName[p]]
      BY <1>8, <2>1, <3>1
    <3> QED BY <3>2 DEF IInv, SoundNeverLost, Plain
  <2> QED BY <2>2, <2>3
<1>13. Counted'
  BY <1>1 DEF IInv, Counted
<1> QED BY <1>6, <1>10, <1>11, <1>12, <1>13 DEF IInv

(* Unlinking the output, or the original. *)
LEMMA FinishFileInv == IInv /\ FinishFile => IInv'
<1> SUFFICES ASSUME IInv, FinishFile PROVE IInv'
  OBVIOUS
<1>1. /\ pc \in {"ok", "bad"} /\ pc' = "next" /\ f' = f + 1 /\ nfiles' = nfiles + 1
      /\ fs' = IF ~ToFile THEN fs
               ELSE IF pc = "bad" THEN [fs EXCEPT ![Out] = Absent]
               ELSE IF cmd.keep THEN fs ELSE [fs EXCEPT ![Path] = Absent]
      /\ UNCHANGED <<cmd, data, stdin, stdout, code, kills, fault, stuck, initial>>
  BY DEF FinishFile
<1>2. /\ f \in 1..Len(cmd.files) /\ data.kind = "archive"
      /\ Separate => data = fs[Path]
      /\ pc = "ok" /\ ToFile /\ data.sound => Plain(Out) /\ fs[Out].of = data.of
  BY <1>1 DEF IInv, InHand
<1>3. Path \in Named /\ Path \in Names /\ Out \in Names /\ Out # Path
  BY <1>2, PathType DEF IInv
<1>4. TypeOK'
  <2>1. Absent \in Content
    BY DEF Absent, Content
  <2>2. fs' \in [Names -> Content]
    BY <1>1, <1>3, <2>1 DEF IInv, TypeOK
  <2>3. f' \in 1..(Len(cmd.files) + 1) /\ nfiles' \in 0..Len(cmd.files)
    BY <1>1, <1>2, NamedType DEF IInv, TypeOK, Counted
  <2> QED BY <1>1, <2>2, <2>3 DEF IInv, TypeOK
<1>5. Named' = Named /\ Separate' = Separate
  BY <1>1 DEF Named, Separate
<1>6. \A p \in Names : p # Out /\ p # Path => fs'[p] = fs[p]
  BY <1>1 DEF IInv, TypeOK
<1>7. Separate => \A p \in Named : p # Out
  BY <1>3 DEF Separate, Out
<1>8. fs'[Path] = fs[Path] \/ (fs'[Path] = Absent /\ pc = "ok" /\ ToFile /\ fs'[Out] = fs[Out])
  BY <1>1, <1>3 DEF IInv, TypeOK
<1>9. InputsKept'
  <2> SUFFICES ASSUME Separate, NEW p \in Named
               PROVE  fs'[p] = initial[p] \/ fs'[p] = Absent
    BY <1>1, <1>5 DEF InputsKept
  <2>1. p \in Names /\ p # Out /\ (fs[p] = initial[p] \/ fs[p] = Absent)
    BY <1>7, NamedType DEF IInv, InputsKept
  <2> QED BY <1>6, <1>8, <2>1
<1>10. SoundNeverLost'
  <2> SUFFICES ASSUME Separate, NEW p \in Named, initial[p].kind = "archive", initial[p].sound
               PROVE  \/ fs'[p] = initial[p]
                      \/ fs'[OutName[p]].kind = "plain" /\ fs'[OutName[p]].of = initial[p].of
    BY <1>1, <1>5 DEF SoundNeverLost, Plain
  <2>1. p \in Names /\ OutName[p] \in Names
    BY NamedType DEF IInv
  <2>2. CASE p = Path
    <3>1. fs[p] = initial[p] /\ data = initial[p]
      BY <1>2, <2>2 DEF IInv, InputsKept, Absent
    <3>2. CASE fs'[Path] = fs[Path]
      BY <2>2, <3>1, <3>2
    <3>3. CASE fs'[Path] = Absent /\ pc = "ok" /\ ToFile /\ fs'[Out] = fs[Out]
      <4>1. Plain(Out) /\ fs[Out].of = initial[p].of
        BY <1>2, <3>1, <3>3
      <4> QED BY <2>2, <3>3, <4>1 DEF Plain, Out
    <3> QED BY <1>8, <3>2, <3>3
  <2>3. CASE p # Path
    <3>1. OutName[p] # Out /\ OutName[p] # Path /\ p # Out
      BY <1>3, <1>7, <2>3 DEF Separate, Out
    <3>2. fs'[p] = fs[p] /\ fs'[OutName[p]] = fs[OutName[p]]
      BY <1>6, <2>1, <2>3, <3>1
    <3> QED BY <3>2 DEF IInv, SoundNeverLost, Plain
  <2> QED BY <2>2, <2>3
<1>11. InHand' /\ Counted'
  BY <1>1, <1>2 DEF IInv, InHand, TypeOK, Counted
<1> QED BY <1>4, <1>9, <1>10, <1>11 DEF IInv

(* Inflating fails: the files are as before, and one is still in hand.     *)
LEMMA InflateFailsInv == IInv /\ InflateFails => IInv'
<1> SUFFICES ASSUME IInv, InflateFails PROVE IInv'
  OBVIOUS
<1>1. /\ pc = "inflate" /\ pc' = "bad" /\ fault' = (fault \/ data.sound)
      /\ stdout' = IF ToFile THEN stdout
                   ELSE Append(stdout, [kind |-> "part", of |-> data.of, sound |-> FALSE])
      /\ UNCHANGED <<cmd, f, nfiles, data, fs, stdin, code, kills, stuck, initial>>
  BY DEF InflateFails
<1>2. TypeOK'
  <2>1. data.sound \in BOOLEAN /\ data.of \in Names \cup {"none"}
    BY DEF IInv, TypeOK, Content
  <2>2. [kind |-> "part", of |-> data.of, sound |-> FALSE] \in Content
    BY <2>1 DEF Content
  <2>3. stdout' \in Seq(Content)
    BY <1>1, <2>2, AppendProperties DEF IInv, TypeOK
  <2>4. fault' \in BOOLEAN
    BY <1>1, <2>1 DEF IInv, TypeOK
  <2> QED BY <1>1, <2>3, <2>4 DEF IInv, TypeOK
<1>3. InHand'
  BY <1>1 DEF IInv, InHand, Separate, Named, Path
<1>4. Named' = Named /\ Separate' = Separate
  BY <1>1 DEF Separate, Named
<1>5. Counted' /\ InputsKept'
  BY <1>1, <1>4 DEF IInv, Counted, InputsKept
<1>6. SoundNeverLost'
  BY <1>1, <1>4 DEF IInv, SoundNeverLost, Plain
<1> QED BY <1>2, <1>3, <1>5, <1>6 DEF IInv

(* The steps that touch no file.                                           *)
LEMMA IdleInv ==
  IInv /\ (Skip \/ CannotStart \/ AfterLast \/ FromStdin \/ Kill \/ Rerun) => IInv'
<1>1. ASSUME IInv, Skip \/ CannotStart PROVE IInv'
  <2>1. /\ pc = "next" /\ f <= Len(cmd.files) /\ f' = f + 1
        /\ UNCHANGED <<cmd, pc, nfiles, data, fs, stdin, stdout, code, kills, stuck, initial>>
    BY <1>1 DEF Skip, CannotStart, MoreFiles
  <2>2. fault' \in BOOLEAN
    BY <1>1 DEF IInv, TypeOK, Skip, CannotStart
  <2>3. f' \in 1..(Len(cmd.files) + 1) /\ Counted'
    BY <1>1, <2>1, NamedType DEF IInv, TypeOK, Counted
  <2>4. TypeOK'
    BY <1>1, <2>1, <2>2, <2>3 DEF IInv, TypeOK
  <2> QED BY <1>1, <2>1, <2>3, <2>4, IdleStep
<1>2. ASSUME IInv, AfterLast PROVE IInv'
  <2>1. /\ pc' \in {"stdin", "exited"} /\ code' \in {0, 1} /\ data' \in {data, stdin}
        /\ UNCHANGED <<cmd, f, nfiles, fs, stdin, stdout, kills, fault, stuck, initial>>
    BY <1>2 DEF IInv, TypeOK, AfterLast
  <2>2. TypeOK' /\ Counted'
    BY <1>2, <2>1 DEF IInv, TypeOK, Counted
  <2> QED BY <1>2, <2>1, <2>2, IdleStep
<1>3. ASSUME IInv, FromStdin PROVE IInv'
  <2>1. /\ pc' = "exited" /\ code' \in {0, 1}
        /\ UNCHANGED <<cmd, f, nfiles, data, fs, stdin, kills, stuck, initial>>
    BY <1>3 DEF FromStdin
  <2>2. data \in Content /\ data.sound \in BOOLEAN /\ data.of \in Names \cup {"none"}
    BY <1>3 DEF IInv, TypeOK, Content
  <2>3. \E r \in Content : stdout' = Append(stdout, r)
    <3>1. [kind |-> "part", of |-> data.of, sound |-> FALSE] \in Content
      BY <2>2 DEF Content
    <3> QED BY <1>3, <2>2, <3>1, YieldsType DEF FromStdin
  <2>4. stdout' \in Seq(Content)
    BY <1>3, <2>3, AppendProperties DEF IInv, TypeOK
  <2>5. fault' \in BOOLEAN
    BY <1>3, <2>2 DEF IInv, TypeOK, FromStdin
  <2>6. TypeOK' /\ Counted'
    BY <1>3, <2>1, <2>4, <2>5 DEF IInv, TypeOK, Counted
  <2> QED BY <1>3, <2>1, <2>6, IdleStep
<1>4. ASSUME IInv, Kill PROVE IInv'
  <2>1. TypeOK' /\ Counted'
    BY <1>4 DEF IInv, TypeOK, Counted, Kill
  <2> QED BY <1>4, <2>1, IdleStep DEF Kill
<1>5. ASSUME IInv, Rerun PROVE IInv'
  <2>1. Absent \in Content
    BY DEF Absent, Content
  <2>3. /\ pc' = "next" /\ f' = 1 /\ nfiles' = 0 /\ data' = Absent /\ fault' = FALSE
        /\ UNCHANGED <<cmd, fs, stdin, stdout, code, kills, stuck, initial>>
    BY <1>5 DEF Rerun
  <2>4. f' \in 1..(Len(cmd.files) + 1) /\ nfiles' \in 0..Len(cmd.files) /\ Counted'
    BY <1>5, <2>3, NamedType DEF IInv, Counted
  <2>2. TypeOK' /\ Counted'
    BY <1>5, <2>1, <2>3, <2>4 DEF IInv, TypeOK
  <2> QED BY <1>5, <2>2, IdleStep DEF Rerun
<1> QED BY <1>1, <1>2, <1>3, <1>4, <1>5

(* A refused unlink changes no file. *)
LEMMA UnlinkFailsInv == IInv /\ UnlinkFails => IInv'
<1> SUFFICES ASSUME IInv, UnlinkFails PROVE IInv'
  OBVIOUS
<1>1. /\ pc \in {"ok", "bad"} /\ pc' = "next" /\ f' = f + 1 /\ nfiles' = nfiles + 1
      /\ stuck' \in {stuck, stuck \cup {Out}} /\ fault' = TRUE
      /\ UNCHANGED <<cmd, data, fs, stdin, stdout, code, kills, initial>>
  BY DEF UnlinkFails
<1>2. f \in 1..Len(cmd.files)
  BY <1>1 DEF IInv, InHand
<1>3. stuck' \in SUBSET Names
  BY <1>1, <1>2, PathType DEF IInv, TypeOK
<1>4. f' \in 1..(Len(cmd.files) + 1) /\ nfiles' \in 0..Len(cmd.files) /\ Counted'
  BY <1>1, <1>2, NamedType DEF IInv, TypeOK, Counted
<1>5. TypeOK'
  BY <1>1, <1>3, <1>4 DEF IInv, TypeOK
<1> QED BY <1>1, <1>4, <1>5, IdleStep

(* The inductive invariant holds throughout.                               *)
THEOREM Invariance == Spec => []IInv
<1>1. IInv /\ [Next]_vars => IInv'
  <2>1. ASSUME IInv, UNCHANGED vars PROVE IInv'
    <3>1. TypeOK'
      BY <2>1 DEF IInv, vars, TypeOK
    <3>2. InHand'
      BY <2>1 DEF IInv, vars, InHand, Separate, Named, Plain, Path, Out, ToFile
    <3>3. Named' = Named /\ Separate' = Separate
      BY <2>1 DEF vars, Separate, Named
    <3>4. Counted'
      BY <2>1 DEF IInv, vars, Counted
    <3>5. InputsKept'
      BY <2>1, <3>3 DEF IInv, vars, InputsKept
    <3>6. SoundNeverLost'
      BY <2>1, <3>3 DEF IInv, vars, SoundNeverLost, Plain
    <3> QED BY <3>1, <3>2, <3>4, <3>5, <3>6 DEF IInv
  <2> QED BY <2>1, StartInv, InflateOkInv, InflateFailsInv, FinishFileInv, UnlinkFailsInv, IdleInv DEF Next
<1> QED BY <1>1, InitInv, PTL DEF Spec

(* Types: the loop never looks behind the last file.                       *)
THEOREM TypeCorrect == Spec => []TypeOK
BY Invariance, PTL DEF IInv

(* A sound archive or its contents exist at every moment.                  *)
THEOREM NothingLost == Spec => []SoundNeverLost
BY Invariance, PTL DEF IInv

(* No step changes a file other than the one in hand and its output.       *)
THEOREM NothingElseTouched == Spec => OnlyAsked
<1> DEFINE Allowed == \A p \in Names : fs'[p] # fs[p] =>
                        /\ ToFile
                        /\ \/ p = Out /\ (pc = "next" => fs[Path].kind = "archive")
                           \/ p = Path /\ fs'[p] = Absent /\ pc = "ok" /\ ~cmd.keep
<1>1. IInv /\ [Next]_vars => Allowed
  <2> SUFFICES ASSUME IInv, [Next]_vars, NEW p \in Names, fs'[p] # fs[p]
               PROVE  /\ ToFile
                      /\ \/ p = Out /\ (pc = "next" => fs[Path].kind = "archive")
                         \/ p = Path /\ fs'[p] = Absent /\ pc = "ok" /\ ~cmd.keep
    OBVIOUS
  <2>1. fs \in [Names -> Content]
    BY DEF IInv, TypeOK
  <2>2. CASE Start
    BY <2>1, <2>2 DEF Start
  <2>3. CASE InflateOk
    BY <2>1, <2>3 DEF InflateOk
  <2>4. CASE FinishFile
    BY <2>1, <2>4 DEF FinishFile
  <2>5. CASE ~(Start \/ InflateOk \/ FinishFile)
    BY <2>5 DEF Next, vars, Skip, CannotStart, InflateFails, UnlinkFails, AfterLast, FromStdin, Kill, Rerun
  <2> QED BY <2>2, <2>3, <2>4, <2>5
<1>2. Allowed => [Allowed]_vars
  OBVIOUS
<1> QED BY <1>1, Invariance, PTL DEF Spec, OnlyAsked
-------------------------------------------------------------------------------
Working   == pc \in {"inflate", "ok", "bad"}
Sound(p)  == initial[p].kind = "archive" /\ initial[p].sound
Flawed(p) == initial[p].kind = "archive" /\ ~initial[p].sound
Asked(p)  == p \in GzNames \/ cmd.force

(* An archive in the file system is one that was there at the start, since *)
(* no output is one; so is the one in hand, whatever names the command     *)
(* writes to.                                                              *)
ArchivesAreOld ==
  /\ \A p \in Names : fs[p].kind = "archive" => fs[p] = initial[p]
  /\ Working => data = initial[Path]

(* How far the loop is, and why it failed. *)
Stages ==
  /\ pc = "killed" => kills > 0
  /\ pc \in {"stdin", "exited"} => f > Len(cmd.files)
  /\ pc = "bad" /\ ~fault => ~data.sound

(* A half-written file is an old one, stems from a flawed archive, could   *)
(* not be removed, or is being written.                                    *)
PartsExplained ==
  kills = 0 =>
    \A p \in Names : fs[p].kind = "part" =>
      \/ fs[p] = initial[p] \/ p \in stuck
      \/ \E q \in Named : OutName[q] = p /\ Flawed(q)
      \/ pc \in {"inflate", "bad"} /\ ToFile /\ p = Out

KeptIfAsked == Separate /\ cmd.keep => \A p \in Named : fs[p] = initial[p]

(* What was asked of a file is done. *)
Done(p) == /\ Plain(OutName[p]) /\ fs[OutName[p]].of = initial[p].of
           /\ (fs[p] = Absent) # cmd.keep

(* It is done for all files the loop has passed, but for the one in hand   *)
(* when that is named twice.                                               *)
Passed ==
  Separate /\ ToFile /\ ~fault /\ pc # "killed" =>
    \A i \in 1..(f - 1) :
      Sound(cmd.files[i]) /\ Asked(cmd.files[i]) /\ (Working => cmd.files[i] # Path)
        => Done(cmd.files[i])

JInv == ArchivesAreOld /\ Stages /\ PartsExplained /\ KeptIfAsked /\ Passed

(* What does not change with a step. *)
LEMMA Fixed ==
  ASSUME [Next]_vars
  PROVE  /\ UNCHANGED <<cmd, initial>> /\ kills' \in {kills, kills + 1}
         /\ Named' = Named /\ ToFile' = ToFile /\ Separate' = Separate
         /\ Start \/ InflateOk \/ FinishFile \/ fs' = fs
<1>1. UNCHANGED <<cmd, initial>> /\ kills' \in {kills, kills + 1}
  BY DEF Next, vars, Start, InflateOk, FinishFile, UnlinkFails, Skip, CannotStart, InflateFails, AfterLast,
         FromStdin, Kill, Rerun
<1>2. Start \/ InflateOk \/ FinishFile \/ fs' = fs
  BY DEF Next, vars, Skip, CannotStart, InflateFails, UnlinkFails, AfterLast, FromStdin, Kill, Rerun
<1>3. Named' = Named /\ ToFile' = ToFile /\ Separate' = Separate
  BY <1>1 DEF Named, ToFile, Separate
<1> QED BY <1>1, <1>2, <1>3

(* The three steps that write to the file system, and what they write.     *)
LEMMA StartWrites ==
  ASSUME IInv, Start
  PROVE  /\ pc = "next" /\ pc' = "inflate" /\ data' = fs[Path] /\ fs[Path].kind = "archive"
         /\ UNCHANGED <<cmd, f, kills, fault, stuck, initial>> /\ Path' = Path /\ Out' = Out
         /\ f \in 1..Len(cmd.files) /\ Path \in Named /\ Path \in Names /\ Out \in Names /\ Out # Path
         /\ \A p \in Names : fs'[p] = fs[p] \/ (ToFile /\ p = Out /\ fs'[p].kind = "part")
<1>1. /\ pc = "next" /\ f <= Len(cmd.files) /\ fs[Path].kind = "archive"
      /\ data' = fs[Path] /\ pc' = "inflate" /\ UNCHANGED <<cmd, f, kills, fault, stuck, initial>>
      /\ fs' = IF ToFile
               THEN [fs EXCEPT ![Out] = [kind |-> "part", of |-> fs[Path].of, sound |-> FALSE]]
               ELSE fs
  BY DEF Start, MoreFiles
<1>2. f \in 1..Len(cmd.files)
  BY <1>1, NamedType DEF IInv, TypeOK
<1>3. Path \in Named /\ Path \in Names /\ Out \in Names /\ Out # Path
  BY <1>2, PathType DEF IInv
<1>4. \A p \in Names : fs'[p] = fs[p] \/ (ToFile /\ p = Out /\ fs'[p].kind = "part")
  BY <1>1, <1>3 DEF IInv, TypeOK
<1>5. Path' = Path /\ Out' = Out
  BY <1>1 DEF Path, Out
<1> QED BY <1>1, <1>2, <1>3, <1>4, <1>5

(* Inflating a sound archive writes the whole output, a flawed one perhaps part of it. *)
LEMMA InflateOkWrites ==
  ASSUME IInv, InflateOk
  PROVE  /\ pc = "inflate" /\ pc' = "ok" /\ UNCHANGED <<cmd, f, data, kills, fault, stuck, initial>>
         /\ Path' = Path /\ Out' = Out
         /\ f \in 1..Len(cmd.files) /\ Path \in Named /\ Path \in Names /\ Out \in Names /\ Out # Path
         /\ \A p \in Names : \/ fs'[p] = fs[p]
                             \/ /\ ToFile /\ p = Out
                                /\ fs'[p].kind # "archive" /\ (data.sound => fs'[p].kind # "part")
         /\ ToFile => fs'[Out].kind # "archive" /\ (data.sound => fs'[Out].kind # "part")
<1>1. pc = "inflate" /\ pc' = "ok" /\ UNCHANGED <<cmd, f, data, kills, fault, stuck, initial>>
  BY DEF InflateOk
<1>2. PICK r \in Yields(data) : IF ToFile THEN fs' = [fs EXCEPT ![Out] = r] ELSE fs' = fs
  BY DEF InflateOk
<1>3. r.kind # "archive" /\ (data.sound => r.kind # "part")
  BY DEF Yields
<1>4. f \in 1..Len(cmd.files)
  BY <1>1 DEF IInv, InHand
<1>5. Path \in Named /\ Path \in Names /\ Out \in Names /\ Out # Path
  BY <1>4, PathType DEF IInv
<1>6. /\ \A p \in Names : p # Out => fs'[p] = fs[p]
      /\ IF ToFile THEN fs'[Out] = r ELSE fs' = fs
  BY <1>2, <1>5 DEF IInv, TypeOK
<1>7. Path' = Path /\ Out' = Out
  BY <1>1 DEF Path, Out
<1> QED BY <1>1, <1>3, <1>4, <1>5, <1>6, <1>7

(* Finishing a file removes the original or the part, never anything else. *)
LEMMA FinishFileWrites ==
  ASSUME IInv, FinishFile
  PROVE  /\ pc \in {"ok", "bad"} /\ pc' = "next" /\ f' = f + 1
         /\ UNCHANGED <<cmd, data, kills, fault, stuck, initial>>
         /\ f \in 1..Len(cmd.files) /\ Path \in Named /\ Path \in Names /\ Out \in Names /\ Out # Path
         /\ \A p \in Names : \/ fs'[p] = fs[p]
                             \/ /\ ToFile /\ fs'[p] = Absent
                                /\ \/ p = Out /\ pc = "bad"
                                   \/ p = Path /\ pc = "ok" /\ ~cmd.keep
         /\ ToFile /\ pc = "bad" => fs'[Out] = Absent
         /\ ToFile /\ pc = "ok" => (fs'[Path] = IF cmd.keep THEN fs[Path] ELSE Absent)
<1>1. /\ pc \in {"ok", "bad"} /\ pc' = "next" /\ f' = f + 1
      /\ fs' = IF ~ToFile THEN fs
               ELSE IF pc = "bad" THEN [fs EXCEPT ![Out] = Absent]
               ELSE IF cmd.keep THEN fs ELSE [fs EXCEPT ![Path] = Absent]
      /\ UNCHANGED <<cmd, data, kills, fault, stuck, initial>>
  BY DEF FinishFile
<1>2. f \in 1..Len(cmd.files)
  BY <1>1 DEF IInv, InHand
<1>3. Path \in Named /\ Path \in Names /\ Out \in Names /\ Out # Path
  BY <1>2, PathType DEF IInv
<1> QED BY <1>1, <1>2, <1>3 DEF IInv, TypeOK

(* No output is an archive; the one in hand was read from the file system. *)
LEMMA OldInv == IInv /\ ArchivesAreOld /\ [Next]_vars => ArchivesAreOld'
<1> SUFFICES ASSUME IInv, ArchivesAreOld, [Next]_vars PROVE ArchivesAreOld'
  OBVIOUS
<1>1. UNCHANGED <<cmd, initial>>
  BY Fixed
<1>2. CASE Start
  BY <1>1, <1>2, StartWrites DEF ArchivesAreOld
<1>3. CASE InflateOk
  BY <1>1, <1>3, InflateOkWrites DEF ArchivesAreOld, Working
<1>4. CASE FinishFile
  <2>1. \A p \in Names : fs'[p] = fs[p] \/ fs'[p] = Absent
    BY <1>4, FinishFileWrites
  <2>2. Absent.kind # "archive" /\ ~Working'
    BY <1>4, FinishFileWrites DEF Absent, Working
  <2> QED BY <1>1, <2>1, <2>2 DEF ArchivesAreOld
<1>5. CASE ~ (Start \/ InflateOk \/ FinishFile)
  <2>1. fs' = fs
    BY <1>5, Fixed
  <2>2. Working' => Working /\ UNCHANGED <<f, data>>
    BY <1>5 DEF Next, vars, Skip, CannotStart, InflateFails, UnlinkFails, AfterLast, FromStdin, Kill, Rerun,
                MoreFiles, Working
  <2> QED BY <1>1, <2>1, <2>2 DEF ArchivesAreOld, Path
<1> QED BY <1>2, <1>3, <1>4, <1>5

(* Where the loop is. *)
LEMMA StagesInv == IInv /\ Stages /\ [Next]_vars => Stages'
<1> SUFFICES ASSUME IInv, Stages, [Next]_vars PROVE Stages'
  OBVIOUS
<1>1. kills \in Nat
  BY DEF IInv, TypeOK
<1>2. CASE UNCHANGED vars
  BY <1>2 DEF vars, Stages
<1>3. CASE Next
  BY <1>1, <1>3 DEF Next, Stages, Start, InflateOk, FinishFile, UnlinkFails, Skip, CannotStart, InflateFails,
                    AfterLast, FromStdin, Kill, Rerun, MoreFiles
<1> QED BY <1>2, <1>3

(* What is half-written. *)
LEMMA PartsInv ==
  IInv /\ ArchivesAreOld /\ Stages /\ PartsExplained /\ [Next]_vars => PartsExplained'
<1> SUFFICES ASSUME IInv, ArchivesAreOld, Stages, PartsExplained, [Next]_vars, kills' = 0,
                    NEW p \in Names, fs'[p].kind = "part"
             PROVE  \/ fs'[p] = initial'[p] \/ p \in stuck'
                    \/ \E q \in Named' : OutName[q] = p /\ Flawed(q)'
                    \/ pc' \in {"inflate", "bad"} /\ ToFile' /\ p = Out'
  BY DEF PartsExplained
<1>1. /\ UNCHANGED <<cmd, initial>> /\ Named' = Named /\ ToFile' = ToFile /\ kills = 0
      /\ \A q \in Names : Flawed(q)' <=> Flawed(q)
  BY Fixed DEF IInv, TypeOK, Flawed
<1>2. fs[p].kind = "part" =>
        \/ fs[p] = initial[p] \/ p \in stuck
        \/ \E q \in Named : OutName[q] = p /\ Flawed(q)
        \/ pc \in {"inflate", "bad"} /\ ToFile /\ p = Out
  BY <1>1 DEF PartsExplained
<1>3. Named \subseteq Names
  BY NamedType DEF IInv
<1>4. CASE Start
  BY <1>1, <1>2, <1>3, <1>4, StartWrites
<1>5. CASE InflateOk
  <2>1. /\ UNCHANGED <<data, stuck>> /\ pc = "inflate" /\ Path \in Named /\ Out = OutName[Path]
        /\ \/ fs'[p] = fs[p] /\ (ToFile => p # Out \/ ~data.sound)
           \/ ToFile /\ p = Out /\ ~data.sound
    BY <1>5, InflateOkWrites DEF Out
  <2>2. ~data.sound => Flawed(Path)
    BY <2>1 DEF ArchivesAreOld, Working, Flawed, IInv, InHand
  <2> QED BY <1>1, <1>2, <1>3, <2>1, <2>2
<1>6. CASE FinishFile
  <2>1. /\ UNCHANGED stuck /\ (fs'[p] = fs[p] \/ fs'[p] = Absent)
        /\ ToFile /\ pc = "bad" => fs'[Out] = Absent
        /\ pc \in {"ok", "bad"}
    BY <1>6, FinishFileWrites
  <2>2. Absent.kind # "part"
    BY DEF Absent
  <2> QED BY <1>1, <1>2, <1>3, <2>1, <2>2
<1>8. CASE UnlinkFails
  <2>1. /\ fs' = fs /\ pc \in {"ok", "bad"} /\ (pc = "bad" => stuck' = stuck \cup {Out})
        /\ stuck \subseteq stuck'
    BY <1>8 DEF UnlinkFails
  <2> QED BY <1>1, <1>2, <1>3, <2>1
<1>7. CASE ~ (Start \/ InflateOk \/ FinishFile \/ UnlinkFails)
  <2>1. fs' = fs
    BY <1>7, Fixed
  <2>3. stuck' = stuck
    BY <1>7 DEF Next, vars, Skip, CannotStart, InflateFails, AfterLast, FromStdin, Kill, Rerun
  <2>2. pc \in {"inflate", "bad"} => pc' \in {"inflate", "bad"} /\ UNCHANGED f
    BY <1>1, <1>7 DEF Next, vars, Skip, CannotStart, InflateFails, AfterLast, FromStdin, Kill, Rerun,
                MoreFiles, IInv, TypeOK
  <2> QED BY <1>1, <1>2, <1>3, <2>1, <2>2, <2>3 DEF Out, Path
<1> QED BY <1>4, <1>5, <1>6, <1>7, <1>8

(* With -k nothing is removed. *)
LEMMA KeptInv == IInv /\ KeptIfAsked /\ [Next]_vars => KeptIfAsked'
<1> SUFFICES ASSUME IInv, KeptIfAsked, [Next]_vars, Separate, cmd.keep, NEW p \in Named
             PROVE  fs'[p] = initial[p]
  BY Fixed DEF KeptIfAsked
<1>1. fs[p] = initial[p] /\ p \in Names
  BY NamedType DEF KeptIfAsked, IInv
<1>2. Path \in Named => p # Out
  BY DEF Separate, Out
<1>3. Start \/ InflateOk \/ FinishFile => fs'[p] = fs[p]
  BY <1>1, <1>2, StartWrites, InflateOkWrites, FinishFileWrites
<1> QED BY <1>1, <1>3, Fixed

(* An archive that is there no more was inflated. *)
LEMMA GoneIsDone ==
  ASSUME IInv, KeptIfAsked, Separate, NEW p \in Named, Sound(p), fs[p].kind # "archive"
  PROVE  Done(p)
<1>1. fs[p] = Absent /\ fs[p] # initial[p] /\ ~cmd.keep
  BY DEF IInv, InputsKept, KeptIfAsked, Sound
<1>2. Plain(OutName[p]) /\ fs[OutName[p]].of = initial[p].of
  BY <1>1 DEF IInv, SoundNeverLost, Sound
<1>3. cmd.keep \in BOOLEAN
  BY DEF IInv, TypeOK, Command
<1> QED BY <1>1, <1>2, <1>3 DEF Done

(* What is done stays done while other files change. *)
LEMMA DoneStays ==
  ASSUME NEW p \in Names, Done(p), fs'[p] = fs[p], fs'[OutName[p]] = fs[OutName[p]],
         UNCHANGED <<cmd, initial>>
  PROVE  Done(p)'
BY DEF Done, Plain

(* The files of a command that writes to none of its inputs do not meet.   *)
LEMMA Apart ==
  ASSUME IInv, Separate, NEW p \in Named, Path \in Named, p # Path
  PROVE  p # Out /\ OutName[p] # Out /\ OutName[p] # Path /\ p \in Names /\ OutName[p] \in Names
BY NamedType DEF Separate, Out, IInv

(* The loop leaves no file behind that it could inflate. *)
LEMMA PassedInv ==
  IInv /\ IInv' /\ ArchivesAreOld /\ Stages /\ KeptIfAsked /\ Passed /\ [Next]_vars => Passed'
<1> SUFFICES ASSUME IInv, IInv', ArchivesAreOld, Stages, KeptIfAsked, Passed, [Next]_vars,
                    Separate, ToFile, ~fault', pc' # "killed",
                    NEW i \in 1..(f' - 1), Sound(cmd.files[i]), Asked(cmd.files[i]),
                    Working' => cmd.files[i] # Path'
             PROVE  Done(cmd.files[i])'
  BY Fixed DEF Passed, Sound, Asked
<1> DEFINE p == cmd.files[i]
<1>1. UNCHANGED <<cmd, initial>> /\ f \in Nat /\ f' \in Nat /\ Len(cmd.files) \in Nat
  <2>1. UNCHANGED <<cmd, initial>> /\ Len(cmd.files) \in Nat
    BY Fixed, NamedType DEF IInv
  <2>2. f \in 1..(Len(cmd.files) + 1) /\ f' \in 1..(Len(cmd.files) + 1)
    BY <2>1 DEF IInv, TypeOK
  <2> QED BY <2>1, <2>2
<1>2. p \in Named /\ p \in Names
  <2>1. f' <= Len(cmd.files) + 1
    BY <1>1 DEF IInv, TypeOK
  <2>2. i \in 1..Len(cmd.files)
    BY <1>1, <2>1
  <2> QED BY <2>2, NamedType DEF Named, IInv
<1>3. ASSUME ~fault, pc # "killed", i \in 1..(f - 1), Working => p # Path
      PROVE  Done(p)
  BY <1>3 DEF Passed
<1> HIDE DEF p
<1>4. CASE Start
  <2>1. /\ pc = "next" /\ pc' = "inflate" /\ UNCHANGED <<f, fault>> /\ Path' = Path /\ Path \in Named
        /\ \A q \in Names : q # Out => fs'[q] = fs[q]
    BY <1>4, StartWrites
  <2>2. p # Path /\ ~Working
    BY <2>1 DEF Working, p
  <2>3. Done(p)
    BY <1>3, <2>1, <2>2 DEF p
  <2>4. fs'[p] = fs[p] /\ fs'[OutName[p]] = fs[OutName[p]]
    BY <1>2, <2>1, <2>2, Apart
  <2> QED BY <1>1, <1>2, <2>3, <2>4, DoneStays DEF p
<1>5. CASE InflateOk
  <2>1. /\ pc = "inflate" /\ pc' = "ok" /\ UNCHANGED <<f, fault>> /\ Path' = Path /\ Path \in Named
        /\ \A q \in Names : q # Out => fs'[q] = fs[q]
    BY <1>5, InflateOkWrites
  <2>2. p # Path
    BY <2>1 DEF Working, p
  <2>3. Done(p)
    BY <1>3, <2>1, <2>2 DEF p
  <2>4. fs'[p] = fs[p] /\ fs'[OutName[p]] = fs[OutName[p]]
    BY <1>2, <2>1, <2>2, Apart
  <2> QED BY <1>1, <1>2, <2>3, <2>4, DoneStays DEF p
<1>6. CASE FinishFile
  <2>1. /\ pc \in {"ok", "bad"} /\ f' = f + 1 /\ UNCHANGED fault
        /\ Path \in Named /\ Path \in Names /\ Out \in Names /\ Out # Path
        /\ \A q \in Names : q # Out /\ q # Path => fs'[q] = fs[q]
        /\ pc = "ok" => fs'[Out] = fs[Out] /\ (fs'[Path] = IF cmd.keep THEN fs[Path] ELSE Absent)
    BY <1>6, FinishFileWrites
  <2>2. CASE p # Path
    <3>1. i # f
      BY <2>2 DEF Path, p
    <3>2. i \in 1..(f - 1)
      BY <1>1, <2>1, <3>1
    <3>3. Done(p)
      BY <1>3, <2>1, <2>2, <3>2
    <3>4. fs'[p] = fs[p] /\ fs'[OutName[p]] = fs[OutName[p]]
      BY <1>2, <2>1, <2>2, Apart
    <3> QED BY <1>1, <1>2, <3>3, <3>4, DoneStays DEF p
  <2>3. CASE p = Path
    <3>1. data = initial[p] /\ data.sound /\ data.kind = "archive"
      BY <2>1, <2>3 DEF ArchivesAreOld, Working, Sound, p
    <3>2. pc = "ok"
      BY <2>1, <3>1 DEF Stages
    <3>3. Plain(Out) /\ fs[Out].of = initial[p].of
      BY <3>1, <3>2 DEF IInv, InHand
    <3>4. cmd.keep => fs[p] = initial[p]
      BY <1>2 DEF KeptIfAsked
    <3>5. initial[p] # Absent /\ cmd.keep \in BOOLEAN
      BY <3>1 DEF Absent, IInv, TypeOK, Command
    <3>6. (fs'[p] = Absent) # cmd.keep
      BY <2>1, <2>3, <3>2, <3>4, <3>5
    <3>7. fs'[OutName[p]] = fs[Out]
      BY <2>1, <2>3, <3>2 DEF Out
    <3> QED BY <1>1, <3>3, <3>6, <3>7 DEF Done, Plain, p
  <2> QED BY <2>2, <2>3
<1>7. CASE Skip
  <2>1. f' = f + 1 /\ UNCHANGED <<pc, fault, fs>> /\ pc = "next" /\ ~cmd.force /\ Path \notin GzNames
    BY <1>7 DEF Skip, MoreFiles, Skipped
  <2>2. i # f
    BY <2>1 DEF Asked, Path
  <2>3. i \in 1..(f - 1)
    BY <1>1, <2>1, <2>2
  <2>4. Done(p)
    BY <1>3, <2>1, <2>3 DEF Working
  <2> QED BY <1>1, <1>2, <2>1, <2>4, DoneStays DEF p
<1>8. CASE CannotStart
  <2>1. /\ f' = f + 1 /\ UNCHANGED <<pc, fs>> /\ pc = "next" /\ ~fault /\ fs[Path].kind # "archive"
    BY <1>8 DEF CannotStart, MoreFiles, IInv, TypeOK
  <2>2. CASE i = f
    <3>1. p = Path
      BY <2>2 DEF Path, p
    <3>2. Done(p)
      BY <1>2, <2>1, <3>1, GoneIsDone DEF p
    <3> QED BY <1>1, <1>2, <2>1, <3>2, DoneStays DEF p
  <2>3. CASE i # f
    <3>1. i \in 1..(f - 1)
      BY <1>1, <2>1, <2>3
    <3>2. Done(p)
      BY <1>3, <2>1, <3>1 DEF Working
    <3> QED BY <1>1, <1>2, <2>1, <3>2, DoneStays DEF p
  <2> QED BY <2>2, <2>3
<1>9. CASE Rerun
  BY <1>9 DEF Rerun
<1>10. CASE InflateFails \/ AfterLast \/ FromStdin \/ UNCHANGED vars
  <2>1. UNCHANGED <<fs, f>> /\ ~fault /\ pc # "killed" /\ (Working => Working')
    BY <1>10 DEF InflateFails, AfterLast, FromStdin, vars, Working, IInv, TypeOK, Content
  <2>2. Path' = Path
    BY <1>1, <2>1 DEF Path
  <2>3. Done(p)
    BY <1>3, <2>1, <2>2 DEF p
  <2> QED BY <1>1, <1>2, <2>1, <2>3, DoneStays DEF p
<1>11. CASE Kill
  BY <1>11 DEF Kill
<1>12. CASE UnlinkFails
  BY <1>12 DEF UnlinkFails
<1> QED BY <1>4, <1>5, <1>6, <1>7, <1>8, <1>9, <1>10, <1>11, <1>12 DEF Next

(* The second invariant, on top of the first. *)
THEOREM Progress == Spec => []JInv
<1>1. Init => JInv
  <2> SUFFICES ASSUME Init PROVE JInv
    OBVIOUS
  <2>1. fs = initial /\ pc = "next" /\ f = 1
    BY DEF Init
  <2> QED BY <2>1 DEF JInv, ArchivesAreOld, Stages, PartsExplained, KeptIfAsked, Passed, Working
<1>2. IInv /\ IInv' /\ JInv /\ [Next]_vars => JInv'
  BY OldInv, StagesInv, PartsInv, KeptInv, PassedInv DEF JInv
<1> QED BY <1>1, <1>2, Invariance, PTL DEF Spec

(* gunzip that was not killed leaves no half-written file behind that was  *)
(* not there before, but for what a flawed archive made it take for whole  *)
(* and for what the unlink behind a failure was refused for:               *)
(* for every command, its inputs and outputs meeting or not.               *)
THEOREM LeavesNoPart == Spec => []NoPartLeft
<1>1. JInv => NoPartLeft
  BY DEF JInv, PartsExplained, NoPartLeft, Flawed
<1> QED BY <1>1, Progress, PTL

(* A run without failing calls ends with every sound archive inflated, and *)
(* the original removed unless -k, whatever killed runs before it did.     *)
THEOREM FinishesTheWork == Spec => []AllInflated
<1>1. IInv /\ JInv => AllInflated
  <2> SUFFICES ASSUME IInv, JInv, pc = "exited", ~fault, ToFile, Separate,
                      NEW p \in Named, Sound(p), Asked(p)
               PROVE  Done(p)
    BY DEF AllInflated, Sound, Asked, Done
  <2>1. PICK i \in 1..Len(cmd.files) : p = cmd.files[i]
    BY DEF Named
  <2>2. i \in 1..(f - 1)
    BY NamedType DEF IInv, TypeOK, JInv, Stages
  <2> QED BY <2>1, <2>2 DEF JInv, Passed, Working
<1> QED BY <1>1, Progress, Invariance, PTL
===============================================================================
