---------------------------- MODULE DownloadProofs ----------------------------
(***************************************************************************)
(* Theorems about downloads and pulls, for any number of models, parts,    *)
(* pulls and kills.                                                        *)
(*                                                                         *)
(* The argument: a download that is under way is the one in the manager,   *)
(* so that it has the part files and the partial file for itself           *)
(* (ControlInv).  While nobody starts with what a killed server left, the  *)
(* part files are all there, all gone or unreadable between downloads, and *)
(* a download that reads them is a download of all parts (DiskInv).  A     *)
(* DELETE removes the blob only after it has passed every manifest; one    *)
(* that it passed is not there, or was written later (LookInv).            *)
(***************************************************************************)
EXTENDS DownloadProperties, SequenceTheorems, FiniteSetTheorems, TLAPS

(* Types, as far as control depends on them.                               *)
ObjT ==
  [at : {"prepare", "abandoned", "start", "url", "chunks", "remove", "rename", "delete", "close", "done"},
   parts : [Parts -> Int], job : [Parts -> {"get", "save", "stop"}],
   tries : [Parts -> Nat], removed : Nat, refs : Nat,
   hasCancel : BOOLEAN, cancelled : BOOLEAN, failed : BOOLEAN]
PullT ==
  [at : {"none", "store", "prepare", "head", "newPart", "acquire", "wait", "verify", "manifest",
         "writing", "stuck"},
   obj : Nat, cacheHit : BOOLEAN]
FilesT ==
  [blob : {"absent", "good", "bad"}, parts : [Parts -> Int], partial : BOOLEAN,
   data : [Parts -> Int], len : Int, spoilt : BOOLEAN,
   manifests : [Models -> {"none", "torn", "ok"}]]
Types ==
  /\ files \in FilesT /\ objs \in Seq(ObjT) /\ manager \in 0 .. Len(objs)
  /\ pulls \in [Models -> PullT] /\ \A m \in Models : pulls[m].obj <= Len(objs)
  /\ robbed \subseteq Models /\ unpruned \in BOOLEAN

(* The pull that made a download prepares it.                              *)
Leads(m) == pulls[m].at \in {"prepare", "head", "newPart"}
LeaderInv ==
  /\ \A m \in Models : Leads(m) => pulls[m].obj # 0 /\ objs[pulls[m].obj].at = "prepare"
  /\ \A m1, m2 \in Models : Leads(m1) /\ Leads(m2) => m1 = m2

(* A download is in the manager until its run is over.                     *)
ManagerInv ==
  \A o \in 1 .. Len(objs) : objs[o].at \notin {"abandoned", "close", "done"} => manager = o

(* A pull that joins a download has not seen the blob.                     *)
JoinInv ==
  \A m \in Models :
    /\ pulls[m].at \in {"acquire", "wait"} => pulls[m].obj # 0
    /\ pulls[m].at \in {"store", "prepare", "head", "newPart", "acquire", "wait", "stuck"}
         => ~pulls[m].cacheHit

ControlInv == Types /\ LeaderInv /\ ManagerInv /\ JoinInv /\ RefsExact

(* The part files after n of them were made.                               *)
Prefix(n) == [k \in Parts |-> IF k < n THEN 0 ELSE Missing]

(* Prepare: the download's parts are the part files made so far.           *)
Preparing(m) ==
  LET parts == objs[pulls[m].obj].parts
  IN  /\ pulls[m].at \in {"prepare", "head"} => parts = Prefix(0)
      /\ pulls[m].at = "head" => files.parts = Prefix(0)
      /\ pulls[m].at = "newPart" => files.parts = parts /\ \E n \in 0 .. NParts - 1 : parts = Prefix(n)

(* run: the download is one of all parts, what it believes to be completed *)
(* is in the partial file, and it ends with everything.                    *)
Running(o) ==
  LET d == objs[o]
  IN  /\ d.at \in {"start", "url", "chunks"} =>
           \A k \in Parts : d.parts[k] \in 0 .. files.data[k] /\ files.parts[k] # Missing
      /\ d.at \in {"url", "chunks", "remove", "rename"} => files.len = NParts * PartSize
      /\ d.at \in {"prepare", "start", "url"} => ~d.failed /\ d.removed = 0
      /\ d.at = "chunks" =>
           /\ d.removed = 0
           /\ \A k \in Parts : d.job[k] = "stop" /\ ~d.failed => d.parts[k] = PartSize
      /\ d.at \in {"remove", "rename"} =>
           \A k \in Parts : files.data[k] = PartSize /\ d.parts[k] # Missing
      /\ d.at = "remove" =>
           /\ d.removed < NParts
           /\ \A k \in Parts : files.parts[k] = Missing <=> k < d.removed
      /\ d.at = "rename" => files.parts = Prefix(0)

(* Part files nobody works on: none, all of them, or one is unreadable.    *)
Settled ==
  \/ \A k \in Parts : files.parts[k] = Missing
  \/ \A k \in Parts : files.parts[k] # Missing
  \/ \E k \in Parts : files.parts[k] = Torn
SettledInv ==
  \/ Settled
  \/ \E m \in Models : pulls[m].at = "newPart"
  \/ \E o \in 1 .. Len(objs) : objs[o].at = "remove"

(* The partial file has what the part files record.                        *)
PartialInv ==
  /\ \A k \in Parts : files.data[k] \in 0 .. PartSize /\ files.parts[k] \in -2 .. files.data[k]
  /\ ~files.spoilt

(* What pulls have seen is there, unless it was deleted since.             *)
BlobInv ==
  /\ files.blob # "bad"
  /\ \A m \in Models \ robbed : HasSeen(m) \/ files.manifests[m] = "ok" => files.blob = "good"

DiskInv ==
  /\ \A m \in Models : Preparing(m)
  /\ \A o \in 1 .. Len(objs) : Running(o)
  /\ SettledInv /\ PartialInv /\ BlobInv

(* A DELETE that has passed a manifest has seen it missing or unreadable,  *)
(* and it still is.                                                        *)
LookInv ==
  /\ deleting \in [Models -> [Models -> Knowledge]]
  /\ \A d, q \in Models : deleting[d][q] = "passed" => files.manifests[q] # "ok"

DownloadInv == ControlInv /\ LookInv /\ (~unpruned => DiskInv)

-----------------------------------------------------------------------------
(* Lemmas about data.                                                      *)

(* Max and Min of two numbers.                                             *)
LEMMA MaxMin ==
  ASSUME NEW a \in Int, NEW b \in Int
  PROVE  /\ Max({a, b}) = IF a >= b THEN a ELSE b
         /\ Min({a, b}) = IF a <= b THEN a ELSE b
<1>1. Max({a, b}) \in {a, b} /\ \A y \in {a, b} : Max({a, b}) >= y
  <2>1. \E x \in {a, b} : \A y \in {a, b} : x >= y
    OBVIOUS
  <2> QED BY <2>1 DEF Max
<1>2. Min({a, b}) \in {a, b} /\ \A y \in {a, b} : Min({a, b}) <= y
  <2>1. \E x \in {a, b} : \A y \in {a, b} : x <= y
    OBVIOUS
  <2> QED BY <2>1 DEF Min
<1> QED BY <1>1, <1>2

(* A part ends where the next one begins, the last one with the blob.      *)
LEMMA PartEnds ==
  ASSUME NEW k \in Parts
  PROVE  k * PartSize \in Nat /\ NParts * PartSize \in Nat /\ k * PartSize + PartSize <= NParts * PartSize
<1>1. /\ k \in Nat /\ NParts \in Nat /\ PartSize \in Nat /\ NParts - 1 - k \in Nat
  BY DownloadAssumption DEF Parts
<1>2. \A x, y \in Nat : x * y \in Nat
  OBVIOUS
<1>3. (NParts - 1 - k) * PartSize \in Nat
  BY <1>1, <1>2
<1>4. (NParts - 1 - k) * PartSize = NParts * PartSize - PartSize - k * PartSize
  BY <1>1
<1> QED BY <1>1, <1>2, <1>3, <1>4

(* An element of a sequence is replaced.                                   *)
LEMMA ReplaceOne ==
  ASSUME NEW S, NEW s \in Seq(S), NEW o \in 1 .. Len(s), NEW e \in S, NEW t, t = [s EXCEPT ![o] = e]
  PROVE  /\ t \in Seq(S) /\ Len(t) = Len(s) /\ t[o] = e
         /\ \A p \in 1 .. Len(s) : p # o => t[p] = s[p]
  BY ExceptSeq

(* A value of a part changes.                                              *)
LEMMA PartsExcept ==
  ASSUME NEW g \in [Parts -> Int], NEW i, NEW v \in Int
  PROVE  [g EXCEPT ![i] = v] \in [Parts -> Int]
  OBVIOUS

(* Prefix(n) has n parts.                                                  *)
LEMMA PrefixSize ==
  ASSUME NEW n \in 0 .. NParts
  PROVE  Cardinality(Present(Prefix(n))) = n
<1>1. Present(Prefix(n)) = 0 .. n - 1
  BY DownloadAssumption DEF Present, Prefix, Parts, Missing
<1>2. Cardinality(0 .. n - 1) = n
  <2>1. n \in Nat
    BY DownloadAssumption
  <2> QED BY <2>1, FS_Interval
<1> QED BY <1>1, <1>2

(* No part files.                                                          *)
LEMMA PrefixNone ==
  ASSUME NEW p \in [Parts -> Int], \A k \in Parts : p[k] = Missing
  PROVE  p = Prefix(0)
<1>1. \A k \in Parts : ~(k < 0)
  BY DownloadAssumption DEF Parts
<1>2. Prefix(0) = [k \in Parts |-> Missing]
  BY <1>1 DEF Prefix
<1> QED BY <1>2

(* A download of all parts.                                                *)
LEMMA AllPresent ==
  ASSUME NEW parts, \A k \in Parts : parts[k] # Missing
  PROVE  Cardinality(Present(parts)) = NParts
<1>1. Present(parts) = 0 .. NParts - 1
  BY DEF Present, Parts
<1> QED BY <1>1, FS_Interval, DownloadAssumption

(* One more, or one less, of a finite set.                                 *)
LEMMA CountOne ==
  ASSUME NEW S, IsFiniteSet(S), NEW T, T \subseteq S, NEW x \in S
  PROVE  /\ IsFiniteSet(T) /\ Cardinality(T) \in Nat
         /\ x \notin T => Cardinality(T \cup {x}) = Cardinality(T) + 1
         /\ x \in T => Cardinality(T \ {x}) = Cardinality(T) - 1 /\ Cardinality(T) > 0
<1>1. IsFiniteSet(T)
  BY FS_Subset
<1>2. Cardinality(T) \in Nat
  BY <1>1, FS_CardinalityType
<1>3. x \notin T => Cardinality(T \cup {x}) = Cardinality(T) + 1
  BY <1>1, FS_AddElement
<1>4. x \in T => Cardinality(T \ {x}) = Cardinality(T) - 1
  BY <1>1, FS_RemoveElement
<1>5. x \in T => Cardinality(T) # 0
  BY <1>1, FS_EmptySet
<1> QED BY <1>1, <1>2, <1>3, <1>4, <1>5

-----------------------------------------------------------------------------
(* The shape of steps.                                                     *)

(* One download changes, or none.                                          *)
Touches(o) ==
  /\ objs' \in Seq(ObjT) /\ Len(objs') = Len(objs) /\ objs'[o] \in ObjT
  /\ \A p \in 1 .. Len(objs) : p # o => objs'[p] = objs[p]

(* One pull changes.                                                       *)
Moves(m) ==
  /\ pulls' \in [Models -> PullT]
  /\ \A q \in Models : q # m => pulls'[q] = pulls[q]

(* The pulls a download counts.                                            *)
Waiting(o) == {m \in Models : pulls[m].obj = o /\ pulls[m].at \in {"wait", "stuck"}}

(* Where run goes.                                                         *)
Advances(o) ==
  LET a == objs[o].at
      b == objs'[o].at
  IN  /\ a \in {"start", "url", "chunks", "remove", "rename", "delete", "close"}
      /\ b \in {"start", "url", "chunks", "remove", "rename", "delete", "close", "done"}
      /\ b \notin {"close", "done"} => a # "close" /\ manager' = manager
      /\ b = "close" => a = "delete" /\ manager' = 0
      /\ b = "done" => a = "close" /\ manager' = manager
      /\ objs'[o].refs = objs[o].refs
      /\ Touches(o) /\ files' \in FilesT /\ robbed' \in {robbed, {}}
      /\ pulls' = pulls /\ unpruned' = unpruned

(* The state of a download that no step changes.                           *)
LEMMA OneObj ==
  ASSUME Types, NEW o \in 1 .. Len(objs)
  PROVE  objs[o] \in ObjT /\ Len(objs) \in Nat
  BY ElementOfSeq, LenProperties DEF Types

(* EmptyPartial keeps the types.                                           *)
LEMMA EmptyPartialType ==
  ASSUME NEW f \in FilesT
  PROVE  /\ EmptyPartial(f) \in FilesT /\ EmptyPartial(f).parts = f.parts
         /\ EmptyPartial(f).blob = f.blob /\ EmptyPartial(f).manifests = f.manifests
         /\ EmptyPartial(f).data = [k \in Parts |-> 0] /\ EmptyPartial(f).spoilt = FALSE
<1> DEFINE zero == [k \in Parts |-> 0]
<1>1. zero \in [Parts -> Int]
  OBVIOUS
<1>2. EmptyPartial(f) = [f EXCEPT !.partial = FALSE, !.data = zero, !.len = 0, !.spoilt = FALSE]
  BY DEF EmptyPartial
<1> HIDE DEF zero
<1>3. EmptyPartial(f) \in FilesT
  <2>1. ASSUME NEW d \in [Parts -> Int], NEW b1 \in BOOLEAN, NEW b2 \in BOOLEAN, NEW n \in Int
        PROVE  [f EXCEPT !.partial = b1, !.data = d, !.len = n, !.spoilt = b2] \in FilesT
    BY DEF FilesT
  <2>2. FALSE \in BOOLEAN /\ 0 \in Int
    OBVIOUS
  <2>3. [f EXCEPT !.partial = FALSE, !.data = zero, !.len = 0, !.spoilt = FALSE] \in FilesT
    BY <1>1, <2>1, <2>2, Zenon
  <2> QED BY <1>2, <2>3, Zenon
<1>4. /\ EmptyPartial(f).parts = f.parts
      /\ EmptyPartial(f).blob = f.blob /\ EmptyPartial(f).manifests = f.manifests
      /\ EmptyPartial(f).data = zero
  BY <1>2 DEF FilesT
<1>5. EmptyPartial(f).spoilt = FALSE
  BY <1>2 DEF FilesT
<1> QED BY <1>3, <1>4, <1>5 DEF zero

(* So does Opened.                                                         *)
LEMMA OpenedType ==
  ASSUME NEW f \in FilesT, NEW total \in Int
  PROVE  /\ Opened(f, total) \in FilesT /\ Opened(f, total).parts = f.parts
         /\ Opened(f, total).blob = f.blob /\ Opened(f, total).manifests = f.manifests
         /\ Opened(f, total).len = total /\ Opened(f, total).spoilt = f.spoilt
         /\ \A k \in Parts : Opened(f, total).data[k] = Max({0, Min({f.data[k], total - k * PartSize})})
<1> DEFINE d == [k \in Parts |-> Max({0, Min({f.data[k], total - k * PartSize})})]
<1>1. ASSUME NEW k \in Parts PROVE Max({0, Min({f.data[k], total - k * PartSize})}) \in Int
  <2>1. f.data[k] \in Int /\ total - k * PartSize \in Int
    BY PartEnds DEF FilesT
  <2> DEFINE least == Min({f.data[k], total - k * PartSize})
  <2>2. least \in Int
    BY <2>1, MaxMin
  <2> HIDE DEF least
  <2>3. Max({0, least}) \in Int
    BY <2>2, MaxMin
  <2> QED BY <2>3 DEF least
<1>2. d \in [Parts -> Int]
  BY <1>1
<1>3. Opened(f, total) = [f EXCEPT !.partial = TRUE, !.len = total, !.data = d]
  BY DEF Opened
<1> HIDE DEF d
<1>4. /\ Opened(f, total) \in FilesT /\ Opened(f, total).parts = f.parts
      /\ Opened(f, total).blob = f.blob /\ Opened(f, total).manifests = f.manifests
      /\ Opened(f, total).len = total /\ Opened(f, total).spoilt = f.spoilt
      /\ Opened(f, total).data = d
  BY <1>2, <1>3 DEF FilesT
<1> QED BY <1>4 DEF d

(* A record of a download after an assignment.                             *)
LEMMA ObjFields ==
  ASSUME NEW d \in ObjT
  PROVE  /\ \A a \in {"start", "url", "chunks", "remove", "rename", "delete", "close"} :
              [d EXCEPT !.at = a] \in ObjT
         /\ \A p \in [Parts -> Int] : [d EXCEPT !.parts = p] \in ObjT
         /\ \A p \in [Parts -> {"get", "save", "stop"}] : [d EXCEPT !.job = p] \in ObjT
         /\ \A p \in [Parts -> Nat] : [d EXCEPT !.tries = p] \in ObjT
         /\ \A n \in Nat : [d EXCEPT !.refs = n] \in ObjT
         /\ \A n \in Nat : [d EXCEPT !.removed = n] \in ObjT
         /\ \A b \in BOOLEAN : [d EXCEPT !.failed = b] \in ObjT
         /\ \A b \in BOOLEAN : [d EXCEPT !.cancelled = b] \in ObjT
         /\ \A b \in BOOLEAN : [d EXCEPT !.hasCancel = b] \in ObjT
  BY DEF ObjT

(* A download that is made, abandoned or done.                             *)
LEMMA NewObjType ==
  ASSUME NEW n \in Nat, NEW b \in BOOLEAN, NEW c \in BOOLEAN,
         NEW a \in {"prepare", "abandoned", "done"}
  PROVE  NewObj \in ObjT /\ [NewObj EXCEPT !.at = a, !.refs = n, !.hasCancel = c, !.failed = b] \in ObjT
<1> DEFINE p == [k \in Parts |-> Missing]
           j == [k \in Parts |-> "get"]
           t == [k \in Parts |-> 0]
<1>1. p \in [Parts -> Int] /\ j \in [Parts -> {"get", "save", "stop"}] /\ t \in [Parts -> Nat]
  BY DEF Missing
<1>2. NewObj = [at |-> "prepare", parts |-> p, job |-> j, tries |-> t, removed |-> 0, refs |-> 0,
                hasCancel |-> FALSE, cancelled |-> FALSE, failed |-> FALSE]
  BY DEF NewObj
<1> HIDE DEF p, j, t
<1>3. \A x, y, z \in BOOLEAN :
        [at |-> "prepare", parts |-> p, job |-> j, tries |-> t, removed |-> 0, refs |-> 0,
         hasCancel |-> x, cancelled |-> y, failed |-> z] \in ObjT
  BY <1>1 DEF ObjT
<1>4. FALSE \in BOOLEAN
  OBVIOUS
<1>5. NewObj \in ObjT
  BY <1>2, <1>3, <1>4, Zenon
<1>6. \A d \in ObjT : [d EXCEPT !.at = a, !.refs = n, !.hasCancel = c, !.failed = b] \in ObjT
  BY DEF ObjT
<1> QED BY <1>5, <1>6, Zenon

(* The steps of run that touch no file.                                    *)
LEMMA QuietRunShape ==
  ASSUME Types, NEW o \in 1 .. Len(objs),
         RunUrl(o) \/ RunFails(o) \/ ChunksDone(o) \/ RunDelete(o) \/ RunClose(o)
  PROVE  Advances(o) /\ files' = files
<1>1. objs[o] \in ObjT /\ objs \in Seq(ObjT) /\ files \in FilesT
  BY OneObj DEF Types
<1> DEFINE d == objs[o]
<1>2. CASE RunUrl(o)
  <2> DEFINE j == [k \in Parts |-> IF d.parts[k] \in 0 .. PartSize - 1 THEN "get" ELSE "stop"]
  <2>1. PICK ok \in BOOLEAN :
          /\ d.at = "url" /\ (ok => ~d.cancelled)
          /\ objs' = [objs EXCEPT ![o] =
               [d EXCEPT !.at = IF ok THEN "chunks" ELSE "delete", !.failed = ~ok, !.job = j]]
          /\ UNCHANGED <<files, manager, pulls, deleting, robbed, unpruned, counts>>
    BY <1>2, ZenonT(40) DEF RunUrl
  <2> DEFINE e == [d EXCEPT !.at = IF ok THEN "chunks" ELSE "delete", !.failed = ~ok, !.job = j]
  <2>2. j \in [Parts -> {"get", "save", "stop"}]
    OBVIOUS
  <2> HIDE DEF j
  <2>3. e \in ObjT /\ e.at \in {"chunks", "delete"} /\ e.refs = d.refs
    BY <1>1, <2>2 DEF ObjT
  <2>5. objs' = [objs EXCEPT ![o] = e]
    BY <2>1
  <2> HIDE DEF e
  <2>4. Touches(o) /\ objs'[o] = e
    BY <1>1, <2>3, <2>5, ReplaceOne DEF Touches
  <2> QED BY <1>1, <2>1, <2>3, <2>4 DEF Advances
<1>3. CASE ChunksDone(o)
  <2> DEFINE e == [d EXCEPT !.at = IF d.failed THEN "delete" ELSE "remove"]
  <2>1. /\ d.at = "chunks" /\ objs' = [objs EXCEPT ![o] = e]
        /\ UNCHANGED <<files, manager, pulls, deleting, robbed, unpruned, counts>>
    BY <1>3 DEF ChunksDone
  <2>2. e \in ObjT /\ e.at \in {"delete", "remove"} /\ e.refs = d.refs
    BY <1>1 DEF ObjT
  <2>3. Touches(o) /\ objs'[o] = e
    BY <1>1, <2>1, <2>2, ReplaceOne, SMTT(40) DEF Touches
  <2> QED BY <1>1, <2>1, <2>2, <2>3 DEF Advances
<1>4. CASE RunDelete(o)
  <2> DEFINE e == [d EXCEPT !.at = "close"]
  <2>1. /\ d.at = "delete" /\ objs' = [objs EXCEPT ![o] = e] /\ manager' = 0
        /\ UNCHANGED <<files, pulls, deleting, robbed, unpruned, counts>>
    BY <1>4 DEF RunDelete
  <2>2. e \in ObjT /\ e.at = "close" /\ e.refs = d.refs
    BY <1>1 DEF ObjT
  <2>3. Touches(o) /\ objs'[o] = e
    BY <1>1, <2>1, <2>2, ReplaceOne DEF Touches
  <2> QED BY <1>1, <2>1, <2>2, <2>3 DEF Advances
<1>5. CASE RunClose(o)
  <2> DEFINE e == [NewObj EXCEPT !.at = "done", !.refs = d.refs, !.hasCancel = TRUE, !.failed = d.failed]
  <2>1. /\ d.at = "close" /\ objs' = [objs EXCEPT ![o] = e]
        /\ UNCHANGED <<files, manager, pulls, deleting, robbed, unpruned, counts>>
    BY <1>5 DEF RunClose
  <2>2. d.refs \in Nat /\ d.failed \in BOOLEAN
    BY <1>1 DEF ObjT
  <2>3. e \in ObjT
    BY <2>2, NewObjType
  <2>4. e.at = "done" /\ e.refs = d.refs
    BY DEF NewObj
  <2>5. objs' = [objs EXCEPT ![o] = e]
    BY <2>1
  <2> HIDE DEF e
  <2>6. Touches(o) /\ objs'[o] = e
    BY <1>1, <2>3, <2>5, ReplaceOne DEF Touches
  <2> QED BY <1>1, <2>1, <2>4, <2>6 DEF Advances
<1>6. CASE RunFails(o)
  <2> DEFINE e == [d EXCEPT !.at = "delete", !.hasCancel = TRUE, !.failed = TRUE]
  <2>1. /\ d.at \in {"start", "remove", "rename"} /\ objs' = [objs EXCEPT ![o] = e]
        /\ UNCHANGED <<files, manager, pulls, deleting, robbed, unpruned, counts>>
    BY <1>6 DEF RunFails
  <2>2. e \in ObjT /\ e.at = "delete" /\ e.refs = d.refs
    BY <1>1 DEF ObjT
  <2>3. objs' = [objs EXCEPT ![o] = e]
    BY <2>1
  <2> HIDE DEF e
  <2>4. Touches(o) /\ objs'[o] = e
    BY <1>1, <2>2, <2>3, ReplaceOne DEF Touches
  <2> QED BY <1>1, <2>1, <2>2, <2>4 DEF Advances
<1> QED BY <1>2, <1>3, <1>4, <1>5, <1>6

(* The start of run.                                                       *)
LEMMA RunStartShape ==
  ASSUME Types, NEW o \in 1 .. Len(objs), RunStart(o)
  PROVE  /\ Advances(o) /\ objs[o].at = "start" /\ objs'[o].at = "url"
         /\ objs'[o].parts = objs[o].parts /\ objs'[o].removed = objs[o].removed
         /\ objs'[o].failed = objs[o].failed
         /\ Total(o) \in Int /\ files' = Opened(files, Total(o)) /\ robbed' = robbed
<1>1. objs[o] \in ObjT /\ objs \in Seq(ObjT) /\ files \in FilesT
  BY OneObj DEF Types
<1> DEFINE d == objs[o]
           e == [d EXCEPT !.at = "url", !.hasCancel = TRUE]
<1>2. /\ d.at = "start" /\ objs' = [objs EXCEPT ![o] = e] /\ files' = Opened(files, Total(o))
      /\ UNCHANGED <<manager, pulls, deleting, robbed, unpruned, counts>>
  BY DEF RunStart
<1>3. /\ e \in ObjT /\ e.at = "url" /\ e.refs = d.refs /\ e.parts = d.parts /\ e.removed = d.removed
      /\ e.failed = d.failed
  BY <1>1 DEF ObjT
<1> HIDE DEF e
<1>4. Touches(o) /\ objs'[o] = e
  BY <1>1, <1>2, <1>3, ReplaceOne DEF Touches
<1>5. Total(o) \in Int
  <2>1. Present(d.parts) \subseteq 0 .. NParts - 1
    BY DEF Present, Parts
  <2>2. IsFiniteSet(0 .. NParts - 1)
    BY FS_Interval, DownloadAssumption
  <2>3. Cardinality(Present(d.parts)) \in Nat
    BY <2>1, <2>2, FS_Subset, FS_CardinalityType
  <2> QED BY <2>3, DownloadAssumption DEF Total
<1>6. files' \in FilesT
  BY <1>1, <1>2, <1>5, OpenedType
<1> QED BY <1>2, <1>3, <1>4, <1>5, <1>6 DEF Advances

(* A part file is removed.                                                 *)
LEMMA RemovePartShape ==
  ASSUME Types, NEW o \in 1 .. Len(objs), RemovePart(o)
  PROVE  LET i == objs[o].removed
             ok == files.parts[i] # Missing
         IN  /\ Advances(o) /\ objs[o].at = "remove" /\ robbed' = robbed
             /\ files' = [files EXCEPT !.parts = [files.parts EXCEPT ![i] = Missing]]
             /\ objs'[o].parts = objs[o].parts /\ objs'[o].removed = i + 1
             /\ objs'[o].at = IF ~ok THEN "delete"
                              ELSE IF i + 1 = Cardinality(Present(objs[o].parts)) THEN "rename" ELSE "remove"
<1>1. objs[o] \in ObjT /\ objs \in Seq(ObjT) /\ files \in FilesT
  BY OneObj DEF Types
<1> DEFINE d == objs[o]
           i == d.removed
           ok == files.parts[i] # Missing
           a == IF ~ok THEN "delete"
                ELSE IF i + 1 = Cardinality(Present(d.parts)) THEN "rename" ELSE "remove"
           e == [d EXCEPT !.removed = i + 1, !.failed = ~ok, !.at = a]
<1>2. /\ d.at = "remove" /\ files' = [files EXCEPT !.parts = [files.parts EXCEPT ![i] = Missing]]
      /\ objs' = [objs EXCEPT ![o] = e] /\ UNCHANGED <<manager, pulls, deleting, robbed, unpruned, counts>>
  BY DEF RemovePart
<1>3. i + 1 \in Nat /\ (~ok) \in BOOLEAN /\ a \in {"delete", "rename", "remove"}
  BY <1>1 DEF ObjT
<1> HIDE DEF a, ok
<1>4. e \in ObjT /\ e.at = a /\ e.refs = d.refs /\ e.parts = d.parts /\ e.removed = i + 1
  BY <1>1, <1>3 DEF ObjT
<1> HIDE DEF e
<1>5. Touches(o) /\ objs'[o] = e
  BY <1>1, <1>2, <1>4, ReplaceOne DEF Touches
<1>6. files' \in FilesT
  <2>1. files.parts \in [Parts -> Int] /\ Missing \in Int
    BY <1>1 DEF FilesT, Missing
  <2>2. [files.parts EXCEPT ![i] = Missing] \in [Parts -> Int]
    BY <2>1
  <2> QED BY <1>1, <1>2, <2>2 DEF FilesT
<1> QED BY <1>2, <1>3, <1>4, <1>5, <1>6 DEF Advances, a, ok

(* The partial file becomes the blob.                                      *)
LEMMA RenameShape ==
  ASSUME Types, NEW o \in 1 .. Len(objs), Rename(o)
  PROVE  /\ Advances(o) /\ objs[o].at = "rename" /\ objs'[o].at = "delete"
         /\ files'.blob = IF Whole(files) THEN "good" ELSE "bad"
         /\ files'.parts = files.parts /\ files'.manifests = files.manifests
         /\ files'.data = [k \in Parts |-> 0] /\ files'.spoilt = FALSE
         /\ robbed' = IF files'.blob = "good" THEN {} ELSE robbed
<1>1. objs[o] \in ObjT /\ objs \in Seq(ObjT) /\ files \in FilesT
  BY OneObj DEF Types
<1> DEFINE d == objs[o]
           e == [d EXCEPT !.at = "delete"]
           f == EmptyPartial(files)
           b == IF Whole(files) THEN "good" ELSE "bad"
<1>2. /\ d.at = "rename" /\ objs' = [objs EXCEPT ![o] = e] /\ files' = [f EXCEPT !.blob = b]
      /\ robbed' = (IF files'.blob = "good" THEN {} ELSE robbed)
      /\ UNCHANGED <<manager, pulls, deleting, unpruned, counts>>
  BY DEF Rename
<1>3. e \in ObjT /\ e.at = "delete" /\ e.refs = d.refs
  BY <1>1 DEF ObjT
<1> HIDE DEF e
<1>4. Touches(o) /\ objs'[o] = e
  BY <1>1, <1>2, <1>3, ReplaceOne DEF Touches
<1>5. /\ f \in FilesT /\ f.parts = files.parts /\ f.manifests = files.manifests
      /\ f.data = [k \in Parts |-> 0] /\ f.spoilt = FALSE
  BY <1>1, EmptyPartialType
<1>6. b \in {"good", "bad"}
  OBVIOUS
<1> HIDE DEF f, b
<1>7. /\ files' \in FilesT /\ files'.blob = b /\ files'.parts = f.parts
      /\ files'.manifests = f.manifests /\ files'.data = f.data /\ files'.spoilt = f.spoilt
  BY <1>2, <1>5, <1>6 DEF FilesT
<1> QED BY <1>2, <1>3, <1>4, <1>5, <1>7 DEF Advances, b

-----------------------------------------------------------------------------
(* The goroutines of the parts.                                            *)

(* Bytes arrive.                                                           *)
LEMMA ChunkShape ==
  ASSUME Types, NEW o \in 1 .. Len(objs), NEW k \in Parts, Chunk(o, k)
  PROVE  /\ Advances(o) /\ objs[o].at = "chunks" /\ objs'[o].at = "chunks" /\ robbed' = robbed
         /\ objs[o].job[k] = "get" /\ objs'[o].job = [objs[o].job EXCEPT ![k] = "save"]
         /\ objs'[o].failed = objs[o].failed /\ objs'[o].removed = objs[o].removed
         /\ \E n \in 1 .. PartSize - objs[o].parts[k], right \in Deliveries :
              /\ objs'[o].parts = [objs[o].parts EXCEPT ![k] = objs[o].parts[k] + n]
              /\ files'.data = [files.data EXCEPT ![k] = Max({files.data[k], objs[o].parts[k] + n})]
              /\ files'.len = Max({files.len, k * PartSize + objs[o].parts[k] + n})
              /\ files'.spoilt = (files.spoilt \/ ~right)
         /\ files'.blob = files.blob /\ files'.parts = files.parts /\ files'.manifests = files.manifests
<1>1. objs[o] \in ObjT /\ objs \in Seq(ObjT) /\ files \in FilesT
  BY OneObj DEF Types
<1> DEFINE d == objs[o]
<1>2. PICK n \in 1 .. PartSize - objs[o].parts[k], right \in Deliveries :
        /\ objs[o].at = "chunks" /\ objs[o].job[k] = "get" /\ ~Stopped(o)
        /\ files' = [files EXCEPT !.data[k] = Max({@, objs[o].parts[k] + n}),
                                  !.len = Max({@, k * PartSize + objs[o].parts[k] + n}),
                                  !.spoilt = @ \/ ~right]
        /\ objs' = [objs EXCEPT ![o].parts[k] = @ + n, ![o].job[k] = "save"]
        /\ UNCHANGED <<manager, pulls, deleting, robbed, unpruned, counts>>
  BY DEF Chunk
<1> DEFINE p == [d.parts EXCEPT ![k] = d.parts[k] + n]
           j == [d.job EXCEPT ![k] = "save"]
           e == [d EXCEPT !.parts = p, !.job = j]
           x == [files.data EXCEPT ![k] = Max({files.data[k], d.parts[k] + n})]
           l == Max({files.len, k * PartSize + d.parts[k] + n})
           s == files.spoilt \/ ~right
<1>3. d.parts[k] \in Int /\ n \in Int /\ k * PartSize \in Int /\ files.data[k] \in Int /\ files.len \in Int
  <2>1. d.parts \in [Parts -> Int] /\ files.data \in [Parts -> Int] /\ files.len \in Int
    BY <1>1 DEF ObjT, FilesT
  <2>2. d.parts[k] \in Int /\ n \in Int
    BY <2>1, DownloadAssumption
  <2> QED BY <2>1, <2>2, PartEnds
<1>4. /\ p \in [Parts -> Int] /\ j \in [Parts -> {"get", "save", "stop"}]
  <2>1. d.parts \in [Parts -> Int] /\ d.job \in [Parts -> {"get", "save", "stop"}]
    BY <1>1 DEF ObjT
  <2> QED BY <1>3, <2>1
<1>5. Max({files.data[k], d.parts[k] + n}) \in Int /\ l \in Int
  <2>1. \A a, b \in Int : Max({a, b}) \in Int
    BY MaxMin
  <2>2. d.parts[k] + n \in Int /\ k * PartSize + d.parts[k] + n \in Int
    BY <1>3
  <2> QED BY <1>3, <2>1, <2>2
<1>6. x \in [Parts -> Int]
  BY <1>1, <1>5 DEF FilesT
<1>7. s \in BOOLEAN
  OBVIOUS
<1>8. objs' = [objs EXCEPT ![o] = e] /\ files' = [files EXCEPT !.data = x, !.len = l, !.spoilt = s]
  <2>1. o \in DOMAIN objs
    BY <1>1
  <2> QED BY <1>1, <1>2, <2>1 DEF FilesT, ObjT
<1> HIDE DEF p, j, x, l, s
<1>9. /\ e \in ObjT /\ e.at = d.at /\ e.parts = p /\ e.job = j /\ e.refs = d.refs /\ e.failed = d.failed
      /\ e.removed = d.removed
  BY <1>1, <1>4 DEF ObjT
<1>10. /\ files' \in FilesT /\ files'.data = x /\ files'.len = l /\ files'.spoilt = s
       /\ files'.blob = files.blob /\ files'.parts = files.parts /\ files'.manifests = files.manifests
  BY <1>1, <1>5, <1>6, <1>7, <1>8 DEF FilesT
<1> HIDE DEF e
<1>11. Touches(o) /\ objs'[o] = e
  BY <1>1, <1>8, <1>9, ReplaceOne DEF Touches
<1>12. Advances(o)
  BY <1>2, <1>9, <1>10, <1>11 DEF Advances
<1> QED BY <1>2, <1>9, <1>10, <1>11, <1>12 DEF p, j, x, l, s

(* A part file is written, or not, or wrongly; a try ends.                 *)
LEMMA PartShape ==
  ASSUME Types, NEW o \in 1 .. Len(objs), NEW k \in Parts,
         SavePart(o, k) \/ ChunkFails(o, k) \/ SaveFails(o, k) \/ ChunkDone(o, k) \/ ChunkCancelled(o, k)
  PROVE  /\ Advances(o) /\ objs[o].at = "chunks" /\ objs'[o].at = "chunks" /\ robbed' = robbed
         /\ objs'[o].parts = objs[o].parts /\ objs'[o].removed = objs[o].removed
         /\ \A j \in Parts : objs'[o].job[j] = "stop" /\ ~objs'[o].failed =>
              ~objs[o].failed /\ (objs[o].job[j] = "stop" \/ objs[o].parts[j] = PartSize)
         /\ \/ files' = files
            \/ files' = [files EXCEPT !.parts = [files.parts EXCEPT ![k] = objs[o].parts[k]]]
            \/ files' = [files EXCEPT !.parts = [files.parts EXCEPT ![k] = Torn]]
<1>1. objs[o] \in ObjT /\ objs \in Seq(ObjT) /\ files \in FilesT /\ o \in DOMAIN objs
  BY OneObj DEF Types
<1> DEFINE d == objs[o]
<1>2. d.parts \in [Parts -> Int] /\ files.parts \in [Parts -> Int] /\ d.job \in [Parts -> {"get", "save", "stop"}]
      /\ d.tries \in [Parts -> Nat] /\ d.failed \in BOOLEAN
  BY <1>1 DEF ObjT, FilesT
<1>3. /\ d.at = "chunks" /\ UNCHANGED <<manager, pulls, deleting, robbed, unpruned, counts>>
      /\ \/ files' = files
         \/ files' = [files EXCEPT !.parts = [files.parts EXCEPT ![k] = d.parts[k]]]
         \/ files' = [files EXCEPT !.parts = [files.parts EXCEPT ![k] = Torn]]
  BY DEF SavePart, ChunkFails, SaveFails, ChunkDone, ChunkCancelled, Damaged
<1>4. \E j \in [Parts -> {"get", "save", "stop"}], t \in [Parts -> Nat], b \in BOOLEAN :
        /\ objs' = [objs EXCEPT ![o] = [d EXCEPT !.job = j, !.tries = t, !.failed = b]]
        /\ \A i \in Parts : j[i] = "stop" /\ ~b => ~d.failed /\ (d.job[i] = "stop" \/ d.parts[i] = PartSize)
  <2>0. \A s \in {"get", "save", "stop"} : [d.job EXCEPT ![k] = s] \in [Parts -> {"get", "save", "stop"}]
    BY <1>2
  <2>1. CASE SavePart(o, k)
    <3>1. objs' = [objs EXCEPT ![o] = [d EXCEPT !.job = [d.job EXCEPT ![k] = "get"], !.tries = d.tries,
                                                !.failed = d.failed]]
      BY <1>1, <2>1 DEF SavePart, ObjT
    <3>2. \A i \in Parts : [d.job EXCEPT ![k] = "get"][i] = "stop" /\ ~d.failed
            => ~d.failed /\ (d.job[i] = "stop" \/ d.parts[i] = PartSize)
      BY <1>2
    <3> QED BY <1>2, <2>0, <3>1, <3>2
  <2>2. CASE ChunkDone(o, k)
    <3>1. /\ d.parts[k] = PartSize
          /\ objs' = [objs EXCEPT ![o] = [d EXCEPT !.job = [d.job EXCEPT ![k] = "stop"], !.tries = d.tries,
                                                !.failed = d.failed]]
      BY <1>1, <2>2 DEF ChunkDone, ObjT
    <3>2. \A i \in Parts : [d.job EXCEPT ![k] = "stop"][i] = "stop" /\ ~d.failed
            => ~d.failed /\ (d.job[i] = "stop" \/ d.parts[i] = PartSize)
      BY <1>2, <3>1
    <3> QED BY <1>2, <2>0, <3>1, <3>2
  <2>3. CASE ChunkCancelled(o, k)
    <3>1. objs' = [objs EXCEPT ![o] = [d EXCEPT !.job = [d.job EXCEPT ![k] = "stop"], !.tries = d.tries,
                                                !.failed = TRUE]]
      BY <1>1, <2>3 DEF ChunkCancelled, ObjT
    <3>2. TRUE \in BOOLEAN
      OBVIOUS
    <3> QED BY <1>2, <2>0, <3>1, <3>2
  <2>4. ASSUME NEW s \in {"get", "save"}, TryFails(o, k, s)
        PROVE  \E j \in [Parts -> {"get", "save", "stop"}], t \in [Parts -> Nat], b \in BOOLEAN :
                 /\ objs' = [objs EXCEPT ![o] = [d EXCEPT !.job = j, !.tries = t, !.failed = b]]
                 /\ \A i \in Parts : j[i] = "stop" /\ ~b =>
                      ~d.failed /\ (d.job[i] = "stop" \/ d.parts[i] = PartSize)
    <3>0. PICK full \in {FALSE, "write" \in DiskFaults} :
            LET last == full \/ d.tries[k] + 1 = MaxRetries
            IN  objs' = [objs EXCEPT ![o].tries[k] = @ + 1, ![o].failed = @ \/ last,
                                     ![o].job[k] = IF last THEN "stop" ELSE s]
      BY <2>4, Zenon DEF TryFails
    <3> DEFINE last == full \/ d.tries[k] + 1 = MaxRetries
               j == [d.job EXCEPT ![k] = IF last THEN "stop" ELSE s]
               t == [d.tries EXCEPT ![k] = d.tries[k] + 1]
               b == d.failed \/ last
    <3>1. objs' = [objs EXCEPT ![o] = [d EXCEPT !.tries = t, !.failed = b, !.job = j]]
      BY <1>1, <3>0 DEF ObjT
    <3> b \in BOOLEAN
      OBVIOUS
    <3> j \in [Parts -> {"get", "save", "stop"}] /\ t \in [Parts -> Nat]
      BY <1>2, SMTT(40)
    <3>4. \A i \in Parts : j[i] = "stop" /\ ~b => ~d.failed /\ (d.job[i] = "stop" \/ d.parts[i] = PartSize)
      BY <1>2
    <3> HIDE DEF j, t, b
    <3>5. [d EXCEPT !.tries = t, !.failed = b, !.job = j] = [d EXCEPT !.job = j, !.tries = t, !.failed = b]
      BY <1>1 DEF ObjT
    <3>6. objs' = [objs EXCEPT ![o] = [d EXCEPT !.job = j, !.tries = t, !.failed = b]]
      BY <3>1, <3>5
    <3> WITNESS j \in [Parts -> {"get", "save", "stop"}], t \in [Parts -> Nat], b \in BOOLEAN
    <3> QED BY <3>4, <3>6
  <2>5. CASE ChunkFails(o, k)
    BY <2>4, <2>5 DEF ChunkFails
  <2>6. CASE SaveFails(o, k)
    <3>1. TryFails(o, k, IF d.parts[k] = PartSize THEN "save" ELSE "get")
      BY <2>6 DEF SaveFails
    <3>2. CASE d.parts[k] = PartSize
      BY <2>4, <3>1, <3>2
    <3>3. CASE d.parts[k] # PartSize
      BY <2>4, <3>1, <3>3
    <3> QED BY <3>2, <3>3
  <2> QED BY <2>1, <2>2, <2>3, <2>5, <2>6
<1>5. PICK j \in [Parts -> {"get", "save", "stop"}], t \in [Parts -> Nat], b \in BOOLEAN :
        /\ objs' = [objs EXCEPT ![o] = [d EXCEPT !.job = j, !.tries = t, !.failed = b]]
        /\ \A i \in Parts : j[i] = "stop" /\ ~b => ~d.failed /\ (d.job[i] = "stop" \/ d.parts[i] = PartSize)
  BY <1>4
<1> DEFINE e == [d EXCEPT !.job = j, !.tries = t, !.failed = b]
<1>6. /\ e \in ObjT /\ e.at = d.at /\ e.parts = d.parts /\ e.removed = d.removed /\ e.refs = d.refs
      /\ e.job = j /\ e.failed = b
  BY <1>1 DEF ObjT
<1>7. objs' = [objs EXCEPT ![o] = e]
  BY <1>5
<1> HIDE DEF e
<1>8. Touches(o) /\ objs'[o] = e
  BY <1>1, <1>6, <1>7, ReplaceOne DEF Touches
<1>9. files' \in FilesT
  <2>1. \A v \in Int : [files.parts EXCEPT ![k] = v] \in [Parts -> Int]
    BY <1>2
  <2>2. d.parts[k] \in Int /\ Torn \in Int
    BY <1>2 DEF Torn
  <2>3. \A p \in [Parts -> Int] : [files EXCEPT !.parts = p] \in FilesT
    BY <1>1 DEF FilesT
  <2> QED BY <1>1, <1>3, <2>1, <2>2, <2>3, SMTT(40)
<1>10. Advances(o)
  BY <1>3, <1>6, <1>8, <1>9 DEF Advances
<1>11. \A i \in Parts : objs'[o].job[i] = "stop" /\ ~objs'[o].failed =>
         ~d.failed /\ (d.job[i] = "stop" \/ d.parts[i] = PartSize)
  BY <1>5, <1>6, <1>8
<1> QED BY <1>3, <1>6, <1>8, <1>10, <1>11

(* Every step of run.                                                      *)
LEMMA RunShape ==
  ASSUME Types, NEW o \in 1 .. Len(objs), Run(o)
  PROVE  Advances(o)
  BY QuietRunShape, RunStartShape, RemovePartShape, RenameShape, ChunkShape, PartShape DEF Run

(* What the steps of run keep.                                             *)
LEMMA RunControl ==
  ASSUME ControlInv, NEW o \in 1 .. Len(objs), Advances(o)
  PROVE  ControlInv'
<1>t. Types /\ objs \in Seq(ObjT) /\ Len(objs) \in Nat
  BY LenProperties DEF ControlInv, Types
<1>1. /\ Touches(o) /\ pulls' = pulls /\ objs'[o].refs = objs[o].refs
      /\ objs[o].at \notin {"prepare", "abandoned", "done"} /\ objs'[o].at # "prepare"
      /\ unpruned' = unpruned /\ robbed' \in {robbed, {}} /\ files' \in FilesT
  BY DEF Advances
<1>2. Len(objs') = Len(objs) /\ \A p \in 1 .. Len(objs) : p # o => objs'[p] = objs[p]
  BY <1>1 DEF Touches
<1>3. Types'
  <2>1. manager' \in 0 .. Len(objs)
    BY <1>t DEF Advances, Types
  <2> QED BY <1>t, <1>1, <1>2, <2>1 DEF Types, Touches
<1>4. LeaderInv'
  <2>1. \A m \in Models : Leads(m) => pulls[m].obj \in 1 .. Len(objs) /\ pulls[m].obj # o
    BY <1>t, <1>1 DEF ControlInv, LeaderInv, Types, PullT
  <2>2. \A m \in Models : Leads(m)' <=> Leads(m)
    BY <1>1 DEF Leads
  <2> QED BY <1>1, <1>2, <2>1, <2>2 DEF ControlInv, LeaderInv
<1>5. ManagerInv'
  <2> SUFFICES ASSUME NEW p \in 1 .. Len(objs), objs'[p].at \notin {"abandoned", "close", "done"}
               PROVE  manager' = p
    BY <1>2 DEF ManagerInv
  <2>1. CASE p = o
    BY <2>1 DEF Advances, ControlInv, ManagerInv
  <2>2. CASE p # o
    <3>1. manager = p /\ (objs[o].at \in {"abandoned", "close", "done"} \/ manager = o)
      BY <1>2, <2>2 DEF ControlInv, ManagerInv
    <3>2. objs[o].at = "close"
      BY <1>1, <2>2, <3>1
    <3> QED BY <3>1, <3>2 DEF Advances
  <2> QED BY <2>1, <2>2
<1>6. JoinInv'
  BY <1>1 DEF ControlInv, JoinInv
<1>7. RefsExact'
  <2>1. \A p \in 1 .. Len(objs) : objs'[p].refs = objs[p].refs
    BY <1>1, <1>2
  <2>2. \A p \in 1 .. Len(objs) : objs[p].refs = Cardinality({m \in Models : pulls[m].obj = p /\ pulls[m].at \in {"wait", "stuck"}})
    BY DEF ControlInv, RefsExact
  <2>3. \A p \in 1 .. Len(objs) : objs'[p].refs = Cardinality({m \in Models : pulls'[m].obj = p /\ pulls'[m].at \in {"wait", "stuck"}})
    BY <1>1, <2>1, <2>2
  <2> QED BY <1>2, <2>3 DEF RefsExact
<1> QED BY <1>3, <1>4, <1>5, <1>6, <1>7 DEF ControlInv

(* References stay when no counted pull comes or goes.                     *)
LEMMA SameWaiting ==
  ASSUME Types, NEW m \in Models, Moves(m), NEW o,
         \/ pulls'[m].obj = pulls[m].obj /\ (pulls[m].at \in {"wait", "stuck"} <=> pulls'[m].at \in {"wait", "stuck"})
         \/ (pulls[m].at \notin {"wait", "stuck"} \/ pulls[m].obj # o)
            /\ (pulls'[m].at \notin {"wait", "stuck"} \/ pulls'[m].obj # o)
  PROVE  Waiting(o)' = Waiting(o)
<1>1. \A q \in Models : q \in Waiting(o)' <=> q \in Waiting(o)
  BY DEF Waiting, Moves
<1> QED BY <1>1 DEF Waiting

(* The steps of a pull that leave all downloads alone.                     *)
LEMMA PullControl ==
  ASSUME ControlInv, NEW m \in Models, Moves(m), objs' = objs, manager' = manager,
         files' \in FilesT, robbed' \subseteq Models, unpruned' \in BOOLEAN,
         pulls'[m].obj \in {pulls[m].obj, 0},
         Leads(m)' => Leads(m) /\ pulls'[m].obj = pulls[m].obj,
         pulls'[m].at \in {"acquire", "wait"} =>
           pulls[m].at \in {"prepare", "head", "newPart", "acquire", "wait"} /\ pulls'[m].obj = pulls[m].obj,
         pulls'[m].cacheHit => pulls'[m].at \in {"none", "verify", "manifest", "writing"},
         \A o \in 1 .. Len(objs) : Waiting(o)' = Waiting(o)
  PROVE  ControlInv'
<1>t. Types /\ Len(objs) \in Nat
  BY LenProperties DEF ControlInv, Types
<1>1. \A q \in Models : q # m => pulls'[q] = pulls[q]
  BY DEF Moves
<1>2. Types'
  <2>1. \A q \in Models : pulls'[q].obj <= Len(objs)
    BY <1>t, <1>1 DEF Types
  <2> QED BY <1>t, <2>1 DEF Types, Moves
<1>3. LeaderInv'
  <2>1. \A q \in Models : Leads(q)' => Leads(q) /\ pulls'[q].obj = pulls[q].obj
    BY <1>1 DEF Leads
  <2> QED BY <2>1 DEF ControlInv, LeaderInv
<1>4. ManagerInv'
  BY DEF ControlInv, ManagerInv
<1>5. JoinInv'
  BY <1>1 DEF ControlInv, JoinInv, LeaderInv, Leads
<1>6. RefsExact'
  <2>1. \A o \in 1 .. Len(objs) : objs[o].refs = Cardinality(Waiting(o))
    BY DEF ControlInv, RefsExact, Waiting
  <2>2. \A o \in 1 .. Len(objs) : objs'[o].refs = Cardinality(Waiting(o)')
    BY <2>1
  <2> QED BY <2>2 DEF RefsExact, Waiting
<1> QED BY <1>2, <1>3, <1>4, <1>5, <1>6 DEF ControlInv

(* A pull goes on.                                                         *)
LEMMA GoesShape ==
  ASSUME Types, NEW m \in Models,
         NEW a \in {"store", "prepare", "head", "newPart", "acquire", "wait", "verify", "manifest",
                    "writing", "stuck"},
         pulls' = Goes(m, a)
  PROVE  /\ Moves(m) /\ pulls'[m].at = a /\ pulls'[m].obj = pulls[m].obj
         /\ pulls'[m].cacheHit = pulls[m].cacheHit
<1>1. pulls \in [Models -> PullT] /\ pulls[m] \in PullT
  BY DEF Types
<1>2. pulls' = [pulls EXCEPT ![m] = [pulls[m] EXCEPT !.at = a]]
  BY DEF Goes
<1>3. [pulls[m] EXCEPT !.at = a] \in PullT
  BY <1>1 DEF PullT
<1>4. pulls'[m] = [pulls[m] EXCEPT !.at = a] /\ \A q \in Models : q # m => pulls'[q] = pulls[q]
  BY <1>1, <1>2
<1> QED BY <1>1, <1>2, <1>3, <1>4 DEF Moves, PullT

(* A pull ends.                                                            *)
LEMMA EndedShape ==
  ASSUME Types, NEW m \in Models, pulls' = Ended(m)
  PROVE  Moves(m) /\ pulls'[m] = NoPull
<1>1. pulls \in [Models -> PullT]
  BY DEF Types
<1>2. pulls' = [pulls EXCEPT ![m] = NoPull]
  BY DEF Ended
<1>3. NoPull \in PullT
  BY DEF PullT, NoPull
<1> QED BY <1>1, <1>2, <1>3 DEF Moves

(* downloadBlob finds the blob, or not.                                    *)
LEMMA StatShape ==
  ASSUME Types, NEW m \in Models, Stat(m)
  PROVE  /\ Moves(m) /\ pulls[m].at = "none" /\ pulls'[m].obj = 0
         /\ pulls'[m].cacheHit = (files.blob # "absent")
         /\ pulls'[m].at = IF files.blob # "absent" THEN "verify" ELSE "store"
<1> DEFINE q == [obj |-> 0, cacheHit |-> files.blob # "absent",
                 at |-> IF files.blob # "absent" THEN "verify" ELSE "store"]
<1>1. pulls \in [Models -> PullT] /\ pulls' = [pulls EXCEPT ![m] = q] /\ pulls[m].at = "none"
  BY DEF Types, Stat
<1>2. q \in PullT
  BY DEF PullT
<1>3. q.obj = 0 /\ q.cacheHit = (files.blob # "absent")
      /\ q.at = IF files.blob # "absent" THEN "verify" ELSE "store"
  OBVIOUS
<1> HIDE DEF q
<1>4. pulls'[m] = q /\ Moves(m)
  BY <1>1, <1>2 DEF Moves
<1> QED BY <1>1, <1>3, <1>4

(* A pull that begins.                                                     *)
LEMMA StatControl ==
  ASSUME ControlInv, NEW m \in Models, Stat(m)
  PROVE  ControlInv'
<1>t. Types
  BY DEF ControlInv
<1>1. /\ Moves(m) /\ pulls[m].at = "none" /\ pulls'[m].obj = 0
      /\ pulls'[m].at = IF pulls'[m].cacheHit THEN "verify" ELSE "store"
  BY <1>t, StatShape
<1>2. UNCHANGED <<files, objs, manager, deleting, robbed, unpruned>>
  BY DEF Stat
<1>3. \A o \in 1 .. Len(objs) : Waiting(o)' = Waiting(o)
  BY <1>t, <1>1, SameWaiting
<1>4. ~Leads(m)'
  BY <1>1 DEF Leads
<1> QED BY <1>t, <1>1, <1>2, <1>3, <1>4, PullControl DEF Types

(* LoadOrStore joins the download in the manager, or makes a new one.      *)
LEMMA LoadOrStoreShape ==
  ASSUME Types, NEW m \in Models, LoadOrStore(m)
  PROVE  /\ Moves(m) /\ pulls[m].at = "store" /\ pulls'[m].cacheHit = pulls[m].cacheHit
         /\ UNCHANGED <<files, deleting, robbed, unpruned, counts>>
         /\ \/ /\ manager # 0 /\ objs' = objs /\ manager' = manager
               /\ pulls'[m].at = "acquire" /\ pulls'[m].obj = manager
            \/ /\ manager = 0 /\ objs' = Append(objs, NewObj) /\ manager' = Len(objs')
               /\ pulls'[m].at = "prepare" /\ pulls'[m].obj = Len(objs')
               /\ objs' \in Seq(ObjT) /\ Len(objs') = Len(objs) + 1
               /\ objs'[Len(objs')] = NewObj /\ \A o \in 1 .. Len(objs) : objs'[o] = objs[o]
<1>t. pulls \in [Models -> PullT] /\ pulls[m] \in PullT /\ objs \in Seq(ObjT) /\ Len(objs) \in Nat
  BY LenProperties DEF Types
<1>0. ASSUME NEW a \in {"acquire", "prepare"}, NEW n \in Nat,
             pulls' = [pulls EXCEPT ![m].at = a, ![m].obj = n]
      PROVE  Moves(m) /\ pulls'[m].cacheHit = pulls[m].cacheHit /\ pulls'[m].at = a /\ pulls'[m].obj = n
  <2>1. pulls' = [pulls EXCEPT ![m] = [pulls[m] EXCEPT !.at = a, !.obj = n]]
    BY <1>t, <1>0 DEF PullT
  <2>2. [pulls[m] EXCEPT !.at = a, !.obj = n] \in PullT
    BY <1>t DEF PullT
  <2>3. pulls'[m] = [pulls[m] EXCEPT !.at = a, !.obj = n]
    BY <1>t, <2>1
  <2> QED BY <1>t, <2>1, <2>2, <2>3 DEF Moves, PullT
<1>1. CASE manager # 0
  <2>1. /\ pulls' = [pulls EXCEPT ![m].at = "acquire", ![m].obj = manager] /\ objs' = objs
        /\ manager' = manager /\ pulls[m].at = "store"
        /\ UNCHANGED <<files, deleting, robbed, unpruned, counts>>
    BY <1>1 DEF LoadOrStore
  <2>2. manager \in Nat
    BY <1>t DEF Types
  <2> QED BY <1>0, <1>1, <2>1, <2>2
<1>2. CASE manager = 0
  <2>1. /\ pulls' = [pulls EXCEPT ![m].at = "prepare", ![m].obj = Len(objs')]
        /\ objs' = Append(objs, NewObj) /\ manager' = Len(objs') /\ pulls[m].at = "store"
        /\ UNCHANGED <<files, deleting, robbed, unpruned, counts>>
    BY <1>2 DEF LoadOrStore
  <2>2. NewObj \in ObjT
    BY NewObjType
  <2>3. /\ objs' \in Seq(ObjT) /\ Len(objs') = Len(objs) + 1
        /\ objs'[Len(objs')] = NewObj /\ \A o \in 1 .. Len(objs) : objs'[o] = objs[o]
    BY <1>t, <2>1, <2>2, AppendProperties
  <2>4. Len(objs') \in Nat
    BY <1>t, <2>3
  <2>5. /\ Moves(m) /\ pulls'[m].cacheHit = pulls[m].cacheHit /\ pulls'[m].at = "prepare"
        /\ pulls'[m].obj = Len(objs')
    BY <1>0, <2>1, <2>4
  <2> QED BY <1>2, <2>1, <2>3, <2>5
<1> QED BY <1>1, <1>2, <1>t DEF Types

(* A pull joins a download, or leads one that is alone in the manager.     *)
LEMMA LoadOrStoreControl ==
  ASSUME ControlInv, NEW m \in Models, LoadOrStore(m)
  PROVE  ControlInv'
<1>t. Types /\ objs \in Seq(ObjT) /\ Len(objs) \in Nat
  BY LenProperties DEF ControlInv, Types
<1>1. /\ Moves(m) /\ pulls[m].at = "store" /\ pulls'[m].cacheHit = pulls[m].cacheHit
      /\ UNCHANGED <<files, deleting, robbed, unpruned, counts>>
  BY <1>t, LoadOrStoreShape
<1>2. \A q \in Models : q # m => pulls'[q] = pulls[q]
  BY <1>1 DEF Moves
<1>3. \A o : Waiting(o)' = Waiting(o)
  <2>1. pulls'[m].at \in {"acquire", "prepare"}
    BY <1>t, LoadOrStoreShape
  <2> QED BY <1>t, <1>1, <2>1, SameWaiting
<1>r. \A o \in 1 .. Len(objs) : objs[o].refs = Cardinality(Waiting(o))
  BY DEF ControlInv, RefsExact, Waiting
<1>4. CASE manager # 0
  <2>1. objs' = objs /\ manager' = manager /\ pulls'[m].at = "acquire" /\ pulls'[m].obj = manager
    BY <1>t, <1>4, LoadOrStoreShape
  <2>2. Types'
    BY <1>t, <1>1, <1>2, <2>1 DEF Types, Moves
  <2>3. LeaderInv'
    <3>1. \A q \in Models : Leads(q)' => q # m /\ Leads(q) /\ pulls'[q] = pulls[q]
      BY <1>2, <2>1 DEF Leads
    <3> QED BY <2>1, <3>1 DEF ControlInv, LeaderInv
  <2>4. ManagerInv' /\ JoinInv'
    BY <1>1, <1>2, <1>4, <2>1 DEF ControlInv, ManagerInv, JoinInv
  <2>5. RefsExact'
    <3>1. \A o \in 1 .. Len(objs) : objs'[o].refs = Cardinality(Waiting(o)')
      BY <1>r, <1>3, <2>1
    <3> QED BY <2>1, <3>1 DEF RefsExact, Waiting
  <2> QED BY <2>2, <2>3, <2>4, <2>5 DEF ControlInv
<1>5. CASE manager = 0
  <2>1. /\ manager' = Len(objs') /\ pulls'[m].at = "prepare" /\ pulls'[m].obj = Len(objs')
        /\ objs' \in Seq(ObjT) /\ Len(objs') = Len(objs) + 1
        /\ objs'[Len(objs')] = NewObj /\ \A o \in 1 .. Len(objs) : objs'[o] = objs[o]
    BY <1>t, <1>5, LoadOrStoreShape
  <2>n. NewObj.at = "prepare" /\ NewObj.refs = 0
    BY DEF NewObj
  <2>2. Types'
    <3>1. \A q \in Models : pulls'[q].obj <= Len(objs')
      BY <1>t, <1>2, <2>1 DEF Types, PullT
    <3> QED BY <1>t, <1>1, <2>1, <3>1 DEF Types, Moves
  <2>3. \A o \in 1 .. Len(objs) : objs[o].at \in {"abandoned", "close", "done"}
    BY <1>5 DEF ControlInv, ManagerInv
  <2>4. \A q \in Models : ~Leads(q)
    BY <1>t, <2>3, SMTT(40) DEF ControlInv, LeaderInv, Types, PullT
  <2>5. \A q \in Models : Leads(q)' => q = m
    BY <1>2, <2>4 DEF Leads
  <2>6. LeaderInv'
    BY <1>t, <2>1, <2>n, <2>5 DEF LeaderInv
  <2>7. ManagerInv'
    BY <1>t, <2>1, <2>3 DEF ManagerInv
  <2>8. JoinInv'
    BY <1>1, <1>2, <2>1 DEF ControlInv, JoinInv
  <2>p. PICK n \in Nat : n = Len(objs')
    BY <1>t, <2>1
  <2>9. Waiting(n)' = {}
    <3>1. \A q \in Models : pulls[q].obj # n
      BY <1>t, <2>1, <2>p DEF Types, PullT
    <3>2. \A q \in Models : q \notin Waiting(n)'
      BY <1>2, <2>1, <3>1, <2>p DEF Waiting
    <3> QED BY <3>2 DEF Waiting
  <2>10. RefsExact'
    <3>1. \A o \in 1 .. Len(objs) : objs'[o].refs = Cardinality(Waiting(o)')
      BY <1>r, <1>3, <2>1
    <3>2. objs'[n].refs = Cardinality(Waiting(n)')
      BY <2>1, <2>n, <2>9, <2>p, FS_EmptySet
    <3>3. \A o \in 1 .. Len(objs') : o \in 1 .. Len(objs) \/ o = n
      BY <1>t, <2>1, <2>p
    <3>4. \A o \in 1 .. Len(objs') : objs'[o].refs = Cardinality(Waiting(o)')
      BY <3>1, <3>2, <3>3
    <3> QED BY <3>4 DEF RefsExact, Waiting
  <2> QED BY <2>2, <2>6, <2>7, <2>8, <2>10 DEF ControlInv
<1> QED BY <1>4, <1>5, <1>t DEF Types

-----------------------------------------------------------------------------
(* The pull that leads a download.                                         *)

(* A step of the leader: it goes on preparing, the download starts, or it  *)
(* is abandoned.                                                           *)
LeadStep(m) ==
  LET o == pulls[m].obj
  IN  /\ Leads(m) /\ Moves(m) /\ Touches(o) /\ objs'[o].refs = objs[o].refs
      /\ files' \in FilesT /\ UNCHANGED <<deleting, robbed, unpruned, counts>>
      /\ \/ /\ Leads(m)' /\ pulls'[m].obj = o /\ pulls'[m].cacheHit = pulls[m].cacheHit
            /\ objs'[o].at = "prepare" /\ manager' = manager
         \/ /\ pulls'[m].at = "acquire" /\ pulls'[m].obj = o /\ pulls'[m].cacheHit = pulls[m].cacheHit
            /\ objs'[o].at = "start" /\ manager' = manager
         \/ pulls'[m] = NoPull /\ objs'[o].at = "abandoned" /\ manager' = 0

(* The download a leader prepares.                                         *)
LEMMA Leader ==
  ASSUME ControlInv, NEW m \in Models, Leads(m)
  PROVE  /\ pulls[m].obj \in 1 .. Len(objs) /\ objs[pulls[m].obj] \in ObjT
         /\ objs[pulls[m].obj].at = "prepare" /\ manager = pulls[m].obj
         /\ \A q \in Models : Leads(q) => q = m
<1>1. Types /\ objs \in Seq(ObjT) /\ Len(objs) \in Nat
  BY LenProperties DEF ControlInv, Types
<1>2. pulls[m].obj \in 1 .. Len(objs) /\ objs[pulls[m].obj].at = "prepare"
  BY <1>1 DEF ControlInv, LeaderInv, Types, PullT
<1>3. objs[pulls[m].obj] \in ObjT
  BY <1>1, <1>2, ElementOfSeq
<1> QED BY <1>2, <1>3 DEF ControlInv, LeaderInv, ManagerInv

(* Steps of the leader keep control.                                       *)
LEMMA LeadControl ==
  ASSUME ControlInv, NEW m \in Models, LeadStep(m)
  PROVE  ControlInv'
<1>t. Types /\ objs \in Seq(ObjT) /\ Len(objs) \in Nat
  BY LenProperties DEF ControlInv, Types
<1> DEFINE o == pulls[m].obj
<1>1. /\ Leads(m) /\ Moves(m) /\ Touches(o) /\ objs'[o].refs = objs[o].refs
      /\ files' \in FilesT /\ UNCHANGED <<deleting, robbed, unpruned, counts>>
      /\ pulls'[m].obj \in {o, 0} /\ pulls'[m].at \notin {"wait", "stuck"}
  BY DEF LeadStep, NoPull, Leads
<1>2. /\ o \in 1 .. Len(objs) /\ objs[o].at = "prepare" /\ manager = o
      /\ \A q \in Models : Leads(q) => q = m
  BY <1>1, Leader
<1>3. \A q \in Models : q # m => pulls'[q] = pulls[q]
  BY <1>1 DEF Moves
<1>4. Len(objs') = Len(objs) /\ \A p \in 1 .. Len(objs) : p # o => objs'[p] = objs[p]
  BY <1>1 DEF Touches
<1>5. \A q \in Models : Leads(q)' => q = m /\ Leads(m)' /\ pulls'[m].obj = o /\ objs'[o].at = "prepare"
  <2>1. Leads(m)' => pulls'[m].obj = o /\ objs'[o].at = "prepare"
    BY DEF LeadStep, Leads, NoPull
  <2>2. \A q \in Models : Leads(q)' => q = m
    BY <1>2, <1>3 DEF Leads
  <2> QED BY <2>1, <2>2
<1>6. Types'
  <2>1. manager' \in 0 .. Len(objs)
    BY <1>t, <1>2 DEF LeadStep
  <2>2. \A q \in Models : pulls'[q].obj <= Len(objs)
    BY <1>t, <1>1, <1>2, <1>3 DEF Types
  <2> QED BY <1>t, <1>1, <1>4, <2>1, <2>2 DEF Types, Moves, Touches
<1>7. LeaderInv'
  BY <1>2, <1>4, <1>5 DEF LeaderInv
<1>8. ManagerInv'
  <2>1. \A p \in 1 .. Len(objs) : p # o => objs'[p].at \in {"abandoned", "close", "done"}
    BY <1>2, <1>4 DEF ControlInv, ManagerInv
  <2>2. objs'[o].at \notin {"abandoned", "close", "done"} => manager' = o
    BY <1>2 DEF LeadStep
  <2> QED BY <1>4, <2>1, <2>2 DEF ManagerInv
<1>9. JoinInv'
  <2>1. /\ pulls'[m].at \in {"acquire", "wait"} => pulls'[m].obj # 0
        /\ ~pulls'[m].cacheHit
    BY <1>1, <1>2 DEF LeadStep, NoPull, Leads, ControlInv, JoinInv
  <2> QED BY <1>3, <2>1 DEF ControlInv, JoinInv
<1>10. RefsExact'
  <2>1. \A p \in 1 .. Len(objs) : Waiting(p)' = Waiting(p)
    BY <1>t, <1>1, SameWaiting DEF Leads
  <2>2. \A p \in 1 .. Len(objs) : objs[p].refs = Cardinality(Waiting(p))
    BY DEF ControlInv, RefsExact, Waiting
  <2>3. \A p \in 1 .. Len(objs) : objs'[p].refs = Cardinality(Waiting(p)')
    BY <1>1, <1>4, <2>1, <2>2
  <2> QED BY <1>4, <2>3 DEF RefsExact, Waiting
<1> QED BY <1>6, <1>7, <1>8, <1>9, <1>10 DEF ControlInv

(* Prepare fails, with whatever it leaves on disk.                         *)
LEMMA PrepareFailsShape ==
  ASSUME ControlInv, NEW m \in Models, Leads(m), PrepareFails(m), files' \in FilesT
  PROVE  LeadStep(m) /\ pulls'[m] = NoPull /\ objs'[pulls[m].obj].at = "abandoned"
<1> DEFINE o == pulls[m].obj
           e == [NewObj EXCEPT !.at = "abandoned", !.refs = objs[o].refs]
<1>1. /\ o \in 1 .. Len(objs) /\ objs[o] \in ObjT /\ objs \in Seq(ObjT)
  BY Leader DEF ControlInv, Types
<1>2. /\ objs' = [objs EXCEPT ![o] = e] /\ manager' = 0 /\ pulls' = Ended(m)
      /\ UNCHANGED <<deleting, robbed, unpruned, counts>>
  BY DEF PrepareFails
<1>3. e \in ObjT /\ e.at = "abandoned" /\ e.refs = objs[o].refs
  <2>1. NewObj \in ObjT /\ objs[o].refs \in Nat
    BY <1>1, NewObjType DEF ObjT
  <2> QED BY <2>1 DEF ObjT
<1> HIDE DEF e
<1>4. Touches(o) /\ objs'[o] = e
  BY <1>1, <1>2, <1>3, ReplaceOne DEF Touches
<1>5. Moves(m) /\ pulls'[m] = NoPull
  BY <1>2, EndedShape DEF ControlInv
<1> QED BY <1>2, <1>3, <1>4, <1>5 DEF LeadStep

(* Prepare goes on without a download that changes.                        *)
LEMMA PrepareGoesShape ==
  ASSUME ControlInv, NEW m \in Models, Leads(m), NEW a \in {"head", "newPart"}, pulls' = Goes(m, a),
         UNCHANGED <<files, objs, manager, deleting, robbed, unpruned, counts>>
  PROVE  LeadStep(m) /\ pulls'[m].at = a /\ pulls'[m].obj = pulls[m].obj
<1>t. Types
  BY DEF ControlInv
<1>1. /\ Moves(m) /\ pulls'[m].at = a /\ pulls'[m].obj = pulls[m].obj
      /\ pulls'[m].cacheHit = pulls[m].cacheHit
  BY <1>t, GoesShape
<1>2. Leads(m)'
  BY <1>1 DEF Leads
<1>3. objs[pulls[m].obj] \in ObjT /\ objs[pulls[m].obj].at = "prepare"
  BY Leader
<1>4. Touches(pulls[m].obj)
  BY <1>t, <1>3 DEF Touches, Types
<1> QED BY <1>t, <1>1, <1>2, <1>3, <1>4 DEF LeadStep, Types

(* Prepare reads part files.                                               *)
LEMMA PrepareReadShape ==
  ASSUME ControlInv, NEW m \in Models, PrepareRead(m), Present(files.parts) # {}
  PROVE  /\ LeadStep(m) /\ files' = files /\ objs'[pulls[m].obj].parts = files.parts
         /\ objs'[pulls[m].obj].at = "start" /\ pulls'[m].at = "acquire"
         /\ objs'[pulls[m].obj].failed = objs[pulls[m].obj].failed
         /\ objs'[pulls[m].obj].removed = objs[pulls[m].obj].removed
<1> DEFINE o == pulls[m].obj
           d == objs[o]
           e == [d EXCEPT !.at = "start", !.parts = files.parts]
<1>t. Types /\ Leads(m)
  BY DEF ControlInv, PrepareRead, Leads
<1>1. o \in 1 .. Len(objs) /\ d \in ObjT /\ objs \in Seq(ObjT) /\ o \in DOMAIN objs
  BY <1>t, Leader DEF ControlInv, Types
<1>2. /\ objs' = [objs EXCEPT ![o] = e] /\ pulls' = Goes(m, "acquire")
      /\ UNCHANGED <<files, manager, deleting, robbed, unpruned, counts>>
  BY <1>1 DEF PrepareRead, ObjT
<1>3. /\ e \in ObjT /\ e.at = "start" /\ e.refs = d.refs /\ e.parts = files.parts
      /\ e.failed = d.failed /\ e.removed = d.removed
  <2>1. files.parts \in [Parts -> Int]
    BY <1>t DEF Types, FilesT
  <2> QED BY <1>1, <2>1 DEF ObjT
<1> HIDE DEF e
<1>4. Touches(o) /\ objs'[o] = e
  BY <1>1, <1>2, <1>3, ReplaceOne DEF Touches
<1>5. Moves(m) /\ pulls'[m].at = "acquire" /\ pulls'[m].obj = o /\ pulls'[m].cacheHit = pulls[m].cacheHit
  BY <1>t, <1>2, GoesShape
<1> QED BY <1>t, <1>2, <1>3, <1>4, <1>5 DEF LeadStep, Types

(* A part file is made.                                                    *)
LEMMA NewPartShape ==
  ASSUME ControlInv, NEW m \in Models, NewPart(m)
  PROVE  LET o == pulls[m].obj
             k == Cardinality(Present(objs[o].parts))
         IN  /\ LeadStep(m) /\ files' = [files EXCEPT !.parts = [files.parts EXCEPT ![k] = 0]]
             /\ objs'[o].parts = [objs[o].parts EXCEPT ![k] = 0]
             /\ objs'[o].at = IF k + 1 = NParts THEN "start" ELSE "prepare"
             /\ pulls'[m].at = IF k + 1 = NParts THEN "acquire" ELSE "newPart"
             /\ objs'[o].failed = objs[o].failed /\ objs'[o].removed = objs[o].removed
<1> DEFINE o == pulls[m].obj
           d == objs[o]
           k == Cardinality(Present(d.parts))
           a == IF k + 1 = NParts THEN "start" ELSE "prepare"
           p == [d.parts EXCEPT ![k] = 0]
           f == [files.parts EXCEPT ![k] = 0]
           e == [d EXCEPT !.parts = p, !.at = a]
<1>t. Types /\ Leads(m) /\ pulls[m].at = "newPart"
  BY DEF ControlInv, NewPart, Leads
<1>1. /\ o \in 1 .. Len(objs) /\ d \in ObjT /\ objs \in Seq(ObjT) /\ d.at = "prepare"
      /\ o \in DOMAIN objs /\ files \in FilesT
  BY <1>t, Leader DEF ControlInv, Types
<1>2. /\ objs' = [objs EXCEPT ![o] = e] /\ files' = [files EXCEPT !.parts = f]
      /\ pulls' = (IF k + 1 = NParts THEN Goes(m, "acquire") ELSE pulls)
      /\ UNCHANGED <<manager, deleting, robbed, unpruned, counts>>
  BY <1>1 DEF NewPart, ObjT
<1>3. p \in [Parts -> Int] /\ f \in [Parts -> Int] /\ a \in {"start", "prepare"}
  <2>1. d.parts \in [Parts -> Int] /\ files.parts \in [Parts -> Int]
    BY <1>1 DEF ObjT, FilesT
  <2>3. p \in [Parts -> Int] /\ f \in [Parts -> Int]
    BY <2>1, PartsExcept
  <2> QED BY <2>3
<1> HIDE DEF p, f, a
<1>4. /\ e \in ObjT /\ e.at = a /\ e.refs = d.refs /\ e.parts = p
      /\ e.failed = d.failed /\ e.removed = d.removed
  BY <1>1, <1>3 DEF ObjT
<1>5. files' \in FilesT
  BY <1>1, <1>2, <1>3 DEF FilesT
<1> HIDE DEF e
<1>6. Touches(o) /\ objs'[o] = e
  BY <1>1, <1>2, <1>4, ReplaceOne DEF Touches
<1>7. CASE k + 1 = NParts
  <2>1. Moves(m) /\ pulls'[m].at = "acquire" /\ pulls'[m].obj = o /\ pulls'[m].cacheHit = pulls[m].cacheHit
    BY <1>t, <1>2, <1>7, GoesShape
  <2>2. a = "start"
    BY <1>7 DEF a
  <2> QED BY <1>t, <1>2, <1>4, <1>5, <1>6, <1>7, <2>1, <2>2 DEF LeadStep, p, f
<1>8. CASE k + 1 # NParts
  <2>1. pulls' = pulls /\ Moves(m) /\ Leads(m)'
    BY <1>t, <1>2, <1>8 DEF Moves, Leads, Types
  <2>2. a = "prepare"
    BY <1>8 DEF a
  <2> QED BY <1>t, <1>2, <1>4, <1>5, <1>6, <1>8, <2>1, <2>2 DEF LeadStep, p, f
<1> QED BY <1>7, <1>8

(* Every step of Prepare.                                                  *)
LEMMA PrepareShape ==
  ASSUME ControlInv, NEW m \in Models,
         \/ PrepareRead(m) \/ PrepareUnreadable(m) \/ PrepareHead(m) \/ HeadFails(m)
         \/ NewPart(m) \/ NewPartFails(m)
  PROVE  LeadStep(m)
<1>t. Leads(m) /\ files \in FilesT
  BY DEF PrepareRead, PrepareUnreadable, PrepareHead, HeadFails, NewPart, NewPartFails, Leads, ControlInv, Types
<1>1. CASE PrepareRead(m)
  <2>1. CASE Present(files.parts) = {}
    BY <1>t, <1>1, <2>1, PrepareGoesShape DEF PrepareRead
  <2>2. CASE Present(files.parts) # {}
    BY <1>1, <2>2, PrepareReadShape
  <2> QED BY <2>1, <2>2
<1>2. CASE PrepareHead(m)
  BY <1>t, <1>2, PrepareGoesShape DEF PrepareHead
<1>3. CASE PrepareUnreadable(m) \/ HeadFails(m)
  BY <1>t, <1>3, PrepareFailsShape DEF PrepareUnreadable, HeadFails
<1>4. CASE NewPart(m)
  BY <1>4, NewPartShape
<1>5. CASE NewPartFails(m)
  <2>1. PrepareFails(m)
    BY <1>5 DEF NewPartFails
  <2>2. files' = files \/ \E k : files' = [files EXCEPT !.parts = [files.parts EXCEPT ![k] = Torn]]
    BY <1>5 DEF NewPartFails, Damaged
  <2>3. files.parts \in [Parts -> Int] /\ Torn \in Int
    BY <1>t DEF FilesT, Torn
  <2>4. \A k : [files.parts EXCEPT ![k] = Torn] \in [Parts -> Int]
    BY <2>3
  <2>5. files' \in FilesT
    BY <1>t, <2>2, <2>4 DEF FilesT
  <2> QED BY <1>t, <2>1, <2>5, PrepareFailsShape
<1> QED BY <1>1, <1>2, <1>3, <1>4, <1>5

-----------------------------------------------------------------------------
(* Wait, and the rest of PullModel.                                        *)

(* A step of a pull that takes or gives back its reference.                *)
RefStep(m) ==
  LET o == pulls[m].obj
  IN  /\ o \in 1 .. Len(objs) /\ Moves(m) /\ Touches(o) /\ objs'[o].at = objs[o].at
      /\ objs'[o].parts = objs[o].parts /\ objs'[o].job = objs[o].job
      /\ objs'[o].failed = objs[o].failed /\ objs'[o].removed = objs[o].removed
      /\ UNCHANGED <<files, manager, deleting, robbed, unpruned, counts>>
      /\ \/ /\ pulls[m].at = "acquire" /\ pulls'[m].at = "wait" /\ pulls'[m].obj = o
            /\ pulls'[m].cacheHit = pulls[m].cacheHit /\ objs'[o].refs = objs[o].refs + 1
         \/ /\ pulls[m].at = "wait" /\ objs'[o].refs = objs[o].refs - 1
            /\ \/ pulls'[m] = NoPull
               \/ pulls'[m].at = "verify" /\ pulls'[m].obj = o /\ pulls'[m].cacheHit = pulls[m].cacheHit

(* The download a pull has joined.                                         *)
LEMMA Joiner ==
  ASSUME ControlInv, NEW m \in Models, pulls[m].at \in {"acquire", "wait"}
  PROVE  /\ pulls[m].obj \in 1 .. Len(objs) /\ objs[pulls[m].obj] \in ObjT
         /\ ~pulls[m].cacheHit
         /\ objs[pulls[m].obj].refs = Cardinality(Waiting(pulls[m].obj))
<1>1. Types /\ objs \in Seq(ObjT) /\ Len(objs) \in Nat
  BY LenProperties DEF ControlInv, Types
<1>2. pulls[m].obj \in 1 .. Len(objs) /\ ~pulls[m].cacheHit
  BY <1>1 DEF ControlInv, JoinInv, Types, PullT
<1>3. objs[pulls[m].obj] \in ObjT
  BY <1>1, <1>2, ElementOfSeq
<1>4. objs[pulls[m].obj].refs = Cardinality(Waiting(pulls[m].obj))
  BY <1>2 DEF ControlInv, RefsExact, Waiting
<1> QED BY <1>2, <1>3, <1>4

(* acquire and release count the pulls in Wait.                            *)
LEMMA RefControl ==
  ASSUME ControlInv, NEW m \in Models, RefStep(m)
  PROVE  ControlInv'
<1>t. Types /\ objs \in Seq(ObjT) /\ Len(objs) \in Nat /\ pulls[m] \in PullT
  BY LenProperties DEF ControlInv, Types
<1> DEFINE o == pulls[m].obj
<1>1. /\ o \in 1 .. Len(objs) /\ Moves(m) /\ Touches(o) /\ objs'[o].at = objs[o].at
      /\ UNCHANGED <<files, manager, deleting, robbed, unpruned, counts>>
      /\ pulls[m].at \in {"acquire", "wait"} /\ pulls'[m].at \in {"wait", "none", "verify"}
      /\ pulls'[m].obj \in {o, 0} /\ (pulls'[m].at = "wait" => pulls'[m].obj = o)
  BY DEF RefStep, NoPull
<1>2. ~pulls[m].cacheHit /\ objs[o].refs = Cardinality(Waiting(o))
  BY <1>1, Joiner
<1>3. \A q \in Models : q # m => pulls'[q] = pulls[q]
  BY <1>1 DEF Moves
<1>4. Len(objs') = Len(objs) /\ \A p \in 1 .. Len(objs) : objs'[p].at = objs[p].at /\ (p # o => objs'[p] = objs[p])
  BY <1>1 DEF Touches
<1>5. Types'
  <2>1. \A q \in Models : pulls'[q].obj <= Len(objs)
    BY <1>t, <1>1, <1>3 DEF Types
  <2> QED BY <1>t, <1>1, <1>4, <2>1 DEF Types, Moves, Touches
<1>6. \A q \in Models : Leads(q)' => Leads(q) /\ q # m
  BY <1>1, <1>3 DEF Leads
<1>7. LeaderInv'
  <2>1. \A q \in Models : Leads(q) => pulls[q].obj \in 1 .. Len(objs)
    BY Leader
  <2> QED BY <1>3, <1>4, <1>6, <2>1 DEF ControlInv, LeaderInv
<1>8. ManagerInv'
  BY <1>1, <1>4 DEF ControlInv, ManagerInv
<1>9. JoinInv'
  <2>1. ~pulls'[m].cacheHit
    BY <1>2 DEF RefStep, NoPull
  <2> QED BY <1>1, <1>3, <2>1 DEF ControlInv, JoinInv
<1>10. RefsExact'
  <2>1. \A p \in 1 .. Len(objs) : p # o => Waiting(p)' = Waiting(p)
    BY <1>t, <1>1, SameWaiting
  <2>2. \A p \in 1 .. Len(objs) : objs[p].refs = Cardinality(Waiting(p))
    BY DEF ControlInv, RefsExact, Waiting
  <2>p. PICK p \in 1 .. Len(objs) : p = o
    BY <1>1
  <2>3. objs'[p].refs = Cardinality(Waiting(p)')
    <3>1. Waiting(p) \subseteq Models /\ IsFiniteSet(Models)
      BY DownloadAssumption DEF Waiting
    <3>2. CASE pulls[m].at = "acquire"
      <4>1. pulls'[m].at = "wait" /\ pulls'[m].obj = o /\ objs'[o].refs = objs[o].refs + 1
        BY <3>2 DEF RefStep
      <4>2. m \notin Waiting(p) /\ Waiting(p)' = Waiting(p) \cup {m}
        BY <1>3, <3>2, <4>1, <2>p DEF Waiting
      <4> QED BY <1>2, <3>1, <4>1, <4>2, <2>p, CountOne
    <3>3. CASE pulls[m].at = "wait"
      <4>1. pulls'[m].at \in {"none", "verify"} /\ objs'[o].refs = objs[o].refs - 1
        BY <3>3 DEF RefStep, NoPull
      <4>2. m \in Waiting(p) /\ Waiting(p)' = Waiting(p) \ {m}
        BY <1>3, <3>3, <4>1, <2>p DEF Waiting
      <4> QED BY <1>2, <3>1, <4>1, <4>2, <2>p, CountOne
    <3> QED BY <1>1, <3>2, <3>3
  <2>4. \A r \in 1 .. Len(objs) : objs'[r].refs = Cardinality(Waiting(r)')
    <3> SUFFICES ASSUME NEW r \in 1 .. Len(objs) PROVE objs'[r].refs = Cardinality(Waiting(r)')
      OBVIOUS
    <3>1. CASE r = p
      BY <2>3, <3>1
    <3>2. CASE r # p
      BY <1>4, <2>1, <2>2, <2>p, <3>2
    <3> QED BY <3>1, <3>2
  <2> QED BY <1>4, <2>4 DEF RefsExact, Waiting
<1> QED BY <1>5, <1>7, <1>8, <1>9, <1>10 DEF ControlInv

(* acquire.                                                                *)
LEMMA AcquireShape ==
  ASSUME ControlInv, NEW m \in Models, Acquire(m)
  PROVE  RefStep(m)
<1> DEFINE o == pulls[m].obj
           d == objs[o]
           n == d.refs + 1
           e == [d EXCEPT !.refs = n]
<1>1. pulls[m].at = "acquire" /\ pulls' = Goes(m, "wait") /\ Types /\ objs \in Seq(ObjT)
  BY DEF Acquire, ControlInv, Types
<1>2. o \in 1 .. Len(objs) /\ d \in ObjT /\ o \in DOMAIN objs
  BY <1>1, Joiner
<1>3. objs' = [objs EXCEPT ![o] = e] /\ UNCHANGED <<files, manager, deleting, robbed, unpruned, counts>>
  BY <1>2 DEF Acquire, ObjT
<1>n. n \in Nat
  BY <1>2 DEF ObjT
<1> HIDE DEF n
<1>4. /\ e \in ObjT /\ e.at = d.at /\ e.refs = n /\ e.parts = d.parts /\ e.job = d.job
      /\ e.failed = d.failed /\ e.removed = d.removed
  BY <1>2, <1>n DEF ObjT
<1> HIDE DEF e
<1>5. Touches(o) /\ objs'[o] = e
  BY <1>1, <1>2, <1>3, <1>4, ReplaceOne DEF Touches
<1>6. Moves(m) /\ pulls'[m].at = "wait" /\ pulls'[m].obj = o /\ pulls'[m].cacheHit = pulls[m].cacheHit
  BY <1>1, GoesShape
<1> QED BY <1>1, <1>2, <1>3, <1>4, <1>5, <1>6 DEF RefStep, n

(* release, when the download is done or the client leaves.                *)
LEMMA ReleaseShape ==
  ASSUME ControlInv, NEW m \in Models, Return(m) \/ Leave(m)
  PROVE  RefStep(m)
<1> DEFINE o == pulls[m].obj
           d == objs[o]
           c == d.cancelled \/ d.refs = 1
           e == [d EXCEPT !.refs = d.refs - 1, !.cancelled = c]
<1>1. /\ pulls[m].at = "wait" /\ objs' = Released(o) /\ Types /\ objs \in Seq(ObjT)
      /\ pulls' \in {Ended(m), Goes(m, "verify")}
      /\ UNCHANGED <<files, manager, deleting, robbed, unpruned, counts>>
  BY DEF Return, Leave, ControlInv, Types
<1>2. o \in 1 .. Len(objs) /\ d \in ObjT /\ o \in DOMAIN objs /\ d.refs = Cardinality(Waiting(o))
  BY <1>1, Joiner
<1>3. objs' = [objs EXCEPT ![o] = e]
  BY <1>1, <1>2 DEF Released, ObjT
<1>4. d.refs - 1 \in Nat
  <2>1. m \in Waiting(o) /\ Waiting(o) \subseteq Models
    BY <1>1 DEF Waiting
  <2>2. IsFiniteSet(Models)
    BY DownloadAssumption
  <2>3. Cardinality(Waiting(o)) \in Nat /\ Cardinality(Waiting(o)) > 0
    BY <2>1, <2>2, CountOne
  <2> QED BY <1>2, <2>3
<1>5. c \in BOOLEAN
  OBVIOUS
<1> HIDE DEF c
<1>6. /\ e \in ObjT /\ e.at = d.at /\ e.refs = d.refs - 1 /\ e.parts = d.parts /\ e.job = d.job
      /\ e.failed = d.failed /\ e.removed = d.removed
  BY <1>2, <1>4, <1>5 DEF ObjT
<1> HIDE DEF e
<1>7. Touches(o) /\ objs'[o] = e
  BY <1>1, <1>2, <1>3, <1>6, ReplaceOne DEF Touches
<1>8. CASE pulls' = Ended(m)
  <2>1. Moves(m) /\ pulls'[m] = NoPull
    BY <1>1, <1>8, EndedShape
  <2> QED BY <1>1, <1>2, <1>6, <1>7, <2>1 DEF RefStep
<1>9. CASE pulls' = Goes(m, "verify")
  <2>1. Moves(m) /\ pulls'[m].at = "verify" /\ pulls'[m].obj = o /\ pulls'[m].cacheHit = pulls[m].cacheHit
    BY <1>1, <1>9, GoesShape
  <2> QED BY <1>1, <1>2, <1>6, <1>7, <2>1 DEF RefStep
<1> QED BY <1>1, <1>8, <1>9

(* The progress of a pull is received no more.                             *)
LEMMA BlockShape ==
  ASSUME ControlInv, NEW m \in Models, Block(m)
  PROVE  /\ Moves(m) /\ pulls'[m].at = "stuck" /\ ~pulls'[m].cacheHit
         /\ UNCHANGED <<files, objs, manager, deleting, robbed, unpruned, counts>>
         /\ \/ pulls[m].at = "wait" /\ pulls'[m].obj = pulls[m].obj
            \/ pulls[m].at \in {"verify", "manifest"} /\ pulls'[m].obj = 0
<1>t. Types /\ pulls \in [Models -> PullT]
  BY DEF ControlInv, Types
<1>1. CASE pulls[m].at = "wait" /\ pulls' = Goes(m, "stuck")
  <2>1. ~pulls[m].cacheHit
    BY <1>1, Joiner
  <2> QED BY <1>t, <1>1, <2>1, GoesShape DEF Block
<1>2. CASE /\ pulls[m].at \in {"verify", "manifest"}
           /\ pulls' = [pulls EXCEPT ![m] = [NoPull EXCEPT !.at = "stuck"]]
  <2>1. NoPull \in PullT /\ NoPull.obj = 0 /\ ~NoPull.cacheHit
    BY DEF NoPull, PullT
  <2> DEFINE q == [NoPull EXCEPT !.at = "stuck"]
  <2>2. q \in PullT /\ q.at = "stuck" /\ q.obj = NoPull.obj /\ q.cacheHit = NoPull.cacheHit
    BY <2>1 DEF PullT
  <2>4. pulls' = [pulls EXCEPT ![m] = q]
    BY <1>2
  <2> HIDE DEF q
  <2>3. pulls'[m] = q /\ Moves(m)
    BY <1>t, <2>2, <2>4 DEF Moves
  <2> QED BY <1>2, <2>1, <2>2, <2>3 DEF Block
<1> QED BY <1>1, <1>2 DEF Block

(* What FinishManifest leaves of the manifest.                             *)
Finished(m) == IF files.manifests[m] = "torn" THEN "ok" ELSE files.manifests[m]

(* Steps of PullModel after the download.                                  *)
LEMMA TailShape ==
  ASSUME ControlInv, NEW m \in Models,
         Verify(m) \/ WriteManifest(m) \/ FinishManifest(m) \/ ManifestFails(m)
  PROVE  /\ Moves(m) /\ files' \in FilesT
         /\ UNCHANGED <<objs, manager, robbed, unpruned, counts>>
         /\ pulls[m].at \in {"verify", "manifest", "writing"}
         /\ \/ pulls'[m] = NoPull
            \/ /\ pulls'[m].at \in {"manifest", "writing"} /\ pulls'[m].obj = pulls[m].obj
               /\ pulls'[m].cacheHit = pulls[m].cacheHit
<1>t. Types /\ files \in FilesT
  BY DEF ControlInv, Types
<1>1. /\ pulls' \in {Ended(m), Goes(m, "manifest"), Goes(m, "writing")}
      /\ pulls[m].at \in {"verify", "manifest", "writing"}
      /\ UNCHANGED <<objs, manager, robbed, unpruned, counts>>
  BY DEF Verify, WriteManifest, FinishManifest, ManifestFails
<1>2. files' \in FilesT
  <2>1. CASE Verify(m)
    BY <1>t, <2>1 DEF Verify, FilesT
  <2>2. ASSUME NEW v \in {"none", "torn", "ok"}, files' = [files EXCEPT !.manifests[m] = v] PROVE files' \in FilesT
    <3>1. [files.manifests EXCEPT ![m] = v] \in [Models -> {"none", "torn", "ok"}]
      BY <1>t DEF FilesT
    <3>2. files' = [files EXCEPT !.manifests = [files.manifests EXCEPT ![m] = v]]
      BY <2>2
    <3> QED BY <1>t, <3>1, <3>2 DEF FilesT
  <2>3. CASE ManifestFails(m)
    BY <1>t, <2>3 DEF ManifestFails
  <2>4. CASE FinishManifest(m)
    <3>1. Finished(m) \in {"none", "torn", "ok"}
      BY <1>t DEF Finished, FilesT
    <3>2. files' = [files EXCEPT !.manifests[m] = Finished(m)]
      BY <2>4 DEF FinishManifest, Finished
    <3> QED BY <2>2, <3>1, <3>2
  <2> QED BY <2>1, <2>2, <2>3, <2>4 DEF WriteManifest
<1>3. CASE pulls' = Ended(m)
  BY <1>t, <1>1, <1>2, <1>3, EndedShape
<1>4. CASE pulls' \in {Goes(m, "manifest"), Goes(m, "writing")}
  BY <1>t, <1>1, <1>2, <1>4, GoesShape
<1> QED BY <1>1, <1>3, <1>4

(* A server that starts.                                                   *)
LEMMA RestartShape ==
  ASSUME NEW f \in FilesT, Restart(f), Types
  PROVE  /\ files' = Pruned(f) /\ Pruned(f) \in FilesT /\ objs' = <<>> /\ manager' = 0
         /\ pulls' = [m \in Models |-> NoPull] /\ robbed' = robbed
         /\ Pruned(f).manifests = f.manifests
         /\ \/ SkipsPrune(f) /\ Pruned(f) = f
            \/ /\ ~SkipsPrune(f) /\ Pruned(f).parts = [k \in Parts |-> Missing]
               /\ Pruned(f).data = [k \in Parts |-> 0] /\ Pruned(f).spoilt = FALSE
               /\ Pruned(f).blob = IF \E m \in Models : f.manifests[m] = "ok" THEN f.blob ELSE "absent"
<1>1. /\ files' = Pruned(f) /\ objs' = <<>> /\ manager' = 0
      /\ pulls' = [m \in Models |-> NoPull] /\ robbed' = robbed
  BY DEF Restart
<1>2. CASE SkipsPrune(f)
  BY <1>1, <1>2 DEF Pruned
<1>3. CASE ~SkipsPrune(f)
  <2> DEFINE g == EmptyPartial(f)
             p == [k \in Parts |-> Missing]
             b == IF \E m \in Models : f.manifests[m] = "ok" THEN f.blob ELSE "absent"
  <2>1. /\ g \in FilesT /\ g.manifests = f.manifests /\ g.blob = f.blob
        /\ g.data = [k \in Parts |-> 0] /\ g.spoilt = FALSE
    BY EmptyPartialType
  <2>2. p \in [Parts -> Int]
    BY DEF Missing
  <2>3. b \in {"absent", "good", "bad"}
    BY DEF FilesT
  <2>4. Pruned(f) = [g EXCEPT !.parts = p,
                       !.blob = IF \E m \in Models : f.manifests[m] = "ok" THEN g.blob ELSE "absent"]
    BY <1>3, <2>1 DEF Pruned, FilesT
  <2>5. Pruned(f) = [g EXCEPT !.parts = p, !.blob = b]
    BY <2>1, <2>4
  <2> HIDE DEF g, p, b
  <2>6. /\ Pruned(f) \in FilesT /\ Pruned(f).parts = p /\ Pruned(f).blob = b
        /\ Pruned(f).manifests = g.manifests /\ Pruned(f).data = g.data /\ Pruned(f).spoilt = g.spoilt
    BY <2>1, <2>2, <2>3, <2>5 DEF FilesT
  <2> QED BY <1>1, <1>3, <2>1, <2>6 DEF p, b
<1> QED BY <1>2, <1>3

(* It has no pulls and no downloads.                                       *)
LEMMA RestartControl ==
  ASSUME NEW f \in FilesT, Restart(f), Types
  PROVE  ControlInv'
<1>1. /\ files' \in FilesT /\ objs' = <<>> /\ manager' = 0
      /\ pulls' = [m \in Models |-> NoPull] /\ robbed' = robbed /\ unpruned' \in BOOLEAN
  BY RestartShape DEF Restart
<1>2. objs' \in Seq(ObjT) /\ Len(objs') = 0
  BY <1>1, EmptySeq
<1>3. NoPull \in PullT /\ NoPull.at = "none" /\ NoPull.obj = 0
  BY DEF NoPull, PullT
<1>4. pulls' \in [Models -> PullT] /\ \A m \in Models : pulls'[m] = NoPull
  BY <1>1, <1>3
<1>5. Types'
  BY <1>1, <1>2, <1>3, <1>4 DEF Types
<1>6. LeaderInv' /\ JoinInv'
  BY <1>3, <1>4 DEF LeaderInv, JoinInv, Leads
<1>7. ManagerInv' /\ RefsExact'
  BY <1>2 DEF ManagerInv, RefsExact
<1> QED BY <1>5, <1>6, <1>7 DEF ControlInv

(* What a killed server leaves.                                            *)
CrashFiles(torn) == [files EXCEPT !.parts = [k \in Parts |-> IF k \in torn THEN Torn ELSE files.parts[k]]]

(* It differs in the part files that were being written.                   *)
LEMMA CrashFilesType ==
  ASSUME Types, NEW torn
  PROVE  /\ CrashFiles(torn) \in FilesT /\ CrashFiles(torn).manifests = files.manifests
         /\ CrashFiles(torn).blob = files.blob /\ CrashFiles(torn).partial = files.partial
         /\ CrashFiles(torn).data = files.data /\ CrashFiles(torn).spoilt = files.spoilt
         /\ CrashFiles(torn).parts = [k \in Parts |-> IF k \in torn THEN Torn ELSE files.parts[k]]
<1> DEFINE p == [k \in Parts |-> IF k \in torn THEN Torn ELSE files.parts[k]]
<1>1. files \in FilesT
  BY DEF Types
<1>2. files.parts \in [Parts -> Int] /\ Torn \in Int
  BY <1>1 DEF FilesT, Torn
<1>3. p \in [Parts -> Int]
  BY <1>2
<1>4. CrashFiles(torn) = [files EXCEPT !.parts = p]
  BY DEF CrashFiles
<1> HIDE DEF p
<1>5. /\ CrashFiles(torn) \in FilesT /\ CrashFiles(torn).manifests = files.manifests
      /\ CrashFiles(torn).blob = files.blob /\ CrashFiles(torn).partial = files.partial
      /\ CrashFiles(torn).data = files.data /\ CrashFiles(torn).spoilt = files.spoilt
      /\ CrashFiles(torn).parts = p
  BY <1>1, <1>3, <1>4 DEF FilesT
<1> QED BY <1>5 DEF p

-----------------------------------------------------------------------------
(* Control.                                                                *)

(* The steps of a pull that change no download.                            *)
LEMMA LonePullControl ==
  ASSUME ControlInv, NEW m \in Models,
         Block(m) \/ Verify(m) \/ WriteManifest(m) \/ FinishManifest(m) \/ ManifestFails(m)
  PROVE  ControlInv'
<1>t. Types
  BY DEF ControlInv
<1>1. CASE Block(m)
  <2>1. /\ Moves(m) /\ pulls'[m].at = "stuck" /\ ~pulls'[m].cacheHit
        /\ UNCHANGED <<files, objs, manager, deleting, robbed, unpruned, counts>>
        /\ \/ pulls[m].at = "wait" /\ pulls'[m].obj = pulls[m].obj
           \/ pulls[m].at \in {"verify", "manifest"} /\ pulls'[m].obj = 0
    BY <1>1, BlockShape
  <2>2. \A o \in 1 .. Len(objs) : Waiting(o)' = Waiting(o)
    <3> SUFFICES ASSUME NEW o \in 1 .. Len(objs) PROVE Waiting(o)' = Waiting(o)
      OBVIOUS
    <3>1. o # 0
      BY LenProperties DEF ControlInv, Types
    <3> QED BY <1>t, <2>1, <3>1, SameWaiting
  <2>3. ~Leads(m)'
    BY <2>1 DEF Leads
  <2> QED BY <1>t, <2>1, <2>2, <2>3, PullControl DEF Types
<1>2. CASE Verify(m) \/ WriteManifest(m) \/ FinishManifest(m) \/ ManifestFails(m)
  <2>1. /\ Moves(m) /\ files' \in FilesT
        /\ UNCHANGED <<objs, manager, robbed, unpruned, counts>>
        /\ pulls[m].at \in {"verify", "manifest", "writing"}
        /\ pulls'[m].at \in {"none", "manifest", "writing"} /\ pulls'[m].obj \in {pulls[m].obj, 0}
    BY <1>2, TailShape DEF NoPull
  <2>2. \A o \in 1 .. Len(objs) : Waiting(o)' = Waiting(o)
    BY <1>t, <2>1, SameWaiting
  <2>3. ~Leads(m)'
    BY <2>1 DEF Leads
  <2> QED BY <1>t, <2>1, <2>2, <2>3, PullControl DEF Types
<1> QED BY <1>1, <1>2

(* DELETE touches neither pulls nor downloads.                             *)
LEMMA DeleteShape ==
  ASSUME Types, NEW m \in Models, DeleteHandler(m) \/ DeleteManifest(m) \/ RemoveLayers(m)
  PROVE  /\ UNCHANGED <<objs, manager, pulls, unpruned>> /\ files' \in FilesT /\ robbed' \subseteq Models
         /\ files'.parts = files.parts /\ files'.data = files.data /\ files'.len = files.len
         /\ files'.spoilt = files.spoilt
<1>t. files \in FilesT /\ robbed \subseteq Models
  BY DEF Types
<1>1. CASE DeleteManifest(m)
  <2> DEFINE f == [files.manifests EXCEPT ![m] = "none"]
  <2>1. f \in [Models -> {"none", "torn", "ok"}]
    BY <1>t DEF FilesT
  <2>2. files' = [files EXCEPT !.manifests = f] /\ UNCHANGED <<objs, manager, pulls, robbed, unpruned>>
    BY <1>1 DEF DeleteManifest
  <2> HIDE DEF f
  <2> QED BY <1>t, <2>1, <2>2 DEF FilesT
<1>2. CASE RemoveLayers(m)
  <2>1. /\ files' \in {files, [files EXCEPT !.blob = "absent"]}
        /\ robbed' \in {robbed, robbed \cup {q \in Models : HasSeen(q) \/ deleting[m][q] = "late"}}
        /\ UNCHANGED <<objs, manager, pulls, unpruned>>
    BY <1>2 DEF RemoveLayers, ListManifests, ReadManifest, MissManifest, RemoveLayer
  <2> QED BY <1>t, <2>1 DEF FilesT
<1>3. CASE DeleteHandler(m)
  BY <1>t, <1>3 DEF DeleteHandler
<1> QED BY <1>1, <1>2, <1>3

(* A step in which neither pulls nor downloads change.                     *)
LEMMA StillControl ==
  ASSUME ControlInv, UNCHANGED <<objs, manager, pulls, unpruned>>, files' \in FilesT, robbed' \subseteq Models
  PROVE  ControlInv'
<1>1. Types'
  BY DEF ControlInv, Types
<1>2. LeaderInv' /\ ManagerInv' /\ JoinInv'
  BY DEF ControlInv, LeaderInv, ManagerInv, JoinInv, Leads
<1>3. RefsExact'
  BY DEF ControlInv, RefsExact
<1> QED BY <1>1, <1>2, <1>3 DEF ControlInv

(* ControlInv is inductive.                                                *)
LEMMA NextControl ==
  ASSUME ControlInv, [Next]_vars
  PROVE  ControlInv'
<1>t. Types /\ files \in FilesT /\ robbed \subseteq Models
  BY DEF ControlInv, Types
<1>1. ASSUME NEW m \in Models, Stat(m) \/ LoadOrStore(m) PROVE ControlInv'
  BY <1>1, StatControl, LoadOrStoreControl
<1>2. ASSUME NEW m \in Models,
             \/ PrepareRead(m) \/ PrepareUnreadable(m) \/ PrepareHead(m) \/ HeadFails(m)
             \/ NewPart(m) \/ NewPartFails(m)
      PROVE  ControlInv'
  BY <1>2, PrepareShape, LeadControl
<1>3. ASSUME NEW m \in Models, Acquire(m) \/ Return(m) \/ Leave(m) PROVE ControlInv'
  BY <1>3, AcquireShape, ReleaseShape, RefControl
<1>4. ASSUME NEW m \in Models,
             Block(m) \/ Verify(m) \/ WriteManifest(m) \/ FinishManifest(m) \/ ManifestFails(m)
      PROVE  ControlInv'
  BY <1>4, LonePullControl
<1>5. ASSUME NEW m \in Models, DeleteHandler(m) \/ DeleteManifest(m) \/ RemoveLayers(m) PROVE ControlInv'
  BY <1>t, <1>5, DeleteShape, StillControl
<1>6. ASSUME NEW m \in Models, LeavePanics(m) PROVE ControlInv'
  BY <1>t, <1>6, RestartControl DEF LeavePanics
<1>7. ASSUME NEW o \in 1 .. Len(objs), Run(o) PROVE ControlInv'
  BY <1>t, <1>7, RunShape, RunControl
<1>8. CASE Crash
  <2>1. PICK torn \in SUBSET Writing : Restart(CrashFiles(torn))
    BY <1>8 DEF Crash, CrashFiles
  <2> QED BY <1>t, <2>1, CrashFilesType, RestartControl
<1>9. CASE UNCHANGED vars
  BY <1>t, <1>9, StillControl DEF vars
<1> QED BY <1>1, <1>2, <1>3, <1>4, <1>5, <1>6, <1>7, <1>8, <1>9 DEF Next, PullStep

(* A new server has no pulls and no downloads.                             *)
LEMMA InitControl == Init => ControlInv
<1> SUFFICES ASSUME Init PROVE ControlInv
  OBVIOUS
<1>1. NoFiles \in FilesT
  <2> DEFINE p == [k \in Parts |-> Missing]
             z == [k \in Parts |-> 0]
             n == [m \in Models |-> "none"]
  <2>1. p \in [Parts -> Int] /\ z \in [Parts -> Int] /\ n \in [Models -> {"none", "torn", "ok"}]
    BY DEF Missing
  <2>2. NoFiles = [blob |-> "absent", parts |-> p, partial |-> FALSE, data |-> z, len |-> 0,
                   spoilt |-> FALSE, manifests |-> n]
    BY DEF NoFiles
  <2> HIDE DEF p, z, n
  <2>3. \A x, y \in BOOLEAN : [blob |-> "absent", parts |-> p, partial |-> x, data |-> z, len |-> 0,
                               spoilt |-> y, manifests |-> n] \in FilesT
    BY <2>1 DEF FilesT
  <2>4. FALSE \in BOOLEAN
    OBVIOUS
  <2> QED BY <2>2, <2>3, <2>4, Zenon
<1>2. objs \in Seq(ObjT) /\ Len(objs) = 0
  BY EmptySeq DEF Init
<1>3. NoPull \in PullT /\ NoPull.at = "none" /\ NoPull.obj = 0
  BY DEF NoPull, PullT
<1>4. pulls \in [Models -> PullT] /\ \A m \in Models : pulls[m] = NoPull
  BY <1>3 DEF Init
<1>5. Types
  <2>1. files = NoFiles /\ manager = 0 /\ robbed = {} /\ unpruned \in BOOLEAN
    BY DEF Init
  <2> QED BY <1>1, <1>2, <1>3, <1>4, <2>1 DEF Types
<1>6. LeaderInv /\ JoinInv
  BY <1>3, <1>4 DEF LeaderInv, JoinInv, Leads
<1>7. ManagerInv /\ RefsExact
  BY <1>2 DEF ManagerInv, RefsExact
<1> QED BY <1>5, <1>6, <1>7 DEF ControlInv

(* The manager, the leaders and the references agree in every state.       *)
THEOREM ManagerExact == Spec => []ControlInv
<1>1. Init => ControlInv
  BY InitControl
<1>2. ControlInv /\ [Next]_vars => ControlInv'
  BY NextControl
<1> QED BY <1>1, <1>2, PTL DEF Spec

(* Two downloads never work on the part files and the partial file.        *)
THEOREM SingleWriter == Spec => []OneWriter
<1>1. ControlInv => OneWriter
  BY DEF ControlInv, ManagerInv, OneWriter, Active
<1> QED BY <1>1, ManagerExact, PTL

(* blobDownload.references counts the pulls in Wait.                       *)
THEOREM ReferencesExact == Spec => []RefsExact
<1>1. ControlInv => RefsExact
  BY DEF ControlInv
<1> QED BY <1>1, ManagerExact, PTL

-----------------------------------------------------------------------------
(* What a DELETE knows of the manifests.                                   *)

(* Only DELETEs, manifests that are finished and starts change it.         *)
LEMMA DeletingKept ==
  /\ \A m \in Models :
       \/ Stat(m) \/ LoadOrStore(m) \/ PrepareRead(m) \/ PrepareUnreadable(m) \/ PrepareHead(m)
       \/ HeadFails(m) \/ NewPart(m) \/ NewPartFails(m) \/ Acquire(m) \/ Return(m) \/ Leave(m)
       \/ Block(m) \/ Verify(m) \/ WriteManifest(m) \/ ManifestFails(m)
       => deleting' = deleting
  /\ \A o : Run(o) => deleting' = deleting
<1>1. ASSUME NEW m \in Models,
             \/ Stat(m) \/ LoadOrStore(m) \/ PrepareRead(m) \/ PrepareUnreadable(m) \/ PrepareHead(m)
             \/ HeadFails(m) \/ NewPart(m) \/ NewPartFails(m) \/ Acquire(m) \/ Return(m) \/ Leave(m)
             \/ Block(m) \/ Verify(m) \/ WriteManifest(m) \/ ManifestFails(m)
      PROVE  deleting' = deleting
  BY <1>1 DEF Stat, LoadOrStore, PrepareRead, PrepareUnreadable, PrepareHead, HeadFails, PrepareFails,
              NewPart, NewPartFails, Acquire, Return, Leave, Block, Verify, WriteManifest, ManifestFails
<1>2. ASSUME NEW o, Run(o) PROVE deleting' = deleting
  BY <1>2 DEF Run, RunStart, RunUrl, ChunksDone, RemovePart, Rename, RunFails, RunDelete, RunClose,
              Chunk, SavePart, ChunkFails, SaveFails, ChunkDone, ChunkCancelled
<1> QED BY <1>1, <1>2

(* run touches no manifest, and the blob only when it is complete.         *)
LEMMA RunFiles ==
  ASSUME Types, NEW o \in 1 .. Len(objs), Run(o)
  PROVE  files'.manifests = files.manifests /\ (files'.blob = files.blob \/ Rename(o))
<1>t. files \in FilesT
  BY DEF Types
<1>1. CASE RunUrl(o) \/ RunFails(o) \/ ChunksDone(o) \/ RunDelete(o) \/ RunClose(o)
  BY <1>t, <1>1, QuietRunShape
<1>2. CASE RunStart(o)
  BY <1>t, <1>2, RunStartShape, OpenedType, SMTT(40)
<1>3. CASE RemovePart(o)
  BY <1>t, <1>3, RemovePartShape DEF FilesT
<1>4. ASSUME NEW k \in Parts, Chunk(o, k)
      PROVE  files'.blob = files.blob /\ files'.manifests = files.manifests
  BY <1>t, <1>4, ChunkShape
<1>5. ASSUME NEW k \in Parts,
             SavePart(o, k) \/ ChunkFails(o, k) \/ SaveFails(o, k) \/ ChunkDone(o, k) \/ ChunkCancelled(o, k)
      PROVE  files'.blob = files.blob /\ files'.manifests = files.manifests
  <2>1. \/ files' = files
        \/ files' = [files EXCEPT !.parts = [files.parts EXCEPT ![k] = objs[o].parts[k]]]
        \/ files' = [files EXCEPT !.parts = [files.parts EXCEPT ![k] = Torn]]
    BY <1>t, <1>5, PartShape
  <2> QED BY <1>t, <2>1 DEF FilesT
<1>6. CASE Rename(o)
  BY <1>t, <1>6, RenameShape
<1> QED BY <1>1, <1>2, <1>3, <1>4, <1>5, <1>6 DEF Run

(* Prepare touches neither blob nor manifests.                             *)
LEMMA PrepareFiles ==
  ASSUME ControlInv, NEW m \in Models,
         \/ PrepareRead(m) \/ PrepareUnreadable(m) \/ PrepareHead(m) \/ HeadFails(m)
         \/ NewPart(m) \/ NewPartFails(m)
  PROVE  files'.blob = files.blob /\ files'.manifests = files.manifests
<1>t. files \in FilesT
  BY DEF ControlInv, Types
<1>1. CASE PrepareRead(m) \/ PrepareUnreadable(m) \/ PrepareHead(m) \/ HeadFails(m)
  BY <1>1 DEF PrepareRead, PrepareUnreadable, PrepareHead, HeadFails
<1>2. CASE NewPart(m)
  <2>1. files' = [files EXCEPT !.parts = [files.parts EXCEPT ![Cardinality(Present(objs[pulls[m].obj].parts))] = 0]]
    BY <1>2, NewPartShape
  <2> QED BY <1>t, <2>1 DEF FilesT
<1>3. CASE NewPartFails(m)
  <2>1. PICK k, fault : files' = Damaged(files, k, fault)
    BY <1>3 DEF NewPartFails
  <2> QED BY <1>t, <2>1 DEF FilesT, Damaged
<1> QED BY <1>1, <1>2, <1>3

(* What the steps of PullModel after the download do to the files.         *)
LEMMA TailFiles ==
  ASSUME ControlInv, NEW m \in Models,
         Verify(m) \/ WriteManifest(m) \/ FinishManifest(m) \/ ManifestFails(m)
  PROVE  /\ files'.parts = files.parts /\ files'.data = files.data /\ files'.len = files.len
         /\ files'.spoilt = files.spoilt
         /\ Verify(m) => files'.manifests = files.manifests
         /\ WriteManifest(m) =>
              files'.manifests = [files.manifests EXCEPT ![m] = "torn"] /\ files'.blob = files.blob
         /\ FinishManifest(m) =>
              files'.manifests = [files.manifests EXCEPT ![m] = Finished(m)] /\ files'.blob = files.blob
         /\ ManifestFails(m) => files' = files
<1>t. files \in FilesT
  BY DEF ControlInv, Types
<1>0. ManifestFails(m) => files' = files
  BY DEF ManifestFails
<1>1. Verify(m) =>
        /\ files'.parts = files.parts /\ files'.data = files.data /\ files'.len = files.len
        /\ files'.spoilt = files.spoilt /\ files'.manifests = files.manifests
  BY <1>t DEF Verify, FilesT
<1>2. WriteManifest(m) =>
        /\ files'.parts = files.parts /\ files'.data = files.data /\ files'.len = files.len
        /\ files'.spoilt = files.spoilt /\ files'.blob = files.blob
        /\ files'.manifests = [files.manifests EXCEPT ![m] = "torn"]
  BY <1>t DEF WriteManifest, FilesT
<1>3. FinishManifest(m) =>
        /\ files'.parts = files.parts /\ files'.data = files.data /\ files'.len = files.len
        /\ files'.spoilt = files.spoilt /\ files'.blob = files.blob
        /\ files'.manifests = [files.manifests EXCEPT ![m] = Finished(m)]
  BY <1>t DEF FinishManifest, Finished, FilesT
<1> QED BY <1>0, <1>1, <1>2, <1>3

(* A manifest that is finished is late for a DELETE that passed it, and    *)
(* nothing else changes.                                                   *)
LEMMA FinishShape ==
  ASSUME LookInv, NEW m \in Models, FinishManifest(m)
  PROVE  /\ deleting' \in [Models -> [Models -> Knowledge]]
         /\ \A d, q \in Models :
              deleting'[d][q] = IF q = m /\ deleting[d][q] = "passed" /\ files.manifests[m] = "torn"
                              THEN "late" ELSE deleting[d][q]
<1> DEFINE late(d) ==
      [deleting[d] EXCEPT ![m] = IF deleting[d][m] = "passed" /\ files.manifests[m] = "torn"
                                 THEN "late" ELSE deleting[d][m]]
<1>1. deleting' = [d \in Models |-> late(d)]
  BY DEF FinishManifest
<1>2. ASSUME NEW d \in Models
      PROVE  /\ late(d) \in [Models -> Knowledge]
             /\ \A q \in Models :
                  late(d)[q] = IF q = m /\ deleting[d][q] = "passed" /\ files.manifests[m] = "torn"
                              THEN "late" ELSE deleting[d][q]
  <2>1. deleting[d] \in [Models -> Knowledge] /\ "late" \in Knowledge
    BY DEF LookInv, Knowledge
  <2> QED BY <2>1
<1> HIDE DEF late
<1> QED BY <1>1, <1>2

(* A DELETE goes on in one of these ways.                                  *)
LEMMA LayerShape ==
  ASSUME LookInv, NEW m \in Models, RemoveLayers(m)
  PROVE  /\ deleting' \in [Models -> [Models -> Knowledge]]
         /\ \A d \in Models : d # m => deleting'[d] = deleting[d]
         /\ \/ files' = files /\ robbed' = robbed /\ deleting'[m] = NotDeleting
               /\ \E q \in Models : deleting[m][q] = "listed"
            \/ /\ files' = files /\ robbed' = robbed
               /\ \E q \in Models : deleting[m][q] \in {"ahead", "listed"}
               /\ \A q \in Models :
                    \/ deleting'[m][q] = deleting[m][q]
                    \/ deleting[m][q] \in {"ahead", "listed"} /\ deleting'[m][q] = "listed"
                    \/ deleting[m][q] \in {"ahead", "listed"} /\ deleting'[m][q] = "passed"
                       /\ files.manifests[q] # "ok"
            \/ RemoveLayer(m) /\ deleting'[m] = NotDeleting
<1>t. /\ deleting \in [Models -> [Models -> Knowledge]] /\ NotDeleting \in [Models -> Knowledge]
      /\ {"ahead", "listed", "passed"} \subseteq Knowledge
  BY DEF LookInv, Knowledge, NotDeleting
<1>1. ASSUME NEW k \in [Models -> Knowledge], deleting' = [deleting EXCEPT ![m] = k]
      PROVE  /\ deleting' \in [Models -> [Models -> Knowledge]] /\ deleting'[m] = k
             /\ \A d \in Models : d # m => deleting'[d] = deleting[d]
  BY <1>t, <1>1
<1>2. CASE ListManifests(m)
  <2> DEFINE k == [q \in Models |-> IF files.manifests[q] = "none" THEN "passed" ELSE "listed"]
  <2>1. /\ \A q \in Models : deleting[m][q] = "ahead"
        /\ deleting' = [deleting EXCEPT ![m] = k] /\ files' = files /\ robbed' = robbed
    BY <1>2 DEF ListManifests
  <2>2. k \in [Models -> Knowledge]
    BY <1>t
  <2>3. \A q \in Models : k[q] = "listed" \/ (k[q] = "passed" /\ files.manifests[q] # "ok")
    OBVIOUS
  <2> HIDE DEF k
  <2>4. /\ deleting' \in [Models -> [Models -> Knowledge]] /\ deleting'[m] = k
        /\ \A d \in Models : d # m => deleting'[d] = deleting[d]
    BY <1>1, <2>1, <2>2
  <2> QED BY <2>1, <2>3, <2>4
<1>3. ASSUME NEW q \in Models, deleting[m][q] = "listed", files.manifests[q] # "ok",
             deleting' = [deleting EXCEPT ![m][q] = "passed"], files' = files, robbed' = robbed
      PROVE  /\ deleting' \in [Models -> [Models -> Knowledge]]
             /\ \A d \in Models : d # m => deleting'[d] = deleting[d]
             /\ \A p \in Models :
                  \/ deleting'[m][p] = deleting[m][p]
                  \/ deleting[m][p] \in {"ahead", "listed"} /\ deleting'[m][p] = "passed"
                     /\ files.manifests[p] # "ok"
  <2> DEFINE k == [deleting[m] EXCEPT ![q] = "passed"]
  <2>1. deleting[m] \in [Models -> Knowledge] /\ "passed" \in Knowledge
    BY <1>t
  <2>2. k \in [Models -> Knowledge] /\ k[q] = "passed" /\ \A p \in Models : p # q => k[p] = deleting[m][p]
    BY <2>1
  <2>3. deleting' = [deleting EXCEPT ![m] = k]
    BY <1>3
  <2> HIDE DEF k
  <2>4. /\ deleting' \in [Models -> [Models -> Knowledge]] /\ deleting'[m] = k
        /\ \A d \in Models : d # m => deleting'[d] = deleting[d]
    BY <1>1, <2>2, <2>3
  <2> QED BY <1>3, <2>2, <2>4
<1>4. ASSUME NEW q \in Models, ReadManifest(m, q), files.manifests[q] # "ok"
      PROVE  /\ deleting[m][q] = "listed" /\ deleting' = [deleting EXCEPT ![m][q] = "passed"]
             /\ files' = files /\ robbed' = robbed
  BY <1>4 DEF ReadManifest
<1>5. ASSUME NEW q \in Models,
             (ReadManifest(m, q) /\ files.manifests[q] = "ok") \/ MissManifest(m, q)
      PROVE  /\ deleting[m][q] = "listed" /\ deleting' = [deleting EXCEPT ![m] = NotDeleting]
             /\ files' = files /\ robbed' = robbed
  BY <1>5 DEF ReadManifest, MissManifest
<1>6. CASE RemoveLayer(m)
  <2>1. deleting' = [deleting EXCEPT ![m] = NotDeleting]
    BY <1>6 DEF RemoveLayer
  <2> QED BY <1>t, <1>1, <1>6, <2>1
<1>7. CASE \E q \in Models : ReadManifest(m, q) /\ files.manifests[q] # "ok"
  <2>1. PICK q \in Models : ReadManifest(m, q) /\ files.manifests[q] # "ok"
    BY <1>7
  <2>2. /\ deleting[m][q] = "listed" /\ deleting' = [deleting EXCEPT ![m][q] = "passed"]
        /\ files' = files /\ robbed' = robbed
    BY <1>4, <2>1
  <2> QED BY <1>3, <2>1, <2>2
<1>8. CASE \E q \in Models : (ReadManifest(m, q) /\ files.manifests[q] = "ok") \/ MissManifest(m, q)
  <2>1. PICK q \in Models : (ReadManifest(m, q) /\ files.manifests[q] = "ok") \/ MissManifest(m, q)
    BY <1>8
  <2>2. /\ deleting[m][q] = "listed" /\ deleting' = [deleting EXCEPT ![m] = NotDeleting]
        /\ files' = files /\ robbed' = robbed
    BY <1>5, <2>1
  <2> QED BY <1>t, <1>1, <2>2
<1> QED BY <1>2, <1>6, <1>7, <1>8 DEF RemoveLayers

(* LookInv is inductive.                                                   *)
LEMMA NextLook ==
  ASSUME ControlInv, LookInv, [Next]_vars
  PROVE  LookInv'
<1>t. Types /\ files \in FilesT /\ files.manifests \in [Models -> {"none", "torn", "ok"}]
  BY DEF ControlInv, Types, FilesT
<1>0. ASSUME deleting' = deleting,
             \A q \in Models : files'.manifests[q] = "ok" => files.manifests[q] = "ok"
      PROVE  LookInv'
  BY <1>0 DEF LookInv
<1>1. ASSUME NEW m \in Models,
             Stat(m) \/ LoadOrStore(m) \/ Acquire(m) \/ Return(m) \/ Leave(m) \/ Block(m) \/ ManifestFails(m)
      PROVE  LookInv'
  <2>1. files' = files
    BY <1>1 DEF Stat, LoadOrStore, Acquire, Return, Leave, Block, ManifestFails
  <2> QED BY <1>0, <1>1, <2>1, DeletingKept
<1>2. ASSUME NEW m \in Models,
             \/ PrepareRead(m) \/ PrepareUnreadable(m) \/ PrepareHead(m) \/ HeadFails(m)
             \/ NewPart(m) \/ NewPartFails(m)
      PROVE  LookInv'
  BY <1>0, <1>2, PrepareFiles, DeletingKept
<1>3. ASSUME NEW m \in Models, Verify(m) \/ WriteManifest(m) PROVE LookInv'
  <2>1. files'.manifests = files.manifests \/ files'.manifests = [files.manifests EXCEPT ![m] = "torn"]
    BY <1>3, TailFiles
  <2> QED BY <1>t, <1>0, <1>3, <2>1, DeletingKept
<1>4. ASSUME NEW m \in Models, FinishManifest(m) PROVE LookInv'
  <2>1. files'.manifests = [files.manifests EXCEPT ![m] = Finished(m)]
    BY <1>4, TailFiles
  <2>2. /\ deleting' \in [Models -> [Models -> Knowledge]]
        /\ \A d, q \in Models :
             deleting'[d][q] = IF q = m /\ deleting[d][q] = "passed" /\ files.manifests[m] = "torn"
                              THEN "late" ELSE deleting[d][q]
    BY <1>4, FinishShape
  <2> QED BY <1>t, <2>1, <2>2 DEF LookInv, Finished
<1>d. ASSUME NEW m \in Models, DeleteHandler(m) PROVE LookInv'
  <2> DEFINE k == [q \in Models |-> "found"]
  <2>1. deleting' = [deleting EXCEPT ![m] = k] /\ files' = files
    BY <1>d DEF DeleteHandler
  <2>2. k \in [Models -> Knowledge] /\ \A q \in Models : k[q] = "found"
    BY DEF Knowledge
  <2> HIDE DEF k
  <2> QED BY <2>1, <2>2 DEF LookInv
<1>5. ASSUME NEW m \in Models, DeleteManifest(m) PROVE LookInv'
  <2> DEFINE k == [q \in Models |-> "ahead"]
  <2>1. /\ deleting' = [deleting EXCEPT ![m] = k]
        /\ files' = [files EXCEPT !.manifests = [files.manifests EXCEPT ![m] = "none"]]
    BY <1>5 DEF DeleteManifest
  <2>2. k \in [Models -> Knowledge] /\ \A q \in Models : k[q] = "ahead"
    BY DEF Knowledge
  <2> HIDE DEF k
  <2>3. files'.manifests = [files.manifests EXCEPT ![m] = "none"]
    BY <1>t, <2>1 DEF FilesT
  <2>4. \A q \in Models : files'.manifests[q] = "ok" => files.manifests[q] = "ok"
    BY <1>t, <2>3
  <2> QED BY <2>1, <2>2, <2>4 DEF LookInv
<1>6. ASSUME NEW m \in Models, RemoveLayers(m) PROVE LookInv'
  <2>1. files'.manifests = files.manifests
    BY <1>t, <1>6 DEF RemoveLayers, ListManifests, ReadManifest, MissManifest, RemoveLayer, FilesT
  <2>2. \A q \in Models : NotDeleting[q] # "passed"
    BY DEF NotDeleting
  <2>3. /\ deleting' \in [Models -> [Models -> Knowledge]]
        /\ \A d \in Models : d # m => deleting'[d] = deleting[d]
        /\ \A q \in Models :
             deleting'[m][q] = "passed" => deleting[m][q] = "passed" \/ files.manifests[q] # "ok"
    BY <1>6, <2>2, LayerShape
  <2> QED BY <2>1, <2>3 DEF LookInv
<1>7. ASSUME NEW o \in 1 .. Len(objs), Run(o) PROVE LookInv'
  BY <1>t, <1>0, <1>7, RunFiles, DeletingKept
<1>8. CASE Crash \/ \E m \in Models : LeavePanics(m)
  <2>1. deleting' = [m \in Models |-> NotDeleting]
    BY <1>8 DEF Crash, LeavePanics, Restart
  <2>2. NotDeleting \in [Models -> Knowledge] /\ \A q \in Models : NotDeleting[q] = "none"
    BY DEF NotDeleting, Knowledge
  <2> QED BY <2>1, <2>2 DEF LookInv
<1>9. CASE UNCHANGED vars
  BY <1>0, <1>9 DEF vars
<1> QED BY <1>1, <1>2, <1>3, <1>4, <1>d, <1>5, <1>6, <1>7, <1>8, <1>9 DEF Next, PullStep

-----------------------------------------------------------------------------
(***************************************************************************)
(* DownloadInv is inductive, and what follows: resumed downloads skip      *)
(* nothing, manifests name whole blobs, and the downloads implement        *)
(* BlobPull.                                                               *)
(*                                                                         *)
(* Two hypotheses on the environment: the registry delivers the right      *)
(* bytes (downloads are verified, cache hits are not), and of the          *)
(* operations on files, the writes and those on the partial file may fail, *)
(* so that a part file that cannot be written is left there, unreadable.   *)
(* If a part file could not be created, or some but not all could be       *)
(* removed, those that are there would pass for the part files of a        *)
(* download of fewer parts.                                                *)
(***************************************************************************)

(* Everybody else is idle while a run is under way.                        *)
LEMMA Alone ==
  ASSUME ControlInv, NEW o \in 1 .. Len(objs),
         objs[o].at \notin {"prepare", "abandoned", "close", "done"}
  PROVE  /\ \A m \in Models : ~Leads(m)
         /\ \A p \in 1 .. Len(objs) : p # o => objs[p].at \in {"abandoned", "close", "done"}
<1>1. \A m \in Models : Leads(m) =>
        pulls[m].obj \in 1 .. Len(objs) /\ objs[pulls[m].obj].at = "prepare" /\ manager = pulls[m].obj
  BY Leader
<1>2. manager = o
  BY DEF ControlInv, ManagerInv
<1> QED BY <1>1, <1>2 DEF ControlInv, ManagerInv

(* What pulls have seen does not change with the partial file.             *)
LEMMA BlobStill ==
  ASSUME BlobInv, files'.blob = files.blob, files'.manifests = files.manifests, robbed' = robbed, pulls' = pulls
  PROVE  BlobInv'
  BY DEF BlobInv, HasSeen

(* A step of the run under way.                                            *)
LEMMA RunDisk ==
  ASSUME ControlInv, DiskInv, NEW o \in 1 .. Len(objs), Advances(o), objs[o].at # "close",
         Running(o)', Settled' \/ objs'[o].at = "remove", PartialInv', BlobInv'
  PROVE  DiskInv'
<1>1. /\ objs[o].at \notin {"prepare", "abandoned", "close", "done"} /\ pulls' = pulls
      /\ Len(objs') = Len(objs) /\ \A p \in 1 .. Len(objs) : p # o => objs'[p] = objs[p]
  BY DEF Advances, Touches
<1>2. /\ \A m \in Models : ~Leads(m)
      /\ \A p \in 1 .. Len(objs) : p # o => objs[p].at \in {"abandoned", "close", "done"}
  BY <1>1, Alone
<1>3. \A m \in Models : Preparing(m)'
  BY <1>1, <1>2 DEF Preparing, Leads
<1>4. \A p \in 1 .. Len(objs) : p # o => Running(p)'
  BY <1>1, <1>2 DEF Running
<1>5. SettledInv'
  BY <1>1 DEF SettledInv
<1> QED BY <1>1, <1>3, <1>4, <1>5 DEF DiskInv

(* run closes its channel.                                                 *)
LEMMA RunCloseDisk ==
  ASSUME ControlInv, DiskInv, NEW o \in 1 .. Len(objs), RunClose(o)
  PROVE  DiskInv'
<1>1. /\ Advances(o) /\ files' = files /\ objs[o].at = "close" /\ robbed' = robbed /\ pulls' = pulls
  BY QuietRunShape DEF ControlInv, RunClose
<1>2. /\ Len(objs') = Len(objs) /\ objs'[o].at \in {"done", "close"}
      /\ \A p \in 1 .. Len(objs) : p # o => objs'[p] = objs[p]
  BY <1>1 DEF Advances, Touches
<1>3. \A m \in Models : Preparing(m)'
  <2>1. \A m \in Models : Leads(m) => pulls[m].obj \in 1 .. Len(objs) /\ pulls[m].obj # o
    BY <1>1, Leader
  <2>2. \A m \in Models : Leads(m) => Preparing(m)'
    BY <1>1, <1>2, <2>1 DEF DiskInv, Preparing
  <2>3. \A m \in Models : ~Leads(m) => Preparing(m)'
    BY <1>1 DEF Preparing, Leads
  <2> QED BY <2>2, <2>3
<1>4. \A p \in 1 .. Len(objs) : Running(p)'
  <2>1. \A p \in 1 .. Len(objs) : p # o => Running(p)'
    BY <1>1, <1>2 DEF DiskInv, Running
  <2>2. Running(o)'
    BY <1>2 DEF Running
  <2> QED BY <2>1, <2>2
<1>5. SettledInv'
  <2>1. \A p \in 1 .. Len(objs) : objs[p].at = "remove" => objs'[p].at = "remove"
    BY <1>1, <1>2
  <2> QED BY <1>1, <1>2, <2>1 DEF DiskInv, SettledInv, Settled
<1>6. PartialInv' /\ BlobInv'
  BY <1>1, BlobStill DEF DiskInv, PartialInv
<1> QED BY <1>2, <1>3, <1>4, <1>5, <1>6 DEF DiskInv

(* run opens the partial file: a download of all parts loses nothing.      *)
LEMMA RunStartDisk ==
  ASSUME ControlInv, DiskInv, NEW o \in 1 .. Len(objs), RunStart(o)
  PROVE  DiskInv'
<1>t. Types /\ files \in FilesT
  BY DEF ControlInv, Types
<1>1. /\ Advances(o) /\ objs[o].at = "start" /\ objs'[o].at = "url" /\ pulls' = pulls
      /\ objs'[o].parts = objs[o].parts /\ objs'[o].removed = objs[o].removed
      /\ objs'[o].failed = objs[o].failed
      /\ Total(o) \in Int /\ files' = Opened(files, Total(o)) /\ robbed' = robbed
  BY <1>t, RunStartShape DEF Advances
<1>2. /\ \A k \in Parts : objs[o].parts[k] \in 0 .. files.data[k] /\ files.parts[k] # Missing
      /\ ~objs[o].failed /\ objs[o].removed = 0
  BY <1>1 DEF DiskInv, Running
<1>3. /\ \A k \in Parts : files.data[k] \in 0 .. PartSize /\ files.parts[k] \in -2 .. files.data[k]
      /\ ~files.spoilt
  BY DEF DiskInv, PartialInv
<1>4. Total(o) = NParts * PartSize
  <2>1. \A k \in Parts : objs[o].parts[k] # Missing
    BY <1>2, <1>3, DownloadAssumption DEF Missing
  <2>2. Total(o) = PartSize * NParts
    BY <2>1, AllPresent DEF Total
  <2> QED BY <2>2, DownloadAssumption
<1>5. /\ files'.parts = files.parts /\ files'.blob = files.blob /\ files'.manifests = files.manifests
      /\ files'.len = NParts * PartSize /\ files'.spoilt = files.spoilt
  BY <1>t, <1>1, <1>4, OpenedType
<1>6. ASSUME NEW k \in Parts PROVE files'.data[k] = files.data[k]
  <2> DEFINE rest == NParts * PartSize - k * PartSize
  <2>1. rest \in Int /\ rest >= PartSize /\ PartSize \in Nat
    BY PartEnds, DownloadAssumption
  <2>2. files'.data[k] = Max({0, Min({files.data[k], rest})})
    <3>1. \A i \in Parts : Opened(files, Total(o)).data[i]
                           = Max({0, Min({files.data[i], Total(o) - i * PartSize})})
      BY <1>t, <1>1, OpenedType
    <3>2. files'.data[k] = Max({0, Min({files.data[k], Total(o) - k * PartSize})})
      BY <1>1, <3>1
    <3> QED BY <1>4, <3>2
  <2> HIDE DEF rest
  <2>3. files.data[k] \in Nat /\ files.data[k] <= PartSize
    BY <1>3, <2>1
  <2>4. Min({files.data[k], rest}) = files.data[k]
    <3>1. files.data[k] \in Int /\ files.data[k] <= rest
      BY <2>1, <2>3
    <3> QED BY <2>1, <3>1, MaxMin
  <2>5. Max({0, files.data[k]}) = files.data[k]
    BY <2>3, MaxMin
  <2> QED BY <2>2, <2>4, <2>5
<1>7. PartialInv'
  BY <1>3, <1>5, <1>6 DEF PartialInv
<1>8. Running(o)'
  BY <1>1, <1>2, <1>5, <1>6 DEF Running
<1>9. Settled'
  BY <1>2, <1>5 DEF Settled
<1>10. BlobInv'
  BY <1>1, <1>5, BlobStill DEF DiskInv
<1> QED BY <1>1, <1>7, <1>8, <1>9, <1>10, RunDisk

(* The direct URL is there, or the download fails.                         *)
LEMMA RunUrlDisk ==
  ASSUME ControlInv, DiskInv, NEW o \in 1 .. Len(objs), RunUrl(o)
  PROVE  DiskInv'
<1>t. Types /\ objs[o] \in ObjT /\ objs \in Seq(ObjT) /\ o \in DOMAIN objs
  BY OneObj DEF ControlInv, Types
<1>1. Advances(o) /\ files' = files /\ objs[o].at = "url" /\ robbed' = robbed /\ pulls' = pulls
  BY <1>t, QuietRunShape DEF RunUrl
<1>2. /\ objs'[o].at \in {"chunks", "delete"} /\ objs'[o].parts = objs[o].parts
      /\ objs'[o].removed = objs[o].removed
      /\ \A k \in Parts : objs'[o].job[k] = "stop" => objs[o].parts[k] \notin 0 .. PartSize - 1
  <2> DEFINE j == [k \in Parts |-> IF objs[o].parts[k] \in 0 .. PartSize - 1 THEN "get" ELSE "stop"]
  <2>1. PICK ok \in BOOLEAN :
          objs' = [objs EXCEPT ![o] =
            [objs[o] EXCEPT !.at = IF ok THEN "chunks" ELSE "delete", !.failed = ~ok, !.job = j]]
    BY <1>t DEF RunUrl
  <2>2. \A k \in Parts : j[k] = "stop" => objs[o].parts[k] \notin 0 .. PartSize - 1
    OBVIOUS
  <2> HIDE DEF j
  <2>3. objs'[o] = [objs[o] EXCEPT !.at = IF ok THEN "chunks" ELSE "delete", !.failed = ~ok, !.job = j]
    BY <1>t, <2>1
  <2>4. /\ objs'[o].at \in {"chunks", "delete"} /\ objs'[o].parts = objs[o].parts
        /\ objs'[o].removed = objs[o].removed /\ objs'[o].job = j
    BY <1>t, <2>3 DEF ObjT
  <2> QED BY <2>2, <2>4
<1>3. \A k \in Parts : objs[o].parts[k] \in 0 .. files.data[k] /\ files.parts[k] # Missing
      /\ files.data[k] \in 0 .. PartSize
  BY <1>1 DEF DiskInv, Running, PartialInv
<1>4. \A k \in Parts : objs'[o].job[k] = "stop" => objs'[o].parts[k] = PartSize
  BY <1>2, <1>3, DownloadAssumption
<1>5. Running(o)'
  BY <1>1, <1>2, <1>3, <1>4 DEF DiskInv, Running
<1>6. Settled'
  BY <1>1, <1>3 DEF Settled
<1>7. PartialInv' /\ BlobInv'
  BY <1>1, BlobStill DEF DiskInv, PartialInv
<1> QED BY <1>1, <1>5, <1>6, <1>7, RunDisk

(* A download that has not failed has everything.                          *)
LEMMA ChunksDoneDisk ==
  ASSUME ControlInv, DiskInv, NEW o \in 1 .. Len(objs), ChunksDone(o)
  PROVE  DiskInv'
<1>t. Types /\ objs[o] \in ObjT /\ objs \in Seq(ObjT) /\ o \in DOMAIN objs
  BY OneObj DEF ControlInv, Types
<1>1. /\ Advances(o) /\ files' = files /\ objs[o].at = "chunks" /\ robbed' = robbed /\ pulls' = pulls
      /\ \A k \in Parts : objs[o].job[k] = "stop"
  BY <1>t, QuietRunShape DEF ChunksDone
<1>2. /\ objs'[o].at = IF objs[o].failed THEN "delete" ELSE "remove"
      /\ objs'[o].parts = objs[o].parts /\ objs'[o].removed = objs[o].removed
  BY <1>t DEF ChunksDone, ObjT
<1>3. /\ \A k \in Parts : objs[o].parts[k] \in 0 .. files.data[k] /\ files.parts[k] # Missing
                          /\ files.data[k] \in 0 .. PartSize
      /\ objs[o].removed = 0 /\ files.len = NParts * PartSize
      /\ ~objs[o].failed => \A k \in Parts : objs[o].parts[k] = PartSize
  BY <1>1 DEF DiskInv, Running, PartialInv
<1>4. Settled'
  BY <1>1, <1>3 DEF Settled
<1>5. PartialInv' /\ BlobInv'
  BY <1>1, BlobStill DEF DiskInv, PartialInv
<1>6. Running(o)'
  <2>1. CASE objs[o].failed
    BY <1>2, <2>1 DEF Running
  <2>2. CASE ~objs[o].failed
    <3>1. objs'[o].at = "remove" /\ objs'[o].removed = 0 /\ 0 < NParts
      BY <1>2, <1>3, <2>2, DownloadAssumption
    <3>2. \A k \in Parts : files'.data[k] = PartSize /\ objs'[o].parts[k] # Missing /\ files'.parts[k] # Missing
      BY <1>1, <1>2, <1>3, <2>2, DownloadAssumption DEF Missing
    <3>3. \A k \in Parts : ~(k < 0)
      BY DownloadAssumption DEF Parts
    <3> QED BY <1>1, <1>3, <3>1, <3>2, <3>3 DEF Running
  <2> QED BY <2>1, <2>2
<1> QED BY <1>1, <1>4, <1>5, <1>6, RunDisk

(* The part files of a complete download go, one after the other.          *)
LEMMA RemovePartDisk ==
  ASSUME ControlInv, DiskInv, NEW o \in 1 .. Len(objs), RemovePart(o)
  PROVE  DiskInv'
<1>t. Types /\ objs[o] \in ObjT /\ files \in FilesT
  BY OneObj DEF ControlInv, Types
<1> DEFINE i == objs[o].removed
<1>1. /\ Advances(o) /\ objs[o].at = "remove" /\ robbed' = robbed /\ pulls' = pulls
      /\ files' = [files EXCEPT !.parts = [files.parts EXCEPT ![i] = Missing]]
      /\ objs'[o].parts = objs[o].parts /\ objs'[o].removed = i + 1
      /\ objs'[o].at = IF files.parts[i] = Missing THEN "delete"
                       ELSE IF i + 1 = Cardinality(Present(objs[o].parts)) THEN "rename" ELSE "remove"
  BY <1>t, RemovePartShape DEF Advances
<1>2. /\ files.len = NParts * PartSize /\ i < NParts
      /\ \A k \in Parts : /\ files.data[k] = PartSize /\ objs[o].parts[k] # Missing
                          /\ files.parts[k] = Missing <=> k < i
  BY <1>1 DEF DiskInv, Running
<1>3. i \in Parts /\ i \in Nat
  BY <1>t, <1>2, DownloadAssumption DEF Parts, ObjT
<1>4. objs'[o].at = IF i + 1 = NParts THEN "rename" ELSE "remove"
  <2>1. files.parts[i] # Missing
    BY <1>2, <1>3
  <2>2. Cardinality(Present(objs[o].parts)) = NParts
    BY <1>2, AllPresent
  <2> QED BY <1>1, <2>1, <2>2
<1>5. /\ files'.data = files.data /\ files'.len = files.len /\ files'.spoilt = files.spoilt
      /\ files'.blob = files.blob /\ files'.manifests = files.manifests
      /\ files'.parts = [files.parts EXCEPT ![i] = Missing]
  BY <1>t, <1>1 DEF FilesT
<1>6. files.parts \in [Parts -> Int] /\ files'.parts \in [Parts -> Int]
  BY <1>t, <1>5, PartsExcept DEF FilesT, Missing
<1>7. \A k \in Parts : files'.parts[k] = IF k = i THEN Missing ELSE files.parts[k]
  BY <1>5, <1>6
<1>8. \A k \in Parts : files'.parts[k] = Missing <=> k < i + 1
  BY <1>2, <1>3, <1>7 DEF Parts
<1>9. PartialInv'
  <2>1. \A k \in Parts : files'.parts[k] \in -2 .. files'.data[k]
    BY <1>2, <1>5, <1>7, DownloadAssumption DEF DiskInv, PartialInv, Missing
  <2> QED BY <1>5, <2>1 DEF DiskInv, PartialInv
<1>10. Running(o)' /\ (Settled' \/ objs'[o].at = "remove")
  <2>1. CASE i + 1 = NParts
    <3>1. \A k \in Parts : files'.parts[k] = Missing
      BY <1>8, <2>1, DownloadAssumption DEF Parts
    <3>2. files'.parts = Prefix(0)
      BY <1>6, <3>1, PrefixNone
    <3>3. objs'[o].at = "rename"
      BY <1>4, <2>1
    <3> QED BY <1>1, <1>2, <1>5, <3>1, <3>2, <3>3 DEF Running, Settled
  <2>2. CASE i + 1 # NParts
    <3>1. objs'[o].at = "remove" /\ i + 1 < NParts
      BY <1>2, <1>3, <1>4, <2>2, DownloadAssumption
    <3> QED BY <1>1, <1>2, <1>5, <1>8, <3>1 DEF Running
  <2> QED BY <2>1, <2>2
<1>11. BlobInv'
  BY <1>1, <1>5, BlobStill DEF DiskInv
<1> QED BY <1>1, <1>9, <1>10, <1>11, RunDisk

(* What is renamed is the whole blob.                                      *)
LEMMA RenameDisk ==
  ASSUME ControlInv, DiskInv, NEW o \in 1 .. Len(objs), Rename(o)
  PROVE  DiskInv' /\ files'.blob = "good"
<1>t. Types
  BY DEF ControlInv
<1>1. /\ Advances(o) /\ objs[o].at = "rename" /\ objs'[o].at = "delete"
      /\ files'.blob = IF Whole(files) THEN "good" ELSE "bad"
      /\ files'.parts = files.parts /\ files'.data = [k \in Parts |-> 0] /\ files'.spoilt = FALSE
      /\ robbed' = IF files'.blob = "good" THEN {} ELSE robbed
  BY <1>t, RenameShape
<1>2. /\ \A k \in Parts : files.data[k] = PartSize
      /\ files.len = NParts * PartSize /\ files.parts = Prefix(0) /\ ~files.spoilt
  BY <1>1 DEF DiskInv, Running, PartialInv
<1>3. files'.blob = "good" /\ robbed' = {}
  BY <1>1, <1>2 DEF Whole
<1>4. \A k \in Parts : files'.parts[k] = Missing /\ files'.data[k] = 0
  BY <1>1, <1>2, DownloadAssumption DEF Prefix, Parts
<1>5. PartialInv' /\ Settled'
  BY <1>1, <1>4, DownloadAssumption DEF PartialInv, Settled, Missing
<1>6. BlobInv'
  BY <1>3 DEF BlobInv
<1>7. Running(o)'
  BY <1>1 DEF Running
<1> QED BY <1>1, <1>3, <1>5, <1>6, <1>7, RunDisk

(* Bytes arrive where they belong.                                         *)
LEMMA ChunkDisk ==
  ASSUME Deliveries = {TRUE}, ControlInv, DiskInv, NEW o \in 1 .. Len(objs), NEW k \in Parts, Chunk(o, k)
  PROVE  DiskInv'
<1>t. Types /\ objs[o] \in ObjT /\ files \in FilesT
  BY OneObj DEF ControlInv, Types
<1> DEFINE d == objs[o]
<1>1. /\ Advances(o) /\ d.at = "chunks" /\ objs'[o].at = "chunks" /\ robbed' = robbed /\ pulls' = pulls
      /\ d.job[k] = "get" /\ objs'[o].job = [d.job EXCEPT ![k] = "save"]
      /\ objs'[o].failed = d.failed /\ objs'[o].removed = d.removed
      /\ files'.blob = files.blob /\ files'.parts = files.parts /\ files'.manifests = files.manifests
  BY <1>t, ChunkShape DEF Advances
<1>2. PICK n \in 1 .. PartSize - d.parts[k], right \in Deliveries :
        /\ objs'[o].parts = [d.parts EXCEPT ![k] = d.parts[k] + n]
        /\ files'.data = [files.data EXCEPT ![k] = Max({files.data[k], d.parts[k] + n})]
        /\ files'.len = Max({files.len, k * PartSize + d.parts[k] + n})
        /\ files'.spoilt = (files.spoilt \/ ~right)
  BY <1>t, ChunkShape
<1>3. /\ \A j \in Parts : d.parts[j] \in 0 .. files.data[j] /\ files.parts[j] # Missing
      /\ files.len = NParts * PartSize /\ d.removed = 0
      /\ \A j \in Parts : d.job[j] = "stop" /\ ~d.failed => d.parts[j] = PartSize
  BY <1>1 DEF DiskInv, Running
<1>4. /\ \A j \in Parts : files.data[j] \in 0 .. PartSize /\ files.parts[j] \in -2 .. files.data[j]
      /\ ~files.spoilt
  BY DEF DiskInv, PartialInv
<1>5. PartSize \in Nat /\ d.parts[k] \in Nat /\ n \in Nat /\ d.parts[k] + n \in 0 .. PartSize
      /\ files.data[k] \in 0 .. PartSize
  BY <1>2, <1>3, <1>4, DownloadAssumption
<1> DEFINE top == Max({files.data[k], d.parts[k] + n})
<1>6. top \in 0 .. PartSize /\ top >= files.data[k] /\ top >= d.parts[k] + n
  <2>1. files.data[k] \in Int /\ d.parts[k] + n \in Int
    BY <1>5
  <2>2. top = IF files.data[k] >= d.parts[k] + n THEN files.data[k] ELSE d.parts[k] + n
    BY <2>1, MaxMin
  <2> QED BY <1>5, <2>2, SMTT(40)
<1>7. files'.len = NParts * PartSize
  <2> DEFINE a == k * PartSize
             e == a + d.parts[k] + n
             l == NParts * PartSize
  <2>0. a \in Nat /\ l \in Nat /\ a + PartSize <= l
    BY PartEnds
  <2> HIDE DEF a, l
  <2>1. e \in Int /\ l \in Int /\ e <= l
    <3>1. PICK x \in Nat : x = d.parts[k] /\ x + n <= PartSize
      BY <1>5
    <3>2. a + x + n \in Int /\ a + x + n <= l
      BY <1>5, <2>0, <3>1, SMTT(40)
    <3> QED BY <2>0, <3>1, <3>2
  <2>2. files'.len = Max({l, e})
    BY <1>2, <1>3 DEF a, l
  <2> HIDE DEF e
  <2>3. Max({l, e}) = l
    BY <2>1, MaxMin
  <2> QED BY <2>2, <2>3 DEF l
<1> HIDE DEF top
<1>8. ~files'.spoilt
  BY <1>2, <1>4
<1>9. \A j \in Parts : /\ files'.data[j] = IF j = k THEN top ELSE files.data[j]
                       /\ objs'[o].parts[j] = IF j = k THEN d.parts[k] + n ELSE d.parts[j]
                       /\ objs'[o].job[j] = IF j = k THEN "save" ELSE d.job[j]
  <2>1. /\ files.data \in [Parts -> Int] /\ d.parts \in [Parts -> Int]
        /\ d.job \in [Parts -> {"get", "save", "stop"}]
    BY <1>t DEF FilesT, ObjT
  <2>2. files'.data = [files.data EXCEPT ![k] = top]
    BY <1>2 DEF top
  <2> QED BY <1>1, <1>2, <2>1, <2>2
<1>10. \A j \in Parts : /\ files'.data[j] \in 0 .. PartSize /\ files'.parts[j] \in -2 .. files'.data[j]
                        /\ objs'[o].parts[j] \in 0 .. files'.data[j] /\ files'.parts[j] # Missing
  <2> SUFFICES ASSUME NEW j \in Parts
               PROVE  /\ files'.data[j] \in 0 .. PartSize /\ files'.parts[j] \in -2 .. files'.data[j]
                      /\ objs'[o].parts[j] \in 0 .. files'.data[j] /\ files'.parts[j] # Missing
    OBVIOUS
  <2>1. CASE j = k
    <3>1. /\ files'.data[k] = top /\ objs'[o].parts[k] = d.parts[k] + n /\ files'.parts[k] = files.parts[k]
          /\ files.parts[k] \in -2 .. files.data[k] /\ files.parts[k] # Missing
      BY <1>1, <1>3, <1>4, <1>9
    <3>2. files'.data[k] \in 0 .. PartSize /\ files'.parts[k] \in -2 .. files'.data[k]
      BY <1>5, <1>6, <3>1
    <3>3. objs'[o].parts[k] \in 0 .. files'.data[k]
      BY <1>5, <1>6, <3>1
    <3> QED BY <2>1, <3>1, <3>2, <3>3
  <2>2. CASE j # k
    BY <1>1, <1>3, <1>4, <1>9, <2>2
  <2> QED BY <2>1, <2>2
<1>11. PartialInv' /\ Settled'
  BY <1>8, <1>10 DEF PartialInv, Settled
<1>12. \A j \in Parts : objs'[o].job[j] = "stop" /\ ~objs'[o].failed => objs'[o].parts[j] = PartSize
  BY <1>1, <1>3, <1>9
<1>13. Running(o)'
  BY <1>1, <1>3, <1>7, <1>10, <1>12 DEF Running
<1>14. BlobInv'
  BY <1>1, BlobStill DEF DiskInv
<1> QED BY <1>1, <1>11, <1>13, <1>14, RunDisk

(* A part file is written with what is in the partial file, or left        *)
(* unreadable.                                                             *)
LEMMA PartDisk ==
  ASSUME ControlInv, DiskInv, NEW o \in 1 .. Len(objs), NEW k \in Parts,
         SavePart(o, k) \/ ChunkFails(o, k) \/ SaveFails(o, k) \/ ChunkDone(o, k) \/ ChunkCancelled(o, k)
  PROVE  DiskInv'
<1>t. Types /\ objs[o] \in ObjT /\ files \in FilesT
  BY OneObj DEF ControlInv, Types
<1> DEFINE d == objs[o]
<1>1. /\ Advances(o) /\ d.at = "chunks" /\ objs'[o].at = "chunks" /\ robbed' = robbed /\ pulls' = pulls
      /\ objs'[o].parts = d.parts /\ objs'[o].removed = d.removed
      /\ \A j \in Parts : objs'[o].job[j] = "stop" /\ ~objs'[o].failed =>
           ~d.failed /\ (d.job[j] = "stop" \/ d.parts[j] = PartSize)
  BY <1>t, PartShape DEF Advances
<1>2. \/ files' = files
      \/ files' = [files EXCEPT !.parts = [files.parts EXCEPT ![k] = d.parts[k]]]
      \/ files' = [files EXCEPT !.parts = [files.parts EXCEPT ![k] = Torn]]
  BY <1>t, PartShape
<1>3. /\ \A j \in Parts : d.parts[j] \in 0 .. files.data[j] /\ files.parts[j] # Missing
      /\ files.len = NParts * PartSize /\ d.removed = 0
      /\ \A j \in Parts : d.job[j] = "stop" /\ ~d.failed => d.parts[j] = PartSize
  BY <1>1 DEF DiskInv, Running
<1>4. /\ \A j \in Parts : files.data[j] \in 0 .. PartSize /\ files.parts[j] \in -2 .. files.data[j]
      /\ ~files.spoilt
  BY DEF DiskInv, PartialInv
<1>5. /\ files'.data = files.data /\ files'.len = files.len /\ files'.spoilt = files.spoilt
      /\ files'.blob = files.blob /\ files'.manifests = files.manifests
      /\ \/ files'.parts = files.parts
         \/ files'.parts = [files.parts EXCEPT ![k] = d.parts[k]]
         \/ files'.parts = [files.parts EXCEPT ![k] = Torn]
  BY <1>t, <1>2 DEF FilesT
<1>6. \A j \in Parts : files'.parts[j] \in {files.parts[j], d.parts[j], Torn}
  <2>1. files.parts \in [Parts -> Int]
    BY <1>t DEF FilesT
  <2> QED BY <1>5, <2>1
<1>7. \A j \in Parts : files'.parts[j] \in -2 .. files.data[j] /\ files'.parts[j] # Missing
  BY <1>3, <1>4, <1>6, DownloadAssumption, SMTT(40) DEF Missing, Torn
<1>8. PartialInv' /\ Settled'
  BY <1>4, <1>5, <1>7 DEF PartialInv, Settled
<1>9. Running(o)'
  BY <1>1, <1>3, <1>5, <1>7 DEF Running
<1>10. BlobInv'
  BY <1>1, <1>5, BlobStill DEF DiskInv
<1> QED BY <1>1, <1>8, <1>9, <1>10, RunDisk

(* The partial file is in the way: no part file is gone, or all of them.   *)
LEMMA RunFailsDisk ==
  ASSUME DiskFaults \subseteq {"write", "partial"}, ControlInv, DiskInv, NEW o \in 1 .. Len(objs), RunFails(o)
  PROVE  DiskInv'
<1>t. Types /\ objs[o] \in ObjT /\ objs \in Seq(ObjT) /\ o \in DOMAIN objs
  BY OneObj DEF ControlInv, Types
<1>1. /\ Advances(o) /\ files' = files /\ objs[o].at \in {"start", "remove", "rename"}
      /\ robbed' = robbed /\ pulls' = pulls /\ (objs[o].at = "remove" => ~(objs[o].removed > 0))
  BY <1>t, QuietRunShape DEF RunFails
<1>2. objs'[o].at = "delete"
  BY <1>t DEF RunFails, ObjT
<1>3. Running(o)'
  BY <1>2 DEF Running
<1>4. Settled'
  <2>1. CASE objs[o].at = "start"
    BY <1>1, <2>1 DEF DiskInv, Running, Settled
  <2>2. CASE objs[o].at = "remove"
    <3>1. objs[o].removed = 0
      BY <1>t, <1>1, <2>2 DEF ObjT
    <3>2. \A k \in Parts : ~(k < 0)
      BY DownloadAssumption DEF Parts
    <3> QED BY <1>1, <2>2, <3>1, <3>2 DEF DiskInv, Running, Settled
  <2>3. CASE objs[o].at = "rename"
    <3>1. files.parts = Prefix(0)
      BY <2>3 DEF DiskInv, Running
    <3>2. \A k \in Parts : ~(k < 0)
      BY DownloadAssumption DEF Parts
    <3> QED BY <1>1, <3>1, <3>2 DEF Settled, Prefix
  <2> QED BY <1>1, <2>1, <2>2, <2>3
<1>5. PartialInv' /\ BlobInv'
  BY <1>1, BlobStill DEF DiskInv, PartialInv
<1> QED BY <1>1, <1>3, <1>4, <1>5, RunDisk

(* Every step of run.                                                      *)
LEMMA AnyRunDisk ==
  ASSUME Deliveries = {TRUE}, DiskFaults \subseteq {"write", "partial"}, ControlInv, DiskInv, NEW o \in 1 .. Len(objs), Run(o)
  PROVE  DiskInv'
<1>1. CASE RunDelete(o)
  <2>1. /\ Advances(o) /\ files' = files /\ objs[o].at = "delete" /\ objs'[o].at = "close"
        /\ robbed' = robbed /\ pulls' = pulls
    <3>1. /\ Advances(o) /\ files' = files /\ objs[o].at = "delete" /\ manager' = 0
          /\ robbed' = robbed /\ pulls' = pulls
      BY <1>1, QuietRunShape DEF RunDelete, ControlInv
    <3>2. objs[o] \in ObjT /\ objs \in Seq(ObjT) /\ o \in DOMAIN objs
      BY OneObj DEF ControlInv, Types
    <3>3. objs'[o].at = "close"
      BY <1>1, <3>2 DEF RunDelete, ObjT
    <3> QED BY <3>1, <3>3
  <2>2. Running(o)'
    BY <2>1 DEF Running
  <2>3. Settled'
    <3>1. \A m \in Models : ~Leads(m)
      BY <2>1, Alone
    <3>2. \A p \in 1 .. Len(objs) : objs[p].at # "remove"
      BY <2>1, Alone
    <3> QED BY <2>1, <3>1, <3>2 DEF DiskInv, SettledInv, Settled, Leads
  <2>4. PartialInv' /\ BlobInv'
    BY <2>1, BlobStill DEF DiskInv, PartialInv
  <2> QED BY <2>1, <2>2, <2>3, <2>4, RunDisk
<1> QED BY <1>1, RunStartDisk, RunUrlDisk, ChunksDoneDisk, RemovePartDisk, RenameDisk, RunCloseDisk,
           RunFailsDisk, ChunkDisk, PartDisk DEF Run

-----------------------------------------------------------------------------
(* Prepare and the disk.                                                   *)

(* A step of the leader.                                                   *)
LEMMA LeadDisk ==
  ASSUME ControlInv, DiskInv, NEW m \in Models, LeadStep(m), Preparing(m)',
         NEW o \in 1 .. Len(objs), o = pulls[m].obj, Running(o)',
         SettledInv', PartialInv', files'.blob = files.blob, files'.manifests = files.manifests
  PROVE  DiskInv'
<1>1. Leads(m) /\ Moves(m) /\ Touches(o) /\ robbed' = robbed
  BY DEF LeadStep
<1>2. /\ o \in 1 .. Len(objs) /\ objs[o].at = "prepare" /\ manager = o
      /\ \A q \in Models : Leads(q) => q = m
  BY <1>1, Leader
<1>3. Len(objs') = Len(objs) /\ \A p \in 1 .. Len(objs) : p # o => objs'[p] = objs[p]
  BY <1>1 DEF Touches
<1>4. \A q \in Models : q # m => pulls'[q] = pulls[q]
  BY <1>1 DEF Moves
<1>5. \A q \in Models : Preparing(q)'
  <2>1. \A q \in Models : q # m => Preparing(q)'
    BY <1>2, <1>4 DEF Preparing, Leads
  <2> QED BY <2>1
<1>6. \A p \in 1 .. Len(objs) : Running(p)'
  <2>1. \A p \in 1 .. Len(objs) : p # o => objs[p].at \in {"abandoned", "close", "done"}
    BY <1>2 DEF ControlInv, ManagerInv
  <2>2. \A p \in 1 .. Len(objs) : p # o => Running(p)'
    BY <1>3, <2>1 DEF Running
  <2> QED BY <2>2
<1>7. BlobInv'
  <2>1. ~HasSeen(m)'
    BY DEF LeadStep, HasSeen, Leads, NoPull
  <2>2. \A q \in Models : HasSeen(q)' => HasSeen(q)
    BY <1>4, <2>1 DEF HasSeen
  <2> QED BY <1>1, <2>2 DEF DiskInv, BlobInv
<1> QED BY <1>3, <1>5, <1>6, <1>7 DEF DiskInv

(* A prefix of the part files, with one more.                              *)
LEMMA PrefixNext ==
  ASSUME NEW n \in 0 .. NParts - 1
  PROVE  [Prefix(n) EXCEPT ![n] = 0] = Prefix(n + 1) /\ n \in Parts
<1>1. n \in Parts /\ \A k \in Parts : (k < n + 1) <=> (k < n \/ k = n)
  BY DownloadAssumption DEF Parts
<1> QED BY <1>1 DEF Prefix

(* Prepare finds all part files or none, or one it cannot read.            *)
LEMMA PrepareReadDisk ==
  ASSUME ControlInv, DiskInv, NEW m \in Models, PrepareRead(m)
  PROVE  DiskInv'
<1>t. Types /\ files \in FilesT /\ Leads(m) /\ pulls[m].at = "prepare" /\ \A k \in Parts : files.parts[k] # Torn
  BY DEF ControlInv, Types, PrepareRead, Leads
<1>o. PICK o \in 1 .. Len(objs) : o = pulls[m].obj
  BY <1>t, Leader
<1>1. /\ objs[o] \in ObjT /\ objs[o].at = "prepare" /\ manager = o
      /\ \A q \in Models : Leads(q) => q = m
  BY <1>t, <1>o, Leader
<1>2. Settled
  <2>1. \A q \in Models : pulls[q].at # "newPart"
    BY <1>t, <1>1 DEF Leads
  <2>2. \A p \in 1 .. Len(objs) : objs[p].at # "remove"
    BY <1>1 DEF ControlInv, ManagerInv
  <2> QED BY <2>1, <2>2 DEF DiskInv, SettledInv
<1>3. objs[o].parts = Prefix(0)
  BY <1>t, <1>o DEF DiskInv, Preparing
<1>4. CASE Present(files.parts) = {}
  <2>1. /\ LeadStep(m) /\ pulls'[m].at = "head" /\ pulls'[m].obj = o
        /\ files' = files /\ objs' = objs
    BY <1>t, <1>o, <1>4, PrepareGoesShape DEF PrepareRead
  <2>2. \A k \in Parts : files.parts[k] = Missing
    BY <1>4 DEF Present
  <2>3. files.parts = Prefix(0)
    BY <1>t, <2>2, PrefixNone DEF FilesT
  <2>4. Preparing(m)'
    BY <1>3, <2>1, <2>3 DEF Preparing
  <2>5. Running(o)' /\ SettledInv' /\ PartialInv'
    BY <1>1, <1>2, <2>1 DEF Running, SettledInv, Settled, PartialInv, DiskInv
  <2> QED BY <1>o, <2>1, <2>4, <2>5, LeadDisk
<1>5. CASE Present(files.parts) # {}
  <2>1. /\ LeadStep(m) /\ files' = files /\ objs'[o].parts = files.parts
        /\ objs'[o].at = "start" /\ pulls'[m].at = "acquire"
        /\ objs'[o].failed = objs[o].failed /\ objs'[o].removed = objs[o].removed
    BY <1>5, <1>o, PrepareReadShape
  <2>2. \A k \in Parts : files.parts[k] # Missing
    BY <1>t, <1>2, <1>5 DEF Settled, Present
  <2>3. \A k \in Parts : files.parts[k] \in 0 .. files.data[k]
    BY <1>t, <2>2, DownloadAssumption DEF DiskInv, PartialInv, Missing, Torn
  <2>4. Preparing(m)'
    BY <2>1 DEF Preparing
  <2>f. ~objs[o].failed /\ objs[o].removed = 0
    BY <1>1 DEF DiskInv, Running
  <2>5. Running(o)'
    BY <2>1, <2>2, <2>3, <2>f DEF Running
  <2>6. SettledInv' /\ PartialInv'
    BY <1>2, <2>1 DEF SettledInv, Settled, PartialInv, DiskInv
  <2> QED BY <1>o, <2>1, <2>4, <2>5, <2>6, LeadDisk
<1> QED BY <1>4, <1>5

(* Prepare fails before it has made a part file, or while it makes one.    *)
LEMMA PrepareFailsDisk ==
  ASSUME DiskFaults \subseteq {"write", "partial"}, ControlInv, DiskInv, NEW m \in Models,
         PrepareUnreadable(m) \/ HeadFails(m) \/ NewPartFails(m)
  PROVE  DiskInv'
<1>t. Types /\ files \in FilesT /\ Leads(m) /\ PrepareFails(m)
  BY DEF ControlInv, Types, PrepareUnreadable, HeadFails, NewPartFails, Leads
<1>s. LeadStep(m)
  BY PrepareShape
<1>o. PICK o \in 1 .. Len(objs) : o = pulls[m].obj
  BY <1>t, Leader
<1>1. /\ objs[o].at = "prepare" /\ manager = o /\ \A q \in Models : Leads(q) => q = m
  BY <1>t, <1>o, Leader
<1>2. pulls'[m] = NoPull /\ objs'[o].at = "abandoned"
  BY <1>t, <1>s, <1>o, PrepareFailsShape DEF LeadStep
<1>3. Preparing(m)' /\ Running(o)'
  BY <1>2 DEF Preparing, Running, NoPull
<1>4. CASE PrepareUnreadable(m) \/ HeadFails(m)
  <2>1. files' = files /\ pulls[m].at \in {"prepare", "head"}
    BY <1>4 DEF PrepareUnreadable, HeadFails
  <2>2. Settled
    <3>1. \A q \in Models : pulls[q].at # "newPart"
      BY <1>1, <2>1 DEF Leads
    <3>2. \A p \in 1 .. Len(objs) : objs[p].at # "remove"
      BY <1>1 DEF ControlInv, ManagerInv
    <3> QED BY <3>1, <3>2 DEF DiskInv, SettledInv
  <2>3. SettledInv' /\ PartialInv'
    BY <2>1, <2>2 DEF SettledInv, Settled, PartialInv, DiskInv
  <2> QED BY <1>s, <1>o, <1>3, <2>1, <2>3, LeadDisk
<1>5. CASE NewPartFails(m)
  <2>1. pulls[m].at = "newPart"
    BY <1>5 DEF NewPartFails
  <2>2. PICK n \in 0 .. NParts - 1 : objs[o].parts = Prefix(n)
    BY <2>1, <1>o DEF DiskInv, Preparing
  <2>3. Cardinality(Present(objs[o].parts)) = n /\ n \in Parts
    BY <2>2, PrefixSize, DownloadAssumption DEF Parts
  <2>4. files' = Damaged(files, n, "write")
    BY <1>5, <1>o, <2>3 DEF NewPartFails, WriteFaults
  <2>5. /\ files'.parts = [files.parts EXCEPT ![n] = Torn] /\ files'.data = files.data
        /\ files'.spoilt = files.spoilt /\ files'.blob = files.blob /\ files'.manifests = files.manifests
    BY <1>t, <2>4 DEF Damaged, FilesT
  <2>6. files.parts \in [Parts -> Int]
    BY <1>t DEF FilesT
  <2>7. files'.parts[n] = Torn /\ \A k \in Parts : files'.parts[k] \in {files.parts[k], Torn}
    BY <2>3, <2>5, <2>6
  <2>8. SettledInv'
    BY <2>3, <2>7 DEF SettledInv, Settled
  <2>9. PartialInv'
    BY <2>5, <2>7, DownloadAssumption DEF DiskInv, PartialInv, Torn
  <2> QED BY <1>s, <1>o, <1>3, <2>5, <2>8, <2>9, LeadDisk
<1> QED BY <1>4, <1>5

(* The HEAD request has found out the size.                                *)
LEMMA PrepareHeadDisk ==
  ASSUME ControlInv, DiskInv, NEW m \in Models, PrepareHead(m)
  PROVE  DiskInv'
<1>t. Types /\ Leads(m) /\ pulls[m].at = "head"
  BY DEF ControlInv, PrepareHead, Leads
<1>o. PICK o \in 1 .. Len(objs) : o = pulls[m].obj
  BY <1>t, Leader
<1>1. /\ LeadStep(m) /\ pulls'[m].at = "newPart" /\ pulls'[m].obj = o
      /\ UNCHANGED <<files, objs>>
  BY <1>t, <1>o, PrepareGoesShape DEF PrepareHead
<1>2. objs[o].parts = Prefix(0) /\ files.parts = Prefix(0) /\ objs[o].at = "prepare"
  BY <1>t, <1>o, Leader DEF DiskInv, Preparing
<1>3. Preparing(m)'
  <2>1. 0 \in 0 .. NParts - 1
    BY DownloadAssumption
  <2> QED BY <1>1, <1>2, <2>1 DEF Preparing
<1>4. Running(o)' /\ SettledInv' /\ PartialInv'
  BY <1>1, <1>2 DEF DiskInv, Running, SettledInv, PartialInv
<1> QED BY <1>o, <1>1, <1>3, <1>4, LeadDisk

(* Part files are made one after the other, each with nothing completed.   *)
LEMMA NewPartDisk ==
  ASSUME ControlInv, DiskInv, NEW m \in Models, NewPart(m)
  PROVE  DiskInv'
<1>t. Types /\ files \in FilesT /\ Leads(m) /\ pulls[m].at = "newPart"
  BY DEF ControlInv, Types, NewPart, Leads
<1>o. PICK o \in 1 .. Len(objs) : o = pulls[m].obj
  BY <1>t, Leader
<1>1. objs[o].at = "prepare" /\ objs[o] \in ObjT /\ ~objs[o].failed /\ objs[o].removed = 0
  BY <1>t, <1>o, Leader DEF DiskInv, Running
<1>2. PICK n \in 0 .. NParts - 1 : objs[o].parts = Prefix(n) /\ files.parts = Prefix(n)
  BY <1>t, <1>o DEF DiskInv, Preparing
<1>3. Cardinality(Present(objs[o].parts)) = n
  BY <1>2, PrefixSize, DownloadAssumption
<1>4. /\ LeadStep(m) /\ files' = [files EXCEPT !.parts = [files.parts EXCEPT ![n] = 0]]
      /\ objs'[o].parts = [objs[o].parts EXCEPT ![n] = 0]
      /\ objs'[o].at = IF n + 1 = NParts THEN "start" ELSE "prepare"
      /\ pulls'[m].at = IF n + 1 = NParts THEN "acquire" ELSE "newPart"
      /\ objs'[o].failed = objs[o].failed /\ objs'[o].removed = objs[o].removed
  BY <1>o, <1>3, NewPartShape
<1>5. /\ files'.parts = Prefix(n + 1) /\ objs'[o].parts = Prefix(n + 1) /\ files'.data = files.data
      /\ files'.spoilt = files.spoilt /\ files'.blob = files.blob /\ files'.manifests = files.manifests
  BY <1>t, <1>2, <1>4, PrefixNext DEF FilesT
<1>6. PartialInv'
  <2>1. \A k \in Parts : files'.parts[k] \in {0, -2}
    BY <1>5 DEF Prefix, Missing
  <2> QED BY <1>5, <2>1, DownloadAssumption DEF DiskInv, PartialInv
<1>7. pulls'[m].obj = o
  BY <1>4, <1>o DEF LeadStep, NoPull
<1>8. CASE n + 1 = NParts
  <2>1. \A k \in Parts : Prefix(n + 1)[k] = 0
    BY <1>8, DownloadAssumption DEF Prefix, Parts
  <2>2. \A k \in Parts : objs'[o].parts[k] \in 0 .. files'.data[k] /\ files'.parts[k] # Missing
    BY <1>5, <2>1, DownloadAssumption DEF DiskInv, PartialInv, Missing
  <2>3. Running(o)'
    BY <1>1, <1>4, <1>8, <2>2 DEF Running
  <2>4. SettledInv'
    BY <2>2 DEF SettledInv, Settled
  <2>5. Preparing(m)'
    BY <1>4, <1>8 DEF Preparing
  <2> QED BY <1>o, <1>4, <1>5, <1>6, <2>3, <2>4, <2>5, LeadDisk
<1>9. CASE n + 1 # NParts
  <2>1. Running(o)'
    BY <1>1, <1>4, <1>9 DEF Running
  <2>2. SettledInv'
    BY <1>4, <1>9 DEF SettledInv
  <2>3. n + 1 \in 0 .. NParts - 1
    BY <1>9, DownloadAssumption
  <2>4. Preparing(m)'
    BY <1>4, <1>5, <1>7, <1>9, <2>3 DEF Preparing
  <2> QED BY <1>o, <1>4, <1>5, <1>6, <2>1, <2>2, <2>4, LeadDisk
<1> QED BY <1>8, <1>9

(* A pull joins or makes a download.                                       *)
LEMMA LoadOrStoreDisk ==
  ASSUME ControlInv, DiskInv, NEW m \in Models, LoadOrStore(m)
  PROVE  DiskInv'
<1>t. Types /\ Len(objs) \in Nat
  BY LenProperties DEF ControlInv, Types
<1>1. /\ Moves(m) /\ pulls[m].at = "store" /\ UNCHANGED <<files, robbed>>
      /\ pulls'[m].at \in {"acquire", "prepare"}
  BY <1>t, LoadOrStoreShape
<1>2. \A q \in Models : q # m => pulls'[q] = pulls[q]
  BY <1>1 DEF Moves
<1>3. BlobInv'
  <2>1. \A q \in Models : HasSeen(q)' => HasSeen(q)
    BY <1>1, <1>2 DEF HasSeen
  <2> QED BY <1>1, <2>1 DEF DiskInv, BlobInv
<1>4. PartialInv'
  BY <1>1 DEF DiskInv, PartialInv
<1>5. CASE manager # 0
  <2>1. objs' = objs /\ pulls'[m].at = "acquire"
    BY <1>t, <1>5, LoadOrStoreShape
  <2>2. \A q \in Models : Preparing(q)'
    BY <1>1, <1>2, <2>1 DEF DiskInv, Preparing
  <2>3. \A p \in 1 .. Len(objs) : Running(p)'
    BY <1>1, <2>1 DEF DiskInv, Running
  <2>4. SettledInv'
    BY <1>1, <1>2, <2>1 DEF DiskInv, SettledInv, Settled
  <2> QED BY <1>3, <1>4, <2>1, <2>2, <2>3, <2>4 DEF DiskInv
<1>6. CASE manager = 0
  <2>1. /\ pulls'[m].at = "prepare" /\ pulls'[m].obj = Len(objs')
        /\ Len(objs') = Len(objs) + 1
        /\ objs'[Len(objs')] = NewObj /\ \A o \in 1 .. Len(objs) : objs'[o] = objs[o]
    BY <1>t, <1>6, LoadOrStoreShape
  <2>2. \A q \in Models : ~Leads(q)
    <3>1. \A q \in Models : Leads(q) => manager = pulls[q].obj /\ pulls[q].obj \in 1 .. Len(objs)
      BY Leader
    <3> QED BY <1>t, <1>6, <3>1
  <2>3. \A q \in Models : q # m => Preparing(q)'
    BY <1>2, <2>2 DEF Preparing, Leads
  <2>n. NewObj.parts = Prefix(0) /\ NewObj.at = "prepare" /\ ~NewObj.failed /\ NewObj.removed = 0
    <3>1. NewObj.parts = [k \in Parts |-> Missing]
      BY DEF NewObj
    <3>2. [k \in Parts |-> Missing] = Prefix(0)
      <4> DEFINE p == [k \in Parts |-> Missing]
      <4>1. p \in [Parts -> Int] /\ \A k \in Parts : p[k] = Missing
        BY DEF Missing
      <4> HIDE DEF p
      <4>2. p = Prefix(0)
        BY <4>1, PrefixNone
      <4> QED BY <4>2 DEF p
    <3>3. NewObj.at = "prepare" /\ ~NewObj.failed /\ NewObj.removed = 0
      BY DEF NewObj
    <3> QED BY <3>1, <3>2, <3>3
  <2>4. Preparing(m)'
    BY <2>1, <2>n DEF Preparing
  <2>5. \A p \in 1 .. Len(objs) : Running(p)'
    BY <1>1, <2>1 DEF DiskInv, Running
  <2>6. ASSUME NEW p, p = Len(objs') PROVE Running(p)'
    BY <2>1, <2>6, <2>n DEF Running
  <2>7. \A p \in 1 .. Len(objs') : Running(p)'
    <3>1. \A p \in 1 .. Len(objs') : p \in 1 .. Len(objs) \/ p = Len(objs')
      BY <1>t, <2>1
    <3> QED BY <2>5, <2>6, <3>1
  <2>8. SettledInv'
    <3>1. Settled
      <4>1. \A p \in 1 .. Len(objs) : objs[p].at # "remove"
        BY <1>6 DEF ControlInv, ManagerInv
      <4> QED BY <2>2, <4>1 DEF DiskInv, SettledInv, Leads
    <3> QED BY <1>1, <3>1 DEF SettledInv, Settled
  <2> QED BY <1>3, <1>4, <2>3, <2>4, <2>7, <2>8 DEF DiskInv
<1> QED BY <1>5, <1>6

(* A step that leaves the work of all downloads alone.                     *)
LEMMA QuietDisk ==
  ASSUME ControlInv, DiskInv, Len(objs') = Len(objs),
         \A p \in 1 .. Len(objs) :
           /\ objs'[p].at = objs[p].at /\ objs'[p].parts = objs[p].parts /\ objs'[p].job = objs[p].job
           /\ objs'[p].failed = objs[p].failed /\ objs'[p].removed = objs[p].removed,
         files'.parts = files.parts, files'.data = files.data, files'.len = files.len,
         files'.spoilt = files.spoilt,
         \A q \in Models : Leads(q) \/ Leads(q)' => pulls'[q] = pulls[q],
         BlobInv'
  PROVE  DiskInv'
<1>1. \A q \in Models : Leads(q) => pulls[q].obj \in 1 .. Len(objs)
  BY Leader
<1>2. ASSUME NEW q \in Models PROVE Preparing(q)'
  <2>1. CASE ~Leads(q)'
    BY <2>1 DEF Preparing, Leads
  <2>2. CASE Leads(q)'
    <3>1. pulls'[q] = pulls[q]
      BY <2>2
    <3>2. Leads(q)
      BY <2>2, <3>1 DEF Leads
    <3>3. objs'[pulls[q].obj].parts = objs[pulls[q].obj].parts
      BY <1>1, <3>2
    <3> QED BY <3>1, <3>3 DEF DiskInv, Preparing
  <2> QED BY <2>1, <2>2
<1>3. \A p \in 1 .. Len(objs) : Running(p)'
  BY DEF DiskInv, Running
<1>4. SettledInv'
  <2>1. \A q \in Models : pulls[q].at = "newPart" => pulls'[q].at = "newPart"
    BY DEF Leads
  <2> QED BY <2>1 DEF DiskInv, SettledInv, Settled
<1>5. PartialInv'
  BY DEF DiskInv, PartialInv
<1> QED BY <1>2, <1>3, <1>4, <1>5 DEF DiskInv

(* A pull finds the blob, or not.                                          *)
LEMMA StatDisk ==
  ASSUME ControlInv, DiskInv, NEW m \in Models, Stat(m)
  PROVE  DiskInv'
<1>1. /\ Moves(m) /\ pulls[m].at = "none" /\ pulls'[m].cacheHit = (files.blob # "absent")
      /\ pulls'[m].at = IF files.blob # "absent" THEN "verify" ELSE "store"
  BY StatShape DEF ControlInv
<1>2. UNCHANGED <<files, objs, robbed>>
  BY DEF Stat
<1>3. \A q \in Models : q # m => pulls'[q] = pulls[q]
  BY <1>1 DEF Moves
<1>4. files.blob \in {"absent", "good"}
  BY DEF ControlInv, Types, FilesT, DiskInv, BlobInv
<1>5. HasSeen(m)' => files.blob = "good"
  BY <1>1, <1>4 DEF HasSeen
<1>6. BlobInv'
  <2>1. \A q \in Models : q # m => (HasSeen(q)' <=> HasSeen(q))
    BY <1>3 DEF HasSeen
  <2> QED BY <1>2, <1>5, <2>1 DEF DiskInv, BlobInv
<1>7. \A q \in Models : Leads(q) \/ Leads(q)' => pulls'[q] = pulls[q]
  BY <1>1, <1>3 DEF Leads
<1> QED BY <1>2, <1>6, <1>7, QuietDisk

(* acquire and release.                                                    *)
LEMMA RefDisk ==
  ASSUME ControlInv, DiskInv, NEW m \in Models, RefStep(m)
  PROVE  DiskInv'
<1>t. pulls[m].obj \in 1 .. Len(objs)
  BY Joiner DEF RefStep
<1>1. /\ Moves(m) /\ Touches(pulls[m].obj) /\ pulls[m].at \in {"acquire", "wait"}
      /\ pulls'[m].at \in {"none", "wait", "verify"} /\ ~pulls'[m].cacheHit
      /\ UNCHANGED <<files, robbed>>
  BY Joiner DEF RefStep, NoPull
<1>2. \A q \in Models : q # m => pulls'[q] = pulls[q]
  BY <1>1 DEF Moves
<1>3. Len(objs') = Len(objs)
  BY <1>1 DEF Touches
<1>4. \A p \in 1 .. Len(objs) :
        /\ objs'[p].at = objs[p].at /\ objs'[p].parts = objs[p].parts /\ objs'[p].job = objs[p].job
        /\ objs'[p].failed = objs[p].failed /\ objs'[p].removed = objs[p].removed
  BY <1>1 DEF RefStep, Touches
<1>5. BlobInv'
  <2>1. \A q \in Models : HasSeen(q)' => HasSeen(q)
    BY <1>1, <1>2 DEF HasSeen
  <2> QED BY <1>1, <2>1 DEF DiskInv, BlobInv
<1>6. \A q \in Models : Leads(q) \/ Leads(q)' => pulls'[q] = pulls[q]
  BY <1>1, <1>2 DEF Leads
<1> QED BY <1>1, <1>3, <1>4, <1>5, <1>6, QuietDisk

(* A pull blocks.                                                          *)
LEMMA BlockDisk ==
  ASSUME ControlInv, DiskInv, NEW m \in Models, Block(m)
  PROVE  DiskInv'
<1>1. /\ Moves(m) /\ pulls'[m].at = "stuck" /\ pulls[m].at \in {"wait", "verify", "manifest"}
      /\ UNCHANGED <<files, objs, robbed>>
  BY BlockShape
<1>2. \A q \in Models : q # m => pulls'[q] = pulls[q]
  BY <1>1 DEF Moves
<1>3. BlobInv'
  <2>1. \A q \in Models : HasSeen(q)' => HasSeen(q)
    BY <1>1, <1>2 DEF HasSeen
  <2> QED BY <1>1, <2>1 DEF DiskInv, BlobInv
<1>4. \A q \in Models : Leads(q) \/ Leads(q)' => pulls'[q] = pulls[q]
  BY <1>1, <1>2 DEF Leads
<1> QED BY <1>1, <1>3, <1>4, QuietDisk

(* A pull goes on to its manifest only if it has seen the blob.            *)
LEMMA TailDisk ==
  ASSUME ControlInv, DiskInv, NEW m \in Models,
         Verify(m) \/ WriteManifest(m) \/ FinishManifest(m) \/ ManifestFails(m)
  PROVE  DiskInv'
<1>t. Types /\ files \in FilesT /\ files.manifests \in [Models -> {"none", "torn", "ok"}]
  BY DEF ControlInv, Types, FilesT
<1>1. /\ Moves(m) /\ UNCHANGED <<objs, robbed>>
      /\ pulls[m].at \in {"verify", "manifest", "writing"}
      /\ pulls'[m].at \in {"none", "manifest", "writing"}
  BY TailShape DEF NoPull
<1>2. \A q \in Models : q # m => pulls'[q] = pulls[q]
  BY <1>1 DEF Moves
<1>3. \A q \in Models : q # m => (HasSeen(q)' <=> HasSeen(q))
  BY <1>2 DEF HasSeen
<1>b. files.blob \in {"absent", "good"}
  BY <1>t DEF FilesT, DiskInv, BlobInv
<1>4. BlobInv'
  <2>1. CASE Verify(m)
    <3>1. files'.manifests = files.manifests
      BY <2>1, TailFiles
    <3>2. CASE pulls[m].cacheHit \/ files.blob = "good"
      <4>1. files' = files /\ pulls[m].at = "verify"
        BY <2>1, <3>2 DEF Verify
      <4>2. HasSeen(m) \/ files.blob = "good"
        BY <3>2, <4>1 DEF HasSeen
      <4> QED BY <1>1, <1>3, <4>1, <4>2 DEF DiskInv, BlobInv
    <3>3. CASE ~(pulls[m].cacheHit \/ files.blob = "good")
      <4>1. files' = [files EXCEPT !.blob = "absent"] /\ pulls' = Ended(m)
        BY <2>1, <3>3 DEF Verify
      <4>2. files'.blob = files.blob
        BY <1>t, <1>b, <3>3, <4>1 DEF FilesT
      <4>3. ~HasSeen(m)'
        <5>1. pulls'[m] = NoPull
          BY <1>t, <4>1, EndedShape
        <5> QED BY <5>1 DEF HasSeen, NoPull
      <4> QED BY <1>1, <1>3, <3>1, <4>2, <4>3 DEF DiskInv, BlobInv
    <3> QED BY <3>2, <3>3
  <2>2. CASE WriteManifest(m) \/ FinishManifest(m)
    <3>1. HasSeen(m)
      BY <2>2 DEF WriteManifest, FinishManifest, HasSeen
    <3>2. files'.blob = files.blob /\ \A q \in Models : q # m => files'.manifests[q] = files.manifests[q]
      BY <1>t, <2>2, TailFiles
    <3> QED BY <1>1, <1>3, <3>1, <3>2 DEF DiskInv, BlobInv
  <2>3. CASE ManifestFails(m)
    <3>1. files' = files /\ pulls' = Ended(m)
      BY <2>3 DEF ManifestFails
    <3>2. ~HasSeen(m)'
      <4>1. pulls'[m] = NoPull
        BY <1>t, <3>1, EndedShape
      <4> QED BY <4>1 DEF HasSeen, NoPull
    <3> QED BY <1>1, <1>3, <3>1, <3>2 DEF DiskInv, BlobInv
  <2> QED BY <2>1, <2>2, <2>3
<1>5. \A q \in Models : Leads(q) \/ Leads(q)' => pulls'[q] = pulls[q]
  BY <1>1, <1>2 DEF Leads
<1>6. /\ files'.parts = files.parts /\ files'.data = files.data /\ files'.len = files.len
      /\ files'.spoilt = files.spoilt
  BY TailFiles
<1> QED BY <1>1, <1>4, <1>5, <1>6, QuietDisk

(* DELETE: whoever has seen the blob, or has a manifest that is late, is   *)
(* noted as robbed of it; the others have no manifest.                     *)
LEMMA DeleteDisk ==
  ASSUME ControlInv, LookInv, DiskInv, NEW m \in Models, DeleteHandler(m) \/ DeleteManifest(m) \/ RemoveLayers(m)
  PROVE  DiskInv'
<1>t. Types /\ files \in FilesT /\ files.manifests \in [Models -> {"none", "torn", "ok"}]
  BY DEF ControlInv, Types, FilesT
<1>1. /\ UNCHANGED <<objs, pulls>>
      /\ files'.parts = files.parts /\ files'.data = files.data /\ files'.len = files.len
      /\ files'.spoilt = files.spoilt
  BY <1>t, DeleteShape
<1>2. \A q \in Models : HasSeen(q)' <=> HasSeen(q)
  BY <1>1 DEF HasSeen
<1>3. BlobInv'
  <2>1. CASE DeleteManifest(m)
    <3>1. files' = [files EXCEPT !.manifests = [files.manifests EXCEPT ![m] = "none"]] /\ robbed' = robbed
      BY <2>1 DEF DeleteManifest
    <3>2. files'.blob = files.blob /\ files'.manifests = [files.manifests EXCEPT ![m] = "none"]
      BY <1>t, <3>1 DEF FilesT
    <3>3. \A q \in Models : files'.manifests[q] = "ok" => files.manifests[q] = "ok"
      BY <1>t, <3>2
    <3> QED BY <1>2, <3>1, <3>2, <3>3 DEF DiskInv, BlobInv
  <2>2. CASE RemoveLayers(m)
    <3>1. CASE files' = files /\ robbed' = robbed
      BY <1>2, <3>1 DEF DiskInv, BlobInv
    <3>2. CASE RemoveLayer(m)
      <4>1. /\ files' = [files EXCEPT !.blob = "absent"]
            /\ \A q \in Models : deleting[m][q] \in {"passed", "late"}
            /\ robbed' = robbed \cup {q \in Models : HasSeen(q) \/ deleting[m][q] = "late"}
        BY <3>2 DEF RemoveLayer
      <4>2. files'.blob = "absent" /\ files'.manifests = files.manifests
        BY <1>t, <4>1 DEF FilesT
      <4>3. \A q \in Models \ robbed' : ~HasSeen(q) /\ files.manifests[q] # "ok"
        BY <4>1 DEF LookInv
      <4> QED BY <1>2, <4>2, <4>3 DEF BlobInv
    <3> QED BY <2>2, <3>1, <3>2, LayerShape
  <2>3. CASE DeleteHandler(m)
    <3>1. files' = files /\ robbed' = robbed
      BY <2>3 DEF DeleteHandler
    <3> QED BY <1>2, <3>1 DEF DiskInv, BlobInv
  <2> QED BY <2>1, <2>2, <2>3
<1>4. \A q \in Models : Leads(q) \/ Leads(q)' => pulls'[q] = pulls[q]
  BY <1>1
<1> QED BY <1>1, <1>3, <1>4, QuietDisk

(* A server starts: without part files, or with none of them in order.     *)
LEMMA RestartDisk ==
  ASSUME Types, NEW f \in FilesT, Restart(f), ~unpruned', f.blob = files.blob, f.manifests = files.manifests,
         ~unpruned => BlobInv /\ ~f.spoilt /\ \A k \in Parts : f.data[k] \in 0 .. PartSize
  PROVE  DiskInv'
<1>1. /\ files' = Pruned(f) /\ objs' = <<>> /\ pulls' = [m \in Models |-> NoPull] /\ robbed' = robbed
      /\ files'.manifests = files.manifests
  BY RestartShape
<1>u. /\ SkipsPrune(f) => ~f.partial /\ Present(f.parts) = {} /\ ~unpruned
      /\ unpruned => \A m \in Models : f.manifests[m] # "ok"
  BY Zenon DEF Restart
<1>p. ~SkipsPrune(f) =>
        /\ files'.parts = [k \in Parts |-> Missing] /\ files'.data = [k \in Parts |-> 0] /\ files'.spoilt = FALSE
        /\ files'.blob = IF \E m \in Models : f.manifests[m] = "ok" THEN f.blob ELSE "absent"
  BY <1>1, RestartShape, Zenon
<1>2. \A m \in Models : ~HasSeen(m)' /\ ~Leads(m)'
  BY <1>1 DEF HasSeen, Leads, NoPull
<1>3. \A m \in Models : Preparing(m)'
  BY <1>2 DEF Preparing, Leads
<1>4. \A o \in 1 .. Len(objs') : Running(o)'
  <2>1. 1 .. Len(objs') = {}
    BY <1>1, EmptySeq
  <2> QED BY <2>1
<1>5. /\ \A k \in Parts : files'.parts[k] = Missing /\ files'.data[k] \in 0 .. PartSize
      /\ ~files'.spoilt
  <2>1. CASE SkipsPrune(f)
    <3>1. files' = f /\ Present(f.parts) = {} /\ ~unpruned
      BY <1>1, <1>u, <2>1 DEF Pruned
    <3> QED BY <3>1 DEF Present
  <2>2. CASE ~SkipsPrune(f)
    BY <1>p, <2>2, DownloadAssumption
  <2> QED BY <2>1, <2>2
<1>6. SettledInv' /\ PartialInv'
  BY <1>5 DEF SettledInv, Settled, PartialInv, Missing
<1>7. BlobInv'
  <2>1. CASE SkipsPrune(f)
    <3>1. files' = f /\ ~unpruned
      BY <1>1, <1>u, <2>1 DEF Pruned
    <3> QED BY <1>1, <1>2, <3>1 DEF BlobInv
  <2>2. CASE ~SkipsPrune(f)
    <3>1. files'.blob = IF \E m \in Models : files.manifests[m] = "ok" THEN files.blob ELSE "absent"
      BY <1>p, <2>2
    <3>2. CASE unpruned
      <4>1. \A m \in Models : files.manifests[m] # "ok"
        BY <1>u, <3>2
      <4> QED BY <1>1, <1>2, <3>1, <4>1 DEF BlobInv
    <3>3. CASE ~unpruned
      BY <1>1, <1>2, <3>1, <3>3 DEF BlobInv
    <3> QED BY <3>2, <3>3 DEF Types
  <2> QED BY <2>1, <2>2
<1> QED BY <1>3, <1>4, <1>6, <1>7 DEF DiskInv

(* The server is killed, or panics.                                        *)
LEMMA EndDisk ==
  ASSUME DownloadInv, Crash \/ \E m \in Models : LeavePanics(m), ~unpruned'
  PROVE  DiskInv'
<1>t. Types /\ files \in FilesT
  BY DEF DownloadInv, ControlInv, Types
<1>1. ~unpruned => BlobInv /\ ~files.spoilt /\ \A k \in Parts : files.data[k] \in 0 .. PartSize
  BY DEF DownloadInv, DiskInv, PartialInv
<1>2. CASE \E m \in Models : LeavePanics(m)
  <2>1. Restart(files)
    BY <1>2 DEF LeavePanics
  <2> QED BY <1>t, <1>1, <2>1, RestartDisk
<1>3. CASE Crash
  <2>1. PICK torn : Restart(CrashFiles(torn))
    BY <1>3 DEF Crash, CrashFiles
  <2> DEFINE f == CrashFiles(torn)
  <2>2. /\ f \in FilesT /\ f.manifests = files.manifests /\ f.blob = files.blob
        /\ f.data = files.data /\ f.spoilt = files.spoilt
    BY <1>t, CrashFilesType
  <2>3. Restart(f)
    BY <2>1
  <2> HIDE DEF f
  <2> QED BY <1>t, <1>1, <2>2, <2>3, RestartDisk
<1> QED BY <1>2, <1>3

(* DownloadInv is inductive.                                               *)
LEMMA NextDisk ==
  ASSUME Deliveries = {TRUE}, DiskFaults \subseteq {"write", "partial"}, DownloadInv, [Next]_vars
  PROVE  DownloadInv'
<1>c. ControlInv /\ ControlInv' /\ LookInv /\ LookInv'
  BY NextControl, NextLook DEF DownloadInv
<1> SUFFICES ASSUME ~unpruned' PROVE DiskInv'
  BY <1>c DEF DownloadInv
<1>1. CASE Crash \/ \E m \in Models : LeavePanics(m)
  BY <1>1, EndDisk
<1>2. CASE ~(Crash \/ \E m \in Models : LeavePanics(m))
  <2>1. ASSUME NEW m \in Models, Stat(m) \/ LoadOrStore(m) PROVE DiskInv'
    <3>1. ~unpruned
      BY <2>1 DEF Stat, LoadOrStore
    <3> QED BY <1>c, <2>1, <3>1, StatDisk, LoadOrStoreDisk DEF DownloadInv
  <2>2. ASSUME NEW m \in Models,
               \/ PrepareRead(m) \/ PrepareUnreadable(m) \/ PrepareHead(m) \/ HeadFails(m)
               \/ NewPart(m) \/ NewPartFails(m)
        PROVE  DiskInv'
    <3>1. ~unpruned
      BY <1>c, <2>2, PrepareShape DEF LeadStep
    <3> QED BY <1>c, <2>2, <3>1, PrepareReadDisk, PrepareFailsDisk, PrepareHeadDisk, NewPartDisk
            DEF DownloadInv
  <2>3. ASSUME NEW m \in Models, Acquire(m) \/ Return(m) \/ Leave(m) PROVE DiskInv'
    <3>1. RefStep(m)
      BY <1>c, <2>3, AcquireShape, ReleaseShape
    <3>2. ~unpruned
      BY <3>1 DEF RefStep
    <3> QED BY <1>c, <3>1, <3>2, RefDisk DEF DownloadInv
  <2>4. ASSUME NEW m \in Models,
               Block(m) \/ Verify(m) \/ WriteManifest(m) \/ FinishManifest(m) \/ ManifestFails(m)
        PROVE  DiskInv'
    <3>1. ~unpruned
      BY <2>4 DEF Block, Verify, WriteManifest, FinishManifest, ManifestFails
    <3> QED BY <1>c, <2>4, <3>1, BlockDisk, TailDisk DEF DownloadInv
  <2>5. ASSUME NEW m \in Models, DeleteHandler(m) \/ DeleteManifest(m) \/ RemoveLayers(m) PROVE DiskInv'
    <3>1. ~unpruned
      BY <2>5 DEF DeleteHandler, DeleteManifest, RemoveLayers, ListManifests, ReadManifest, MissManifest, RemoveLayer
    <3> QED BY <1>c, <2>5, <3>1, DeleteDisk DEF DownloadInv
  <2>6. ASSUME NEW o \in 1 .. Len(objs), Run(o) PROVE DiskInv'
    <3>1. Types
      BY <1>c DEF ControlInv
    <3>2. ~unpruned
      BY <2>6, <3>1, RunShape DEF Advances
    <3> QED BY <1>c, <2>6, <3>2, AnyRunDisk DEF DownloadInv
  <2>7. CASE UNCHANGED vars
    <3>1. UNCHANGED <<files, objs, pulls, robbed, unpruned>>
      BY <2>7 DEF vars
    <3>2. DiskInv
      BY <3>1 DEF DownloadInv
    <3>3. BlobInv'
      BY <3>1, <3>2, BlobStill DEF DiskInv
    <3> QED BY <1>c, <3>1, <3>2, <3>3, QuietDisk
  <2> QED BY <1>2, <2>1, <2>2, <2>3, <2>4, <2>5, <2>6, <2>7 DEF Next, PullStep
<1> QED BY <1>1, <1>2

(* At first there is nothing.                                              *)
LEMMA InitDisk == Init => DownloadInv
<1> SUFFICES ASSUME Init PROVE DownloadInv
  OBVIOUS
<1>1. ControlInv
  BY InitControl
<1>2. /\ files.blob = "absent" /\ ~files.spoilt /\ objs = <<>> /\ \A m \in Models : pulls[m] = NoPull
      /\ \A k \in Parts : files.parts[k] = Missing /\ files.data[k] = 0
      /\ \A m \in Models : files.manifests[m] = "none"
  BY DEF Init, NoFiles
<1>3. \A m \in Models : ~HasSeen(m) /\ Preparing(m)
  BY <1>2 DEF HasSeen, Preparing, NoPull
<1>4. 1 .. Len(objs) = {}
  BY <1>2, EmptySeq
<1>5. SettledInv
  BY <1>2 DEF SettledInv, Settled
<1>6. PartialInv
  BY <1>2, DownloadAssumption DEF PartialInv, Missing
<1>7. BlobInv
  BY <1>2, <1>3 DEF BlobInv
<1>8. LookInv
  <2>1. deleting = [m \in Models |-> NotDeleting]
    BY DEF Init
  <2>2. NotDeleting \in [Models -> Knowledge] /\ \A q \in Models : NotDeleting[q] = "none"
    BY DEF NotDeleting, Knowledge
  <2> QED BY <2>1, <2>2 DEF LookInv
<1> QED BY <1>1, <1>3, <1>4, <1>5, <1>6, <1>7, <1>8 DEF DownloadInv, DiskInv

(* Downloads, part files and blobs are in order, as long as no start kept  *)
(* the part files of a killed server.                                      *)
THEOREM DiskInOrder ==
  ASSUME Deliveries = {TRUE}, DiskFaults \subseteq {"write", "partial"}
  PROVE  Spec => []DownloadInv
<1>1. Init => DownloadInv
  BY InitDisk
<1>2. DownloadInv /\ [Next]_vars => DownloadInv'
  BY NextDisk
<1> QED BY <1>1, <1>2, PTL DEF Spec

(* A part file never records more than the partial file holds.             *)
THEOREM ResumeSkipsNothing ==
  ASSUME Deliveries = {TRUE}, DiskFaults \subseteq {"write", "partial"}
  PROVE  Spec => []CompletedWritten
<1>1. DownloadInv => CompletedWritten
  BY DEF DownloadInv, DiskInv, PartialInv, CompletedWritten
<1> QED BY <1>1, DiskInOrder, PTL

(* A model with a manifest has its blob, whole.                            *)
THEOREM ManifestIntact ==
  ASSUME Deliveries = {TRUE}, DiskFaults \subseteq {"write", "partial"}
  PROVE  Spec => []ManifestIntactUnlessRobbed
<1>1. DownloadInv => ManifestIntactUnlessRobbed
  BY DEF DownloadInv, DiskInv, BlobInv, ManifestIntactUnlessRobbed
<1> QED BY <1>1, DiskInOrder, PTL

-----------------------------------------------------------------------------
(* Downloads implement BlobPull.                                           *)

(* What BlobPull knows of a pull, of all of them, and of the files.        *)
Phase(m) ==
  IF pulls[m].at \in {"none", "stuck"} THEN "none" ELSE IF HasSeen(m) THEN "seen" ELSE "pulling"
Phases == [m \in Models |-> Phase(m)]
Stored == files.blob = "good"
Written == {m \in Models : files.manifests[m] = "ok"}
Deletes == {m \in Models : deleting[m] # NotDeleting}
Missed == [m \in Models |-> {q \in Models : deleting[m][q] \in {"passed", "late"}}]
Looks == <<Deletes, Missed>>

(* The steps of BlobPull, in these terms.                                  *)
LEMMA PullSteps ==
  ASSUME NEW m \in Models, UNCHANGED Looks,
         \/ Phases[m] = "none" /\ Phases' = [Phases EXCEPT ![m] = "pulling"] /\ UNCHANGED <<Stored, Written>>
         \/ Stored /\ Phases[m] \in {"none", "pulling"} /\ Phases' = [Phases EXCEPT ![m] = "seen"]
            /\ UNCHANGED <<Stored, Written>>
         \/ Phases[m] = "seen" /\ Written' = Written \ {m} /\ UNCHANGED <<Stored, Phases>>
         \/ Phases[m] = "seen" /\ Written' = Written \cup {m} /\ Phases' = [Phases EXCEPT ![m] = "none"]
            /\ UNCHANGED Stored
         \/ Phases[m] # "none" /\ Phases' = [Phases EXCEPT ![m] = "none"] /\ UNCHANGED <<Stored, Written>>
  PROVE  Abstract!Next
  BY DEF Phases, Phase, Stored, Written, Looks, Deletes, Missed, Abstract!Next, Abstract!Begin, Abstract!See,
         Abstract!Hide, Abstract!Succeed, Abstract!Fail

(* Those of a deletion.                                                    *)
LEMMA DeleteSteps ==
  ASSUME NEW m \in Models, UNCHANGED Phases,
         \/ /\ m \in Written \ Deletes /\ Deletes' = Deletes \cup {m}
            /\ UNCHANGED <<Stored, Written, Missed>>
         \/ /\ m \in Deletes /\ Missed[m] = {} /\ Written' = Written \ {m}
            /\ UNCHANGED <<Stored, Deletes, Missed>>
         \/ /\ m \in Deletes /\ UNCHANGED <<Stored, Written, Deletes>>
            /\ \E qs \in SUBSET Models :
                 qs \cap Written = {} /\ Missed' = [Missed EXCEPT ![m] = Missed[m] \cup qs]
         \/ /\ m \in Deletes /\ Deletes' = Deletes \ {m} /\ Missed' = [Missed EXCEPT ![m] = {}]
            /\ UNCHANGED Written
            /\ UNCHANGED Stored \/ (Missed[m] = Models /\ Stored' = FALSE)
  PROVE  Abstract!Next
  BY DEF Phases, Phase, Stored, Written, Deletes, Missed, Abstract!Next, Abstract!Delete, Abstract!Drop,
         Abstract!Look, Abstract!Over, Abstract!Keep, Abstract!Evict

(* The steps of BlobPull that are not those of one pull.                   *)
LEMMA ServerSteps ==
  ASSUME \/ Stored' = TRUE /\ UNCHANGED <<Written, Phases, Looks>>
         \/ /\ Phases' = [m \in Models |-> "none"] /\ UNCHANGED Written
            /\ Deletes' = {} /\ Missed' = [m \in Models |-> {}]
            /\ UNCHANGED Stored \/ (Written = {} /\ Stored' = FALSE)
  PROVE  Abstract!Next
  BY DEF Phases, Phase, Stored, Written, Looks, Deletes, Missed, Abstract!Next, Abstract!Publish,
         Abstract!Restart

(* Steps BlobPull does not see.                                            *)
LEMMA HiddenSteps ==
  ASSUME UNCHANGED <<Stored, Written, Phases, Looks>>
  PROVE  UNCHANGED Abstract!vars
  BY DEF Phases, Phase, Stored, Written, Looks, Deletes, Missed, Abstract!vars

(* One pull goes on.                                                       *)
LEMMA PhaseMoves ==
  ASSUME NEW m \in Models, Moves(m)
  PROVE  Phases' = [Phases EXCEPT ![m] = Phase(m)']
  BY DEF Phases, Phase, HasSeen, Moves

(* One pull goes on without a change of phase.                             *)
LEMMA PhaseKept ==
  ASSUME NEW m \in Models, Moves(m), Phase(m)' = Phase(m)
  PROVE  Phases' = Phases
  BY DEF Phases, Phase, HasSeen, Moves

(* What BlobPull knows of the files stays.                                 *)
LEMMA FilesKept ==
  ASSUME files'.blob = files.blob, files'.manifests = files.manifests
  PROVE  UNCHANGED <<Stored, Written>>
  BY DEF Stored, Written

(* A pull that fails.                                                      *)
LEMMA PullFails ==
  ASSUME NEW m \in Models, Moves(m), Phase(m) # "none", Phase(m)' = "none", UNCHANGED <<Stored, Written, Looks>>
  PROVE  Abstract!Next
<1>1. Phases[m] # "none" /\ Phases' = [Phases EXCEPT ![m] = "none"]
  BY PhaseMoves DEF Phases
<1> QED BY <1>1, PullSteps

(* Pulls and downloads do not change how far DELETEs are: a manifest that  *)
(* is late has been missed as before.                                      *)
LEMMA LooksKept ==
  ASSUME LookInv, deleting' = deleting \/ \E m \in Models : FinishManifest(m)
  PROVE  UNCHANGED Looks
<1>1. CASE deleting' = deleting
  BY <1>1 DEF Looks, Deletes, Missed
<1>2. ASSUME NEW m \in Models, FinishManifest(m) PROVE UNCHANGED Looks
  <2>1. /\ deleting' \in [Models -> [Models -> Knowledge]]
        /\ \A d, q \in Models :
             deleting'[d][q] = IF q = m /\ deleting[d][q] = "passed" /\ files.manifests[m] = "torn"
                              THEN "late" ELSE deleting[d][q]
    BY <1>2, FinishShape
  <2>2. \A d \in Models : deleting'[d] = NotDeleting <=> deleting[d] = NotDeleting
    <3> SUFFICES ASSUME NEW d \in Models PROVE deleting'[d] = NotDeleting <=> deleting[d] = NotDeleting
      OBVIOUS
    <3>1. deleting'[d] \in [Models -> Knowledge] /\ deleting[d] \in [Models -> Knowledge]
      BY <2>1 DEF LookInv
    <3>2. \A q \in Models : deleting'[d][q] = "none" <=> deleting[d][q] = "none"
      BY <2>1
    <3>3. \A k \in [Models -> Knowledge] : k = NotDeleting <=> \A q \in Models : k[q] = "none"
      BY DEF NotDeleting
    <3> QED BY <3>1, <3>2, <3>3
  <2>3. Deletes' = Deletes
    BY <2>2 DEF Deletes
  <2>4. \A d, q \in Models : deleting'[d][q] \in {"passed", "late"} <=> deleting[d][q] \in {"passed", "late"}
    BY <2>1
  <2>5. Missed' = Missed
    BY <2>4 DEF Missed
  <2> QED BY <2>3, <2>5 DEF Looks
<1> QED BY <1>1, <1>2

(* A pull begins, or sees the blob at once.                                *)
LEMMA StatPull ==
  ASSUME ControlInv, DiskInv, UNCHANGED Looks, NEW m \in Models, Stat(m)
  PROVE  Abstract!Next
<1>1. /\ Moves(m) /\ pulls[m].at = "none" /\ pulls'[m].cacheHit = (files.blob # "absent")
      /\ pulls'[m].at = IF files.blob # "absent" THEN "verify" ELSE "store"
  BY StatShape DEF ControlInv
<1>2. UNCHANGED <<Stored, Written>>
  BY FilesKept DEF Stat
<1>3. Phases[m] = "none" /\ Phases' = [Phases EXCEPT ![m] = Phase(m)']
  BY <1>1, PhaseMoves DEF Phases, Phase
<1>4. CASE files.blob = "absent"
  <2>1. Phase(m)' = "pulling"
    BY <1>1, <1>4 DEF Phase, HasSeen
  <2> QED BY <1>2, <1>3, <2>1, PullSteps
<1>5. CASE files.blob # "absent"
  <2>1. Phase(m)' = "seen"
    BY <1>1, <1>5 DEF Phase, HasSeen
  <2>2. Stored
    BY <1>5 DEF Stored, ControlInv, Types, FilesT, DiskInv, BlobInv
  <2> QED BY <1>2, <1>3, <2>1, <2>2, PullSteps
<1> QED BY <1>4, <1>5

(* Prepare goes on, or fails.                                              *)
LEMMA PreparePull ==
  ASSUME ControlInv, UNCHANGED Looks, NEW m \in Models,
         \/ PrepareRead(m) \/ PrepareUnreadable(m) \/ PrepareHead(m) \/ HeadFails(m)
         \/ NewPart(m) \/ NewPartFails(m)
  PROVE  [Abstract!Next]_(Abstract!vars)
<1>1. UNCHANGED <<Stored, Written>> /\ LeadStep(m)
  BY PrepareFiles, FilesKept, PrepareShape
<1>2. Moves(m) /\ Leads(m)
  BY <1>1 DEF LeadStep
<1>3. Phase(m) = "pulling"
  BY <1>2 DEF Leads, Phase, HasSeen
<1>4. CASE pulls'[m] = NoPull
  <2>1. Phase(m)' = "none"
    BY <1>4 DEF NoPull, Phase
  <2> QED BY <1>1, <1>2, <1>3, <2>1, PullFails
<1>5. CASE Leads(m)' \/ pulls'[m].at = "acquire"
  <2>1. Phase(m)' = "pulling"
    BY <1>5 DEF Leads, Phase, HasSeen
  <2> QED BY <1>1, <1>2, <1>3, <2>1, PhaseKept, HiddenSteps
<1> QED BY <1>1, <1>4, <1>5 DEF LeadStep

(* Joining, waiting, and giving up.                                        *)
LEMMA WaitPull ==
  ASSUME ControlInv, UNCHANGED Looks, NEW m \in Models, LoadOrStore(m) \/ Acquire(m) \/ Return(m) \/ Leave(m) \/ Block(m)
  PROVE  [Abstract!Next]_(Abstract!vars)
<1>1. CASE LoadOrStore(m)
  <2>1. Moves(m) /\ pulls[m].at = "store" /\ pulls'[m].at \in {"acquire", "prepare"} /\ files' = files
    BY <1>1, LoadOrStoreShape DEF ControlInv
  <2>2. Phase(m)' = Phase(m)
    BY <2>1 DEF Phase, HasSeen
  <2> QED BY <2>1, <2>2, PhaseKept, FilesKept, HiddenSteps
<1>2. CASE Acquire(m) \/ Return(m) \/ Leave(m)
  <2>1. RefStep(m)
    BY <1>2, AcquireShape, ReleaseShape
  <2>2. /\ Moves(m) /\ files' = files /\ pulls[m].at \in {"acquire", "wait"}
        /\ \/ pulls'[m] = NoPull
           \/ pulls'[m].at \in {"wait", "verify"} /\ pulls'[m].cacheHit = pulls[m].cacheHit
    BY <2>1 DEF RefStep
  <2>3. ~pulls[m].cacheHit /\ Phase(m) = "pulling"
    BY <2>2, Joiner DEF Phase, HasSeen
  <2>4. UNCHANGED <<Stored, Written>>
    BY <2>2, FilesKept
  <2>5. CASE pulls'[m] = NoPull
    <3>1. Phase(m)' = "none"
      BY <2>5 DEF NoPull, Phase
    <3> QED BY <2>2, <2>3, <2>4, <3>1, PullFails
  <2>6. CASE pulls'[m].at \in {"wait", "verify"} /\ pulls'[m].cacheHit = pulls[m].cacheHit
    <3>1. Phase(m)' = "pulling"
      BY <2>3, <2>6 DEF Phase, HasSeen
    <3> QED BY <2>2, <2>3, <2>4, <3>1, PhaseKept, HiddenSteps
  <2> QED BY <2>2, <2>5, <2>6
<1>3. CASE Block(m)
  <2>1. /\ Moves(m) /\ pulls'[m].at = "stuck" /\ files' = files
        /\ pulls[m].at \in {"wait", "verify", "manifest"}
    BY <1>3, BlockShape
  <2>2. Phase(m) # "none" /\ Phase(m)' = "none"
    BY <2>1 DEF Phase, HasSeen
  <2> QED BY <2>1, <2>2, FilesKept, PullFails
<1> QED BY <1>1, <1>2, <1>3

(* A pull verifies the blob.                                               *)
LEMMA VerifyPull ==
  ASSUME ControlInv, DiskInv, UNCHANGED Looks, NEW m \in Models, Verify(m)
  PROVE  [Abstract!Next]_(Abstract!vars)
<1>t. Types /\ files \in FilesT
  BY DEF ControlInv, Types
<1>1. Moves(m) /\ pulls[m].at = "verify" /\ files'.manifests = files.manifests
  BY TailShape, TailFiles DEF Verify
<1>2. CASE pulls[m].cacheHit \/ files.blob = "good"
  <2>1. files' = files /\ pulls' = Goes(m, "manifest")
    BY <1>2 DEF Verify
  <2>2. Phase(m)' = "seen"
    <3>1. pulls'[m].at = "manifest"
      BY <1>t, <2>1, GoesShape
    <3> QED BY <3>1 DEF Phase, HasSeen
  <2>3. CASE pulls[m].cacheHit
    <3>1. Phase(m) = "seen"
      BY <1>1, <2>3 DEF Phase, HasSeen
    <3> QED BY <1>1, <2>1, <2>2, <3>1, PhaseKept, FilesKept, HiddenSteps
  <2>4. CASE ~pulls[m].cacheHit
    <3>1. Phases[m] = "pulling" /\ Stored /\ Phases' = [Phases EXCEPT ![m] = "seen"]
      BY <1>1, <1>2, <2>2, <2>4, PhaseMoves DEF Phases, Phase, HasSeen, Stored
    <3> QED BY <2>1, <3>1, FilesKept, PullSteps
  <2> QED BY <2>3, <2>4
<1>3. CASE ~(pulls[m].cacheHit \/ files.blob = "good")
  <2>1. files' = [files EXCEPT !.blob = "absent"] /\ pulls' = Ended(m)
    BY <1>3 DEF Verify
  <2>2. files'.blob = "absent"
    BY <1>t, <2>1 DEF FilesT
  <2>3. UNCHANGED <<Stored, Written>>
    BY <1>1, <1>3, <2>2 DEF Stored, Written
  <2>4. pulls'[m] = NoPull
    BY <1>t, <2>1, EndedShape
  <2>5. Phase(m) # "none" /\ Phase(m)' = "none"
    BY <1>1, <2>4 DEF Phase, HasSeen, NoPull
  <2> QED BY <1>1, <2>3, <2>5, PullFails
<1> QED BY <1>2, <1>3

(* A pull writes its manifest, or cannot.                                  *)
LEMMA ManifestPull ==
  ASSUME ControlInv, UNCHANGED Looks, NEW m \in Models,
         WriteManifest(m) \/ FinishManifest(m) \/ ManifestFails(m)
  PROVE  Abstract!Next
<1>t. Types /\ files.manifests \in [Models -> {"none", "torn", "ok"}]
  BY DEF ControlInv, Types, FilesT
<1>1. Moves(m) /\ Phases[m] = "seen"
  BY TailShape DEF Phases, Phase, HasSeen, WriteManifest, FinishManifest, ManifestFails
<1>2. files'.blob = files.blob
  BY TailFiles
<1>3. CASE WriteManifest(m)
  <2>1. pulls'[m].at = "writing"
    BY <1>t, <1>3, GoesShape DEF WriteManifest
  <2>2. Phases' = Phases
    BY <1>1, <2>1, PhaseKept DEF Phases, Phase, HasSeen
  <2>3. files'.manifests = [files.manifests EXCEPT ![m] = "torn"]
    BY <1>3, TailFiles
  <2>4. Written' = Written \ {m}
    BY <1>t, <2>3 DEF Written
  <2> QED BY <1>1, <1>2, <2>2, <2>4, PullSteps DEF Stored
<1>4. CASE FinishManifest(m)
  <2>1. pulls'[m] = NoPull
    BY <1>t, <1>4, EndedShape DEF FinishManifest
  <2>2. Phases' = [Phases EXCEPT ![m] = "none"]
    <3>1. Phase(m)' = "none"
      BY <2>1 DEF Phase, NoPull
    <3> QED BY <1>1, <3>1, PhaseMoves
  <2>3. files'.manifests = [files.manifests EXCEPT ![m] = Finished(m)]
    BY <1>4, TailFiles
  <2>4. Written' = Written \cup {m} \/ Written' = Written
    BY <1>t, <2>3 DEF Written, Finished
  <2> QED BY <1>1, <1>2, <2>2, <2>4, PullSteps DEF Stored
<1>5. CASE ManifestFails(m)
  <2>1. files' = files /\ pulls'[m] = NoPull
    BY <1>t, <1>5, EndedShape DEF ManifestFails
  <2>2. Phase(m) # "none" /\ Phase(m)' = "none"
    BY <1>1, <2>1 DEF Phases, Phase, NoPull
  <2> QED BY <1>1, <2>1, <2>2, FilesKept, PullFails
<1> QED BY <1>3, <1>4, <1>5

(* One deletion goes on.                                                   *)
LEMMA LooksMove ==
  ASSUME NEW m \in Models, \A d \in Models : d # m => deleting'[d] = deleting[d]
  PROVE  /\ Missed' = [Missed EXCEPT ![m] = {q \in Models : deleting'[m][q] \in {"passed", "late"}}]
         /\ deleting'[m] = NotDeleting => Deletes' = Deletes \ {m} /\ Missed' = [Missed EXCEPT ![m] = {}]
         /\ deleting'[m] # NotDeleting => Deletes' = Deletes \cup {m}
<1>1. Missed' = [Missed EXCEPT ![m] = {q \in Models : deleting'[m][q] \in {"passed", "late"}}]
  BY DEF Missed
<1>2. deleting'[m] = NotDeleting => {q \in Models : deleting'[m][q] \in {"passed", "late"}} = {}
  BY DEF NotDeleting
<1>3. /\ deleting'[m] = NotDeleting => Deletes' = Deletes \ {m}
      /\ deleting'[m] # NotDeleting => Deletes' = Deletes \cup {m}
  BY DEF Deletes
<1> QED BY <1>1, <1>2, <1>3

(* DELETE begins.                                                          *)
LEMMA DeleteHandlerPull ==
  ASSUME ControlInv, LookInv, NEW m \in Models, DeleteHandler(m), UNCHANGED Phases
  PROVE  Abstract!Next
<1>1. /\ files' = files /\ files.manifests[m] = "ok" /\ deleting[m] = NotDeleting
      /\ deleting' = [deleting EXCEPT ![m] = [q \in Models |-> "found"]]
  BY DEF DeleteHandler
<1>2. UNCHANGED <<Stored, Written>> /\ m \in Written \ Deletes
  BY <1>1 DEF Stored, Written, Deletes
<1>3. /\ \A d \in Models : d # m => deleting'[d] = deleting[d]
      /\ \A q \in Models : deleting'[m][q] = "found" /\ deleting[m][q] = "none"
  BY <1>1 DEF LookInv, NotDeleting
<1>4. deleting'[m] # NotDeleting
  BY <1>3 DEF NotDeleting
<1>5. Deletes' = Deletes \cup {m}
  BY <1>3, <1>4, LooksMove
<1>6. Missed' = Missed
  <2>1. \A d, q \in Models : deleting'[d][q] \in {"passed", "late"} <=> deleting[d][q] \in {"passed", "late"}
    BY <1>3
  <2> QED BY <2>1 DEF Missed
<1> QED BY <1>2, <1>5, <1>6, DeleteSteps

(* It removes the manifest.                                                *)
LEMMA DeleteManifestPull ==
  ASSUME ControlInv, LookInv, NEW m \in Models, DeleteManifest(m), UNCHANGED Phases
  PROVE  Abstract!Next
<1>t. files \in FilesT /\ files.manifests \in [Models -> {"none", "torn", "ok"}]
  BY DEF ControlInv, Types, FilesT
<1>1. /\ files' = [files EXCEPT !.manifests = [files.manifests EXCEPT ![m] = "none"]]
      /\ deleting[m] = [q \in Models |-> "found"]
      /\ deleting' = [deleting EXCEPT ![m] = [q \in Models |-> "ahead"]]
  BY DEF DeleteManifest
<1>2. files'.blob = files.blob /\ files'.manifests = [files.manifests EXCEPT ![m] = "none"]
  BY <1>t, <1>1 DEF FilesT
<1>3. Stored' = Stored /\ Written' = Written \ {m}
  BY <1>t, <1>2 DEF Stored, Written
<1>4. /\ \A d \in Models : d # m => deleting'[d] = deleting[d]
      /\ \A q \in Models : deleting'[m][q] = "ahead" /\ deleting[m][q] = "found"
  BY <1>1 DEF LookInv
<1>5. deleting'[m] # NotDeleting /\ m \in Deletes
  BY <1>4 DEF NotDeleting, Deletes
<1>6. Deletes' = Deletes
  <2>1. Deletes' = Deletes \cup {m}
    BY <1>4, <1>5, LooksMove
  <2> QED BY <1>5, <2>1
<1>7. Missed' = Missed /\ Missed[m] = {}
  <2>1. \A d, q \in Models : deleting'[d][q] \in {"passed", "late"} <=> deleting[d][q] \in {"passed", "late"}
    BY <1>4
  <2> QED BY <1>4, <2>1 DEF Missed
<1> QED BY <1>3, <1>5, <1>6, <1>7, DeleteSteps

(* DELETE goes on.                                                         *)
LEMMA RemoveLayersPull ==
  ASSUME ControlInv, LookInv, NEW m \in Models, RemoveLayers(m), UNCHANGED Phases
  PROVE  Abstract!Next
<1>t. files \in FilesT /\ deleting \in [Models -> [Models -> Knowledge]]
  BY DEF ControlInv, Types, LookInv
<1>0. \A d \in Models : d # m => deleting'[d] = deleting[d]
  BY LayerShape
<1>1. CASE /\ files' = files /\ deleting'[m] = NotDeleting
           /\ \E q \in Models : deleting[m][q] = "listed"
  <2>1. m \in Deletes
    BY <1>1 DEF Deletes, NotDeleting
  <2>2. UNCHANGED <<Stored, Written>>
    BY <1>1, FilesKept
  <2> QED BY <1>0, <1>1, <2>1, <2>2, LooksMove, DeleteSteps
<1>2. CASE /\ files' = files
           /\ \E q \in Models : deleting[m][q] \in {"ahead", "listed"}
           /\ \A q \in Models :
                \/ deleting'[m][q] = deleting[m][q]
                \/ deleting[m][q] \in {"ahead", "listed"} /\ deleting'[m][q] = "listed"
                \/ deleting[m][q] \in {"ahead", "listed"} /\ deleting'[m][q] = "passed"
                   /\ files.manifests[q] # "ok"
  <2> DEFINE qs == {q \in Models : deleting'[m][q] = "passed" /\ deleting[m][q] # "passed"}
             missed == {q \in Models : deleting'[m][q] \in {"passed", "late"}}
  <2>1. qs \in SUBSET Models /\ qs \cap Written = {}
    BY <1>2 DEF Written
  <2>2. missed = Missed[m] \cup qs
    BY <1>2 DEF Missed
  <2>3. Missed' = [Missed EXCEPT ![m] = missed]
    BY <1>0, LooksMove
  <2>4. m \in Deletes /\ deleting'[m] # NotDeleting
    BY <1>2 DEF Deletes, NotDeleting
  <2>5. Deletes' = Deletes
    <3>1. Deletes' = Deletes \cup {m}
      BY <1>0, <2>4, LooksMove
    <3>2. Deletes \cup {m} = Deletes
      BY <2>4
    <3> QED BY <3>1, <3>2
  <2>6. UNCHANGED <<Stored, Written>>
    BY <1>2, FilesKept
  <2> HIDE DEF qs, missed
  <2> QED BY <2>1, <2>2, <2>3, <2>4, <2>5, <2>6, DeleteSteps
<1>3. CASE RemoveLayer(m) /\ deleting'[m] = NotDeleting
  <2>1. /\ files' = [files EXCEPT !.blob = "absent"]
        /\ \A q \in Models : deleting[m][q] \in {"passed", "late"}
    BY <1>3 DEF RemoveLayer
  <2>2. files'.blob = "absent" /\ files'.manifests = files.manifests
    BY <1>t, <2>1 DEF FilesT
  <2>3. Written' = Written /\ Stored' = FALSE /\ Missed[m] = Models
    BY <2>1, <2>2 DEF Written, Stored, Missed
  <2>4. m \in Deletes
    BY <2>1 DEF Deletes, NotDeleting
  <2> QED BY <1>0, <1>3, <2>3, <2>4, LooksMove, DeleteSteps
<1> QED BY <1>1, <1>2, <1>3, LayerShape

(* Only the rename of a download is seen.                                  *)
LEMMA RunPull ==
  ASSUME ControlInv, DiskInv, UNCHANGED Looks, NEW o \in 1 .. Len(objs), Run(o)
  PROVE  [Abstract!Next]_(Abstract!vars)
<1>t. Types /\ files \in FilesT
  BY DEF ControlInv, Types
<1>1. Phases' = Phases
  <2>1. pulls' = pulls
    BY <1>t, RunShape DEF Advances
  <2> QED BY <2>1 DEF Phases, Phase, HasSeen
<1>2. CASE Rename(o)
  <2>1. files'.blob = "good" /\ files'.manifests = files.manifests
    BY <1>t, <1>2, RenameDisk, RenameShape
  <2> QED BY <1>1, <2>1, ServerSteps DEF Stored, Written
<1>3. CASE ~Rename(o)
  <2>1. files'.blob = files.blob /\ files'.manifests = files.manifests
    BY <1>t, <1>3, RunFiles
  <2> QED BY <1>1, <2>1, FilesKept, HiddenSteps
<1> QED BY <1>2, <1>3

(* A server ends and starts.                                               *)
LEMMA EndPull ==
  ASSUME ControlInv, Crash \/ \E m \in Models : LeavePanics(m)
  PROVE  Abstract!Next
<1>t. Types /\ files \in FilesT
  BY DEF ControlInv, Types
<1>1. ASSUME NEW f \in FilesT, Restart(f), f.blob = files.blob, f.manifests = files.manifests
      PROVE  Abstract!Next
  <2>1. /\ files' = Pruned(f) /\ pulls' = [m \in Models |-> NoPull] /\ files'.manifests = files.manifests
        /\ files'.blob = f.blob
           \/ files'.blob = IF \E m \in Models : f.manifests[m] = "ok" THEN f.blob ELSE "absent"
    BY <1>t, <1>1, RestartShape
  <2>2. Phases' = [m \in Models |-> "none"]
    BY <2>1 DEF Phases, Phase, NoPull
  <2>3. Written' = Written
    BY <2>1 DEF Written
  <2>4. Stored' = Stored \/ (Written = {} /\ Stored' = FALSE)
    BY <1>1, <2>1 DEF Stored, Written
  <2>5. Deletes' = {} /\ Missed' = [m \in Models |-> {}]
    <3>1. deleting' = [m \in Models |-> NotDeleting]
      BY <1>1 DEF Restart
    <3> QED BY <3>1 DEF Deletes, Missed, NotDeleting
  <2> QED BY <2>2, <2>3, <2>4, <2>5, ServerSteps
<1>2. CASE \E m \in Models : LeavePanics(m)
  <2>1. Restart(files)
    BY <1>2 DEF LeavePanics
  <2> QED BY <1>t, <1>1, <2>1
<1>3. CASE Crash
  <2>1. PICK torn : Restart(CrashFiles(torn))
    BY <1>3 DEF Crash, CrashFiles
  <2>2. /\ CrashFiles(torn) \in FilesT /\ CrashFiles(torn).manifests = files.manifests
        /\ CrashFiles(torn).blob = files.blob
    BY <1>t, CrashFilesType
  <2> QED BY <1>1, <2>1, <2>2
<1> QED BY <1>2, <1>3

(* Every step is one of BlobPull, or hidden from it.                       *)
LEMMA NextPull ==
  ASSUME DownloadInv, [Next]_vars
  PROVE  [unpruned \/ Abstract!Next]_(Abstract!vars)
<1> SUFFICES ASSUME ~unpruned PROVE [Abstract!Next]_(Abstract!vars)
  OBVIOUS
<1>i. ControlInv /\ LookInv /\ DiskInv
  BY DEF DownloadInv
<1>1. ASSUME NEW m \in Models, Stat(m) PROVE [Abstract!Next]_(Abstract!vars)
  BY <1>i, <1>1, DeletingKept, LooksKept, StatPull
<1>2. ASSUME NEW m \in Models,
             \/ PrepareRead(m) \/ PrepareUnreadable(m) \/ PrepareHead(m) \/ HeadFails(m)
             \/ NewPart(m) \/ NewPartFails(m)
      PROVE  [Abstract!Next]_(Abstract!vars)
  BY <1>i, <1>2, DeletingKept, LooksKept, PreparePull
<1>3. ASSUME NEW m \in Models, LoadOrStore(m) \/ Acquire(m) \/ Return(m) \/ Leave(m) \/ Block(m)
      PROVE  [Abstract!Next]_(Abstract!vars)
  BY <1>i, <1>3, DeletingKept, LooksKept, WaitPull
<1>4. ASSUME NEW m \in Models, Verify(m) PROVE [Abstract!Next]_(Abstract!vars)
  BY <1>i, <1>4, DeletingKept, LooksKept, VerifyPull
<1>5. ASSUME NEW m \in Models, WriteManifest(m) \/ FinishManifest(m) \/ ManifestFails(m)
      PROVE  [Abstract!Next]_(Abstract!vars)
  BY <1>i, <1>5, DeletingKept, LooksKept, ManifestPull
<1>6. ASSUME NEW m \in Models, DeleteHandler(m) \/ DeleteManifest(m) \/ RemoveLayers(m) PROVE [Abstract!Next]_(Abstract!vars)
  <2>1. pulls' = pulls
    BY <1>i, <1>6, DeleteShape DEF ControlInv
  <2>2. Phases' = Phases
    BY <2>1 DEF Phases, Phase, HasSeen
  <2> QED BY <1>i, <1>6, <2>2, DeleteHandlerPull, DeleteManifestPull, RemoveLayersPull
<1>7. ASSUME NEW o \in 1 .. Len(objs), Run(o) PROVE [Abstract!Next]_(Abstract!vars)
  BY <1>i, <1>7, DeletingKept, LooksKept, RunPull
<1>8. CASE Crash \/ \E m \in Models : LeavePanics(m)
  BY <1>i, <1>8, EndPull
<1>9. CASE UNCHANGED vars
  <2>1. UNCHANGED <<files, pulls, deleting>>
    BY <1>9 DEF vars
  <2>2. Phases' = Phases
    BY <2>1 DEF Phases, Phase, HasSeen
  <2> QED BY <1>i, <2>1, <2>2, FilesKept, LooksKept, HiddenSteps
<1> QED BY <1>1, <1>2, <1>3, <1>4, <1>5, <1>6, <1>7, <1>8, <1>9 DEF Next, PullStep

(* Whatever the downloads do, pulls behave as BlobPull says, until a       *)
(* server starts with the part files of a killed one.                      *)
THEOREM DownloadsImplementPull ==
  ASSUME Deliveries = {TRUE}, DiskFaults \subseteq {"write", "partial"}
  PROVE  Spec => ImplementsPull
<1>1. Init => Abstract!Init
  <2> SUFFICES ASSUME Init PROVE Abstract!Init
    OBVIOUS
  <2>1. Stored = FALSE /\ Written = {} /\ Phases = [m \in Models |-> "none"]
    BY DEF Init, NoFiles, NoPull, Stored, Written, Phases, Phase
  <2>2. Deletes = {} /\ Missed = [m \in Models |-> {}]
    BY DEF Init, NotDeleting, Deletes, Missed
  <2> QED BY <2>1, <2>2 DEF Stored, Written, Phases, Phase, Deletes, Missed, Abstract!Init
<1>2. DownloadInv /\ [Next]_vars => [unpruned \/ Abstract!Next]_(Abstract!vars)
  BY NextPull
<1> QED BY <1>1, <1>2, DiskInOrder, PTL DEF Spec, ImplementsPull

=============================================================================
