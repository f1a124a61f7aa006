--------------------------- MODULE FileTTLProofs ----------------------------
(***************************************************************************)
(* fttl removes files as it was asked to, for any set of paths, any         *)
(* timestamps and any number of datagrams, failures and kills.              *)
(***************************************************************************)
EXTENDS FileTTL, TLAPS

AskedOrError == asked \cup {<<0, NoPath>>}

(* What is on its way to the map was asked for, or comes from a failed read. *)
InputAsAsked ==
    /\ \A j \in DOMAIN net : \E q \in asked : net[j] = Packed(q[1], q[2])
    /\ decoded # None => decoded \in AskedOrError

Sweeping == pc \in {"sweep", "remove"}

(* During a sweep nobody else touches the map, and the keys already passed   *)
(* are not due.                                                              *)
SweepInv ==
    /\ mutex_ = "consumer" <=> Sweeping
    /\ ~up => pc = "off"
    /\ Sweeping => /\ ss <= clock
                   /\ todo \subseteq DOMAIN files_
                   /\ \A t \in DOMAIN files_ \ todo : t > ss

(* While the files of a key are removed, the key is due, each name left is   *)
(* one asked for under it, and every other name has been tried.              *)
RemoveInv ==
    pc = "remove" =>
        /\ key \in todo /\ key <= ss
        /\ \A j \in DOMAIN names : <<key, names[j]>> \in AskedOrError
        /\ \A j \in DOMAIN files_[key] :
              \/ <<key, files_[key][j]>> \in attempted
              \/ \E l \in DOMAIN names : names[l] = files_[key][j]

Inv == TypeOK /\ FilesAsAsked /\ InputAsAsked /\ SweepInv /\ RemoveInv

-----------------------------------------------------------------------------
LEMMA AppendElement ==
    ASSUME NEW S, NEW s \in Seq(S), NEW e \in S,
           NEW j \in DOMAIN Append(s, e)
    PROVE  Append(s, e)[j] = e \/ (j \in DOMAIN s /\ Append(s, e)[j] = s[j])
  OBVIOUS

LEMMA PairElement ==
    ASSUME NEW S, NEW T, NEW x \in S \X T
    PROVE  x[1] \in S /\ x[2] \in T /\ x = <<x[1], x[2]>>
  OBVIOUS

LEMMA TailElement ==
    ASSUME NEW S, NEW s \in Seq(S), s # <<>>
    PROVE  /\ Head(s) = s[1] /\ 1 \in DOMAIN s
           /\ \A j \in DOMAIN Tail(s) : j + 1 \in DOMAIN s /\ Tail(s)[j] = s[j + 1]
           /\ \A l \in DOMAIN s : l = 1 \/ (l - 1 \in DOMAIN Tail(s) /\ Tail(s)[l - 1] = s[l])
  OBVIOUS

LEMMA DatagramUnpacks ==
    ASSUME NEW d \in Datagrams
    PROVE  Unpacked(d) \in Nat \X Names
<1>1. PICK t \in Stamps, p \in Paths : d = Packed(t, p)
  BY DEF Datagrams
<1>2. Unpacked(d) = <<t, p>>
  BY <1>1, ConstantsAssumption
<1> QED
  BY <1>2, ConstantsAssumption DEF Names

LEMMA AskedUnpacks ==
    ASSUME NEW q \in Stamps \X Paths
    PROVE  Unpacked(Packed(q[1], q[2])) = q
<1>1. q[1] \in Stamps /\ q[2] \in Paths /\ q = <<q[1], q[2]>>
  BY PairElement
<1> QED
  BY <1>1, ConstantsAssumption

LEMMA EmptyMapType ==
    /\ DOMAIN EmptyMap = {}
    /\ EmptyMap \in [DOMAIN EmptyMap -> Seq(Names)]
  BY DEF EmptyMap

LEMMA InitType == Init => TypeOK
<1> SUFFICES ASSUME Init PROVE TypeOK
  OBVIOUS
<1>1. DOMAIN files_ \subseteq Nat /\ files_ \in [DOMAIN files_ -> Seq(Names)]
  BY EmptyMapType DEF Init
<1>2. net \in Seq(Datagrams) /\ names \in Seq(Names)
  BY DEF Init
<1> QED
  BY <1>1, <1>2 DEF Init, TypeOK

LEMMA InitInv == Init => Inv
<1> SUFFICES ASSUME Init PROVE Inv
  OBVIOUS
<1>1. TypeOK
  BY InitType
<1>2. FilesAsAsked /\ InputAsAsked /\ SweepInv /\ RemoveInv
  BY DEF Init, FilesAsAsked, InputAsAsked, SweepInv, RemoveInv, Sweeping, EmptyMap
<1> QED
  BY <1>1, <1>2 DEF Inv

LEMMA TypeStep == ASSUME TypeOK, SweepInv, [Next]_vars PROVE TypeOK'
<1> USE DEF TypeOK, envVars, sweepVars
<1>1. CASE Tock
  BY <1>1, SMTT(30) DEF Tock
<1>2. CASE Kill
  <2>1. DOMAIN files_' \subseteq Nat /\ files_' \in [DOMAIN files_' -> Seq(Names)]
    BY <1>2, EmptyMapType DEF Kill
  <2>2. net' \in Seq(Datagrams) /\ names' \in Seq(Names)
    BY <1>2 DEF Kill
  <2>3. /\ clock' \in Nat /\ disk' \subseteq Paths /\ up' \in BOOLEAN
        /\ decoded' \in (Nat \X Names) \cup {None}
        /\ mutex_' \in {"free", "consumer"}
        /\ pc' \in {"off", "sleep", "sweep", "remove"}
    BY <1>2 DEF Kill
  <2>4. /\ ss' \in Nat /\ todo' \subseteq Nat /\ key' \in Nat
        /\ sends' \in Nat /\ creates' \in Nat /\ errors' \in Nat /\ crashes' \in Nat
        /\ asked' \subseteq Stamps \X Paths /\ attempted' \subseteq Nat \X Names
    BY <1>2 DEF Kill
  <2> QED
    BY <2>1, <2>2, <2>3, <2>4
<1>3. ASSUME NEW p \in Paths, Create(p) PROVE TypeOK'
  BY <1>3 DEF Create
<1>4. ASSUME NEW t \in Stamps, NEW p \in Paths, SendMessage(t, p) PROVE TypeOK'
  <2>1. <<t, p>> \in Nat \X Names /\ <<t, p>> \in Stamps \X Paths
    BY ConstantsAssumption DEF Names
  <2>2. Append(net, Packed(t, p)) \in Seq(Datagrams)
    BY DEF Datagrams
  <2>3. net' \in Seq(Datagrams) /\ asked' \subseteq Stamps \X Paths
    BY <1>4, <2>1, <2>2 DEF SendMessage
  <2> QED
    BY <1>4, <2>3 DEF SendMessage
<1>5. CASE Run
  BY <1>5 DEF Run
<1>6. CASE Read
  <2>1. Head(net) \in Datagrams /\ net' \in Seq(Datagrams)
    BY <1>6 DEF Read
  <2>2. decoded' \in Nat \X Names
    BY <1>6, <2>1, DatagramUnpacks DEF Read
  <2> QED
    BY <1>6, <2>1, <2>2 DEF Read
<1>7. CASE ReadError
  <2>1. decoded' \in Nat \X Names
    BY <1>7, ConstantsAssumption, SMTT(30) DEF ReadError, ErrorPair, Names
  <2> QED
    BY <1>7, <2>1, SMTT(30) DEF ReadError
<1>8. CASE InsertPair
  <2>1. decoded[1] \in Nat /\ decoded[2] \in Names
    BY <1>8 DEF InsertPair
  <2>2. VectorAfter(decoded[1], decoded[2]) \in Seq(Names)
    BY <2>1 DEF VectorAfter
  <2>3. /\ DOMAIN files_' \subseteq Nat
        /\ files_' \in [DOMAIN files_' -> Seq(Names)]
    BY <1>8, <2>1, <2>2 DEF InsertPair, Slot
  <2> QED
    BY <1>8, <2>3 DEF InsertPair
<1>9. CASE ConsumerLock
  BY <1>9 DEF ConsumerLock
<1>10. CASE RemoveFile
  BY <1>10 DEF RemoveFile
<1>11. CASE EraseKey
  BY <1>11 DEF EraseKey
<1>12. CASE ConsumerUnlock
  BY <1>12 DEF ConsumerUnlock
<1>13. ASSUME NEW t \in todo, SweepKeep(t) PROVE TypeOK'
  BY <1>13 DEF SweepKeep
<1>14. ASSUME NEW t \in todo, SweepExpired(t) PROVE TypeOK'
  <2>1. t \in Nat /\ t \in DOMAIN files_
    BY <1>14 DEF SweepExpired, SweepInv, Sweeping
  <2>2. names' \in Seq(Names)
    BY <1>14, <2>1 DEF SweepExpired, NamesUnder
  <2> QED
    BY <1>14, <2>1, <2>2 DEF SweepExpired
<1>15. CASE UNCHANGED vars
  BY <1>15 DEF vars
<1> QED
  BY <1>1, <1>2, <1>3, <1>4, <1>5, <1>6, <1>7, <1>8, <1>9, <1>10, <1>11, <1>12,
     <1>13, <1>14, <1>15 DEF Next, Main, Consumer

-----------------------------------------------------------------------------
(* The parts of Inv other than TypeOK. *)
Rest == FilesAsAsked /\ InputAsAsked /\ SweepInv /\ RemoveInv

LEMMA RestStep == ASSUME Inv, [Next]_vars PROVE Rest'
<1> USE DEF Inv, TypeOK, Rest, envVars, sweepVars, Sweeping, AskedOrError
<1>1. CASE Tock
  BY <1>1 DEF Tock, FilesAsAsked, InputAsAsked, SweepInv, RemoveInv
<1>2. CASE Kill
  <2>1. DOMAIN files_' = {} /\ DOMAIN net' = {}
    BY <1>2, EmptyMapType DEF Kill
  <2> QED
    BY <1>2, <2>1 DEF Kill, FilesAsAsked, InputAsAsked, SweepInv, RemoveInv
<1>3. ASSUME NEW p \in Paths, Create(p) PROVE Rest'
  BY <1>3 DEF Create, FilesAsAsked, InputAsAsked, SweepInv, RemoveInv
<1>4. ASSUME NEW t \in Stamps, NEW p \in Paths, SendMessage(t, p) PROVE Rest'
  <2>1. asked \subseteq asked' /\ <<t, p>> \in asked'
    BY <1>4 DEF SendMessage
  <2>2. InputAsAsked'
    <3>1. CASE net' = net
      BY <1>4, <2>1, <3>1 DEF SendMessage, InputAsAsked
    <3>2. CASE net' = Append(net, Packed(t, p))
      <4>1. \A j \in DOMAIN net' :
               net'[j] = Packed(t, p) \/ (j \in DOMAIN net /\ net'[j] = net[j])
        <5>1. net \in Seq(Datagrams) /\ Packed(t, p) \in Datagrams
          BY DEF Datagrams
        <5> QED
          BY <3>2, <5>1, AppendElement
      <4>2. \E q \in asked' : Packed(t, p) = Packed(q[1], q[2])
        BY <2>1
      <4>3. \A j \in DOMAIN net' : \E q \in asked' : net'[j] = Packed(q[1], q[2])
        BY <2>1, <4>1, <4>2 DEF InputAsAsked
      <4> QED
        BY <1>4, <2>1, <4>3 DEF SendMessage, InputAsAsked
    <3> QED
      BY <1>4, <3>1, <3>2 DEF SendMessage
  <2>3. FilesAsAsked' /\ RemoveInv' /\ SweepInv'
    BY <1>4, <2>1 DEF SendMessage, FilesAsAsked, RemoveInv, SweepInv
  <2> QED
    BY <2>2, <2>3
<1>5. CASE Run
  BY <1>5 DEF Run, FilesAsAsked, InputAsAsked, SweepInv, RemoveInv
<1>6. CASE Read
  <2>1. \A j \in DOMAIN net' : \E q \in asked : net'[j] = Packed(q[1], q[2])
    BY <1>6, TailElement DEF Read, InputAsAsked
  <2>2. PICK q \in asked : Head(net) = Packed(q[1], q[2])
    BY <1>6, TailElement DEF Read, InputAsAsked
  <2>3. decoded' = q
    BY <1>6, <2>2, AskedUnpacks DEF Read
  <2> QED
    BY <1>6, <2>1, <2>3 DEF Read, FilesAsAsked, InputAsAsked, SweepInv, RemoveInv
<1>7. CASE ReadError
  <2>1. InputAsAsked'
    BY <1>7, ConstantsAssumption DEF ReadError, ErrorPair, InputAsAsked
  <2>2. FilesAsAsked'
    BY <1>7 DEF ReadError, FilesAsAsked
  <2>3. SweepInv' /\ RemoveInv'
    BY <1>7 DEF ReadError, SweepInv, RemoveInv
  <2> QED
    BY <2>1, <2>2, <2>3
<1>8. CASE InsertPair
  <2> DEFINE t == decoded[1]
             p == decoded[2]
  <2>1. t \in Nat /\ p \in Names /\ decoded = <<t, p>> /\ <<t, p>> \in AskedOrError
    <3>1. decoded \in Nat \X Names /\ decoded \in AskedOrError
      BY <1>8 DEF InsertPair, InputAsAsked
    <3>2. decoded[1] \in Nat /\ decoded[2] \in Names /\ decoded = <<decoded[1], decoded[2]>>
      BY ONLY <3>1, PairElement
    <3> QED
      BY <3>1, <3>2
  <2>2. ~Sweeping
    BY <1>8 DEF InsertPair, SweepInv
  <2>3. ASSUME NEW u \in DOMAIN files_', NEW j \in DOMAIN files_'[u]
        PROVE  <<u, files_'[u][j]>> \in AskedOrError
    <3>1. files_'[u] = IF u = t THEN VectorAfter(t, p) ELSE files_[u]
      BY <1>8 DEF InsertPair, Slot
    <3>2. CASE u # t
      BY <1>8, <3>1, <3>2 DEF InsertPair, Slot, FilesAsAsked
    <3>3. CASE u = t /\ t \in DOMAIN files_
      <4>1. files_[t] \in Seq(Names) /\ files_'[t] = Append(files_[t], p)
        BY <3>1, <3>3 DEF VectorAfter
      <4>2. files_'[t][j] = p \/ (j \in DOMAIN files_[t] /\ files_'[t][j] = files_[t][j])
        <5> HIDE DEF t, p
        <5> QED
          BY <2>1, <3>3, <4>1, AppendElement
      <4>3. CASE files_'[t][j] = p
        BY <2>1, <3>3, <4>3
      <4>4. CASE j \in DOMAIN files_[t] /\ files_'[t][j] = files_[t][j]
        <5>1. <<t, files_[t][j]>> \in AskedOrError
          BY <3>3, <4>4 DEF FilesAsAsked
        <5> QED
          BY <3>3, <4>4, <5>1
      <4> QED
        BY <4>2, <4>3, <4>4
    <3>4. CASE u = t /\ t \notin DOMAIN files_
      <4>1. files_'[t] = <<p>>
        BY <3>1, <3>4 DEF VectorAfter
      <4>2. files_'[u][j] = p
        BY <3>4, <4>1
      <4> QED
        BY <2>1, <3>4, <4>2
    <3> QED
      BY <3>2, <3>3, <3>4
  <2>4. FilesAsAsked'
    <3>1. asked' = asked
      BY <1>8 DEF InsertPair
    <3> QED
      BY ONLY <2>3, <3>1 DEF FilesAsAsked, AskedOrError
  <2> QED
    BY <1>8, <2>2, <2>4 DEF InsertPair, InputAsAsked, SweepInv, RemoveInv
<1>9. CASE ConsumerLock
  BY <1>9 DEF ConsumerLock, FilesAsAsked, InputAsAsked, SweepInv, RemoveInv
<1>10. CASE RemoveFile
  <2>1. /\ names' = Tail(names) /\ names # <<>> /\ names \in Seq(Names)
        /\ attempted' = attempted \cup {<<key, Head(names)>>}
        /\ files_' = files_ /\ key' = key /\ todo' = todo /\ ss' = ss /\ pc = "remove"
        /\ asked' = asked
    BY <1>10 DEF RemoveFile
  <2>2. ASSUME NEW j \in DOMAIN names' PROVE <<key', names'[j]>> \in AskedOrError'
    BY <2>1, TailElement DEF RemoveInv
  <2>3. ASSUME NEW j \in DOMAIN files_[key]
        PROVE  \/ <<key, files_[key][j]>> \in attempted'
               \/ \E l \in DOMAIN names' : names'[l] = files_[key][j]
    <3>1. CASE <<key, files_[key][j]>> \in attempted
      BY <2>1, <3>1
    <3>2. ASSUME NEW l \in DOMAIN names, names[l] = files_[key][j]
          PROVE  \/ <<key, files_[key][j]>> \in attempted'
                 \/ \E m \in DOMAIN names' : names'[m] = files_[key][j]
      <4>1. CASE l = 1
        BY <2>1, <3>2, <4>1, TailElement
      <4>2. CASE l # 1
        <5>1. l - 1 \in DOMAIN names' /\ names'[l - 1] = names[l]
          BY <2>1, <4>2, TailElement
        <5> QED
          BY <3>2, <5>1
      <4> QED
        BY <4>1, <4>2
    <3> QED
      BY <2>1, <3>1, <3>2 DEF RemoveInv
  <2>4. RemoveInv'
    BY <2>1, <2>2, <2>3 DEF RemoveInv
  <2> QED
    BY <1>10, <2>4 DEF RemoveFile, FilesAsAsked, InputAsAsked, SweepInv
<1>11. CASE EraseKey
  <2>1. /\ DOMAIN files_' = DOMAIN files_ \ {key}
        /\ \A t \in DOMAIN files_' : files_'[t] = files_[t]
    BY <1>11 DEF EraseKey
  <2>2. FilesAsAsked'
    BY <1>11, <2>1 DEF EraseKey, FilesAsAsked
  <2>3. SweepInv'
    BY <1>11, <2>1 DEF EraseKey, SweepInv
  <2> QED
    BY <1>11, <2>2, <2>3 DEF EraseKey, InputAsAsked, RemoveInv
<1>12. CASE ConsumerUnlock
  BY <1>12 DEF ConsumerUnlock, FilesAsAsked, InputAsAsked, SweepInv, RemoveInv
<1>13. ASSUME NEW t \in todo, SweepKeep(t) PROVE Rest'
  <2>1. SweepInv'
    BY <1>13 DEF SweepKeep, Expired, SweepInv
  <2> QED
    BY <1>13, <2>1 DEF SweepKeep, FilesAsAsked, InputAsAsked, RemoveInv
<1>14. ASSUME NEW t \in todo, SweepExpired(t) PROVE Rest'
  <2>1. t \in DOMAIN files_ /\ key' = t /\ names' = files_[t] /\ t <= ss
    BY <1>14 DEF SweepExpired, NamesUnder, Expired, SweepInv
  <2>2. RemoveInv'
    BY <1>14, <2>1 DEF SweepExpired, RemoveInv, FilesAsAsked
  <2> QED
    BY <1>14, <2>2 DEF SweepExpired, FilesAsAsked, InputAsAsked, SweepInv
<1>15. CASE UNCHANGED vars
  BY <1>15 DEF vars, FilesAsAsked, InputAsAsked, SweepInv, RemoveInv
<1> QED
  BY <1>1, <1>2, <1>3, <1>4, <1>5, <1>6, <1>7, <1>8, <1>9, <1>10, <1>11, <1>12,
     <1>13, <1>14, <1>15 DEF Next, Main, Consumer

LEMMA InvStep == ASSUME Inv, [Next]_vars PROVE Inv'
<1>1. TypeOK'
  BY TypeStep DEF Inv
<1> QED
  BY <1>1, RestStep DEF Inv, Rest

(* The inductive invariant: what is in the map, in the socket buffer and in   *)
(* the main thread's hands was asked for, and a sweep knows the map it works  *)
(* on because it has held the mutex since it read it.                         *)
THEOREM Invariance == Spec => []Inv
<1>1. Init => Inv
  BY InitInv
<1>2. Inv /\ [Next]_vars => Inv'
  BY InvStep
<1> QED
  BY <1>1, <1>2, PTL DEF Spec

(* Every variable of fttl keeps its type: the sweep never looks up a key     *)
(* that is not in the map.                                                   *)
THEOREM TypeCorrect == Spec => []TypeOK
<1>1. Inv => TypeOK
  BY DEF Inv
<1> QED
  BY <1>1, Invariance, PTL

(* Every path stands under a timestamp a client asked for. *)
THEOREM FilesStayAsAsked == Spec => []FilesAsAsked
<1>1. Inv => FilesAsAsked
  BY DEF Inv
<1> QED
  BY <1>1, Invariance, PTL

-----------------------------------------------------------------------------
(* No file is removed before a time some client gave for it. *)
THEOREM RemovesNoFileEarly == Spec => NoEarlyRemoval
<1> DEFINE Early == \A p \in disk \ disk' : \E t \in Stamps : t <= clock /\ <<t, p>> \in asked
<1>1. ASSUME Inv, [Next]_vars PROVE [Early]_vars
  <2> SUFFICES ASSUME NEW p \in disk, p \notin disk'
               PROVE  \E t \in Stamps : t <= clock /\ <<t, p>> \in asked
    OBVIOUS
  <2>1. RemoveFile
    BY <1>1 DEF Next, Main, Consumer, vars, envVars, Tock, Kill, Create, SendMessage, Run,
       Read, ReadError, InsertPair, ConsumerLock, EraseKey, ConsumerUnlock, SweepKeep,
       SweepExpired
  <2>2. p = Head(names) /\ pc = "remove" /\ names # <<>> /\ names \in Seq(Names)
    BY <1>1, <2>1 DEF RemoveFile, Inv, TypeOK
  <2>3. <<key, p>> \in AskedOrError
    BY <1>1, <2>2, TailElement DEF Inv, RemoveInv
  <2>4. p \in Paths /\ asked \subseteq Stamps \X Paths
    BY <1>1 DEF Inv, TypeOK
  <2>5. <<key, p>> \in asked /\ key \in Stamps
    BY <2>3, <2>4, ConstantsAssumption DEF AskedOrError
  <2>6. key <= clock
    BY <1>1, <2>2 DEF Inv, TypeOK, RemoveInv, SweepInv, Sweeping
  <2> QED
    BY <2>5, <2>6
<1> QED
  BY <1>1, Invariance, PTL DEF Spec, NoEarlyRemoval

(* A finished sweep leaves no key that was due. *)
THEOREM SweepIsComplete == Spec => SweepLeavesNoneDue
<1> DEFINE Complete == pc = "sweep" /\ pc' = "sleep" => \A t \in DOMAIN files_' : t > ss
<1>1. ASSUME Inv, [Next]_vars PROVE [Complete]_vars
  <2> SUFFICES ASSUME pc = "sweep", pc' = "sleep"
               PROVE  \A t \in DOMAIN files_' : t > ss
    OBVIOUS
  <2>1. ConsumerUnlock
    BY <1>1 DEF Next, Main, Consumer, vars, envVars, sweepVars, Tock, Kill, Create,
       SendMessage, Run, Read, ReadError, InsertPair, ConsumerLock, RemoveFile, EraseKey,
       SweepKeep, SweepExpired, Inv, SweepInv
  <2> QED
    BY <1>1, <2>1 DEF ConsumerUnlock, Inv, SweepInv, Sweeping
<1> QED
  BY <1>1, Invariance, PTL DEF Spec, SweepLeavesNoneDue

(* A registration is dropped only by a kill, or once it is due and remove()  *)
(* was called for every path under its timestamp.                            *)
THEOREM DropsNothingUntried == Spec => NoneDropped
<1> DEFINE Kept == \A t \in DOMAIN files_ \ DOMAIN files_' :
              \/ crashes' # crashes
              \/ t <= clock /\ \A i \in DOMAIN files_[t] : <<t, files_[t][i]>> \in attempted
<1>1. ASSUME Inv, [Next]_vars PROVE [Kept]_vars
  <2> SUFFICES ASSUME NEW t \in DOMAIN files_, t \notin DOMAIN files_', crashes' = crashes
               PROVE  t <= clock /\ \A i \in DOMAIN files_[t] : <<t, files_[t][i]>> \in attempted
    OBVIOUS
  <2>1. EraseKey
    <3>1. ~Kill
      BY <1>1 DEF Kill, Inv, TypeOK
    <3>2. ~InsertPair
      BY DEF InsertPair
    <3> QED
      BY <1>1, <3>1, <3>2 DEF Next, Main, Consumer, vars, envVars, Tock, Create, SendMessage,
         Run, Read, ReadError, ConsumerLock, RemoveFile, ConsumerUnlock, SweepKeep,
         SweepExpired
  <2>2. t = key /\ pc = "remove" /\ names = <<>>
    BY <2>1 DEF EraseKey
  <2>3. key <= clock
    BY <1>1, <2>2 DEF Inv, TypeOK, RemoveInv, SweepInv, Sweeping
  <2> QED
    BY <1>1, <2>2, <2>3 DEF Inv, RemoveInv
<1> QED
  BY <1>1, Invariance, PTL DEF Spec, NoneDropped
=============================================================================
