--------------------------- MODULE ConnectionProofs ---------------------------
(***************************************************************************)
(* Proofs about the connection table of a worker thread: that it           *)
(* implements ConnectionLifecycle, that its FIN and ACK flags agree, that  *)
(* a settled offset stays, and that a held ACK has passed its cookie.      *)
(*                                                                         *)
(* All of them rest on one lemma, TableStep, that says what a step of the  *)
(* thread may do to the table and which segment it treats when it does;    *)
(* its proof is the only one that walks through the branches.              *)
(***************************************************************************)
EXTENDS DefenseThreadProofs

------------------------------------------------------------------------------
(* Kinds of segments.                                                      *)

\* Each condition of the if-else chains selects its kind.
LEMMA Kinds ==
  ASSUME NEW f
  PROVE  /\ IsSynAck(f) => Kind(f) = "SYNACK"
         /\ IsSyn(f) => Kind(f) = "SYN"
         /\ IsRst(f) => Kind(f) = "RST"
         /\ IsFin(f) => Kind(f) = "FIN"
         /\ IsAck(f) => Kind(f) = "ACK"
         /\ Kind(f) \in {"SYNACK", "SYN", "RST", "FIN", "ACK", "OTHER"}
<1>1. /\ ~(IsSynAck(f) /\ (IsSyn(f) \/ IsRst(f) \/ IsFin(f) \/ IsAck(f)))
      /\ ~(IsSyn(f) /\ (IsRst(f) \/ IsFin(f) \/ IsAck(f)))
      /\ ~(IsRst(f) /\ (IsFin(f) \/ IsAck(f)))
      /\ ~(IsFin(f) /\ IsAck(f))
  BY DEF IsSynAck, IsSyn, IsRst, IsFin, IsAck
<1>2. QED
  BY <1>1 DEF Kind

\* The step treats a segment of this kind from this side of connection c.
Treated(side, kind, c) == TreatedSegment = [from |-> side, conn |-> c, kind |-> kind]

LEMMA TreatedInsideSegment ==
  ASSUME IInv, pc = "treat_in", Tcp(toInside)
  PROVE  Treated("outside", Kind(Flags(toInside)), Current(toInside).conn)
BY DEF Treated, TreatedSegment, SegmentOf

LEMMA TreatedOutsideSegment ==
  ASSUME IInv, pc = "treat_out", Tcp(toOutside)
  PROVE  Treated("inside", Kind(Flags(toOutside)), Current(toOutside).conn)
BY DEF Treated, TreatedSegment, SegmentOf

------------------------------------------------------------------------------
(* The cookie of the held ACK.                                             *)

\* Taking 1 away and adding it again is the identity modulo SeqMod.
LEMMA AddAfterSub ==
  ASSUME NEW a \in Seqs
  PROVE  SeqAdd(SeqSub(a, 1), 1) = a
<1>1. SeqMod \in Nat \ {0} /\ a \in 0 .. SeqMod - 1
  BY SeqArithmetic DEF Seqs
<1>2. ASSUME NEW x \in 0 .. SeqMod - 1 PROVE x % SeqMod = x
  BY <1>1
<1>3. CASE a = 0
  <2>1. (0 - 1) % SeqMod = SeqMod - 1
    BY <1>1
  <2>2. SeqMod % SeqMod = 0
    BY <1>1
  <2>3. QED
    BY <1>1, <1>3, <2>1, <2>2 DEF SeqAdd, SeqSub
<1>4. CASE a # 0
  BY <1>1, <1>2, <1>4 DEF SeqAdd, SeqSub
<1>5. QED
  BY <1>3, <1>4

\* An ACK whose cookie the treatment accepts acknowledges such a cookie.
LEMMA AcceptedCookie ==
  ASSUME NEW a \in Seqs, NEW c \in Conns, NEW t \in Ts,
         check_syn_cookie(SeqSub(a, 1), c, t)
  PROVE  \E u \in Ts : a = SeqAdd(Cookie(c, u), 1)
<1>1. \E u \in Ts : SeqSub(a, 1) = Cookie(c, u)
  BY TsArithmetic DEF check_syn_cookie, TornCheck, Cookie
<1>2. QED
  BY <1>1, AddAfterSub

PassedCookie(p, c) ==
  /\ p # Opaque
  /\ p.conn = c
  /\ IsAck(p.flags)
  /\ \E t \in Ts : p.ack = SeqAdd(Cookie(c, t), 1)

------------------------------------------------------------------------------
(* What a step may do to the table.                                        *)

MakesPending(c) ==
  /\ Treated("outside", "ACK", c)
  /\ ~HasEntry(c)
  /\ \E m \in Mbufs :
       PassedCookie(buf'[m], c) /\ table' = [table EXCEPT ![c] = NewInfo(m)]

MakesLocal(c) ==
  /\ Treated("outside", "SYNACK", c) \/ Treated("inside", "ACK", c)
  /\ table' = Insert(c, NewInfo(Null))

Erases(c) ==
  /\ \E side \in {"inside", "outside"} :
       \/ Treated(side, "RST", c)
       \/ /\ Treated(side, "ACK", c) /\ HasEntry(c)
          /\ table[c].finseen_to_inside /\ table[c].finseen_to_outside
  /\ table' = Erase(c)

SeesFin(c) ==
  /\ HasEntry(c)
  /\ \/ /\ Treated("outside", "FIN", c)
        /\ \/ /\ table[c].finseen_to_outside
              /\ table' = [table EXCEPT ![c] = FinAnsweredInside(@)]
           \/ /\ ~table[c].finseen_to_outside
              /\ table' = [table EXCEPT ![c] = [@ EXCEPT !.finseen_to_inside = TRUE]]
     \/ /\ Treated("inside", "FIN", c)
        /\ \/ /\ table[c].finseen_to_inside
              /\ table' = [table EXCEPT ![c] = FinAnsweredOutside(@)]
           \/ /\ ~table[c].finseen_to_inside
              /\ table' = [table EXCEPT ![c] = [@ EXCEPT !.finseen_to_outside = TRUE]]

Queues(c) ==
  /\ HasEntry(c) /\ Held(c) # <<>>
  /\ \E m \in Mbufs : table' = [table EXCEPT ![c] = Queued(@, m)]

Opens(c) ==
  /\ Treated("inside", "SYNACK", c)
  /\ HasEntry(c) /\ Held(c) # <<>> /\ Held(c)[1] # Null
  /\ \E off \in Seqs : table' = [table EXCEPT ![c] = Released(@, off)]

ChangesEntry(c) ==
  MakesPending(c) \/ MakesLocal(c) \/ Erases(c) \/ SeesFin(c) \/ Queues(c) \/ Opens(c)

\* The offset that a release computes is a sequence number.
LEMMA ReleasedOffset ==
  ASSUME IInv, pc = "treat_out", OutSynAckRelease, NEW c \in Conns,
         c = Current(toOutside).conn
  PROVE  SeqSub(SeqSub(buf[Held(c)[1]].ack, Current(toOutside).seq), 1) \in Seqs
<1>1. /\ HasEntry(c) /\ Held(c) # <<>> /\ Held(c)[1] # Null /\ Tcp(toOutside)
  BY DEF OutSynAckRelease, Entry, Held, Known
<1>2. Current(toOutside).seq \in Int
  BY <1>1, TcpOutside, PacketFields, SeqArithmetic
<1>3. 1 \in 1 .. Len(Held(c))
  <2>1. Held(c) \in Seq(Mbufs \cup {Null})
    BY <1>1, HeldTypes DEF IInv
  <2>2. QED
    BY <1>1, <2>1
<1>4. buf[Held(c)[1]].ack \in Int
  BY <1>1, <1>3, PacketFields, SeqArithmetic DEF IInv, HeldAreTcp
<1>5. QED
  <2>1. SeqSub(buf[Held(c)[1]].ack, Current(toOutside).seq) \in Int
    BY <1>2, <1>4, SeqArithmetic
  <2>2. QED
    BY <2>1, SeqArithmetic

LEMMA TableStepInside ==
  ASSUME IInv, TreatInside
  PROVE  table' = table \/ \E c \in Conns : ChangesEntry(c)
<1>1. pc = "treat_in" /\ TreatToInside
  BY DEF TreatInside
<1>2. CASE ~Tcp(toInside)
  BY <1>1, <1>2 DEF TreatToInside, InSynAck, InSyn, InRst, InFinUnknown, InFinAnswer,
    InFinFirst, InFinRepeated, InAckLegit, InAckRefused, InAckLast, InAckEarly,
    InAckRegular, InUntreated, Untreated, InOutOfBuffers
<1>3. CASE Tcp(toInside)
  <2>1. PICK c \in Conns, s \in Mbufs : c = Current(toInside).conn /\ s = Slot(toInside)
    BY <1>1, <1>3, TcpInside, InsideContext DEF Tcp
  <2>2. Treated("outside", Kind(Flags(toInside)), c)
    BY <1>1, <1>3, <2>1, TreatedInsideSegment
  <2>3. Known(toInside) <=> HasEntry(c)
    BY <2>1 DEF Known
  <2>4. Entry(toInside) = table[c]
    BY <2>1 DEF Entry
  <2>5. CASE InSynAck
    BY <2>1, <2>2, <2>5, Kinds DEF InSynAck, ChangesEntry, MakesLocal
  <2>6. CASE InRst
    BY <2>1, <2>2, <2>6, Kinds DEF InRst, ChangesEntry, Erases
  <2>7. CASE InFinAnswer
    BY <2>1, <2>2, <2>3, <2>4, <2>7, Kinds DEF InFinAnswer, ChangesEntry, SeesFin
  <2>8. CASE InFinFirst
    BY <2>1, <2>2, <2>3, <2>4, <2>8, Kinds DEF InFinFirst, ChangesEntry, SeesFin
  <2>9. CASE InAckLegit
    <3>1. table' = Insert(c, NewInfo(s)) /\ ~HasEntry(c)
      BY <2>1, <2>3, <2>9 DEF InAckLegit
    <3>2. table' = [table EXCEPT ![c] = NewInfo(s)]
      BY <3>1 DEF Insert
    <3>3. PassedCookie(buf'[s], c)
      <4>1. buf'[s] = Current(toInside)
        BY <1>1, <1>3, <2>1, <2>9, InsideContext DEF InAckLegit, Tcp, Current, IInv, TypeOK
      <4>2. Current(toInside) \in Packet /\ ts \in Ts
        BY <1>1, <1>3, TcpInside DEF IInv, TypeOK
      <4>3. IsAck(Current(toInside).flags)
            /\ check_syn_cookie(SeqSub(Current(toInside).ack, 1), c, ts)
        BY <2>1, <2>9 DEF InAckLegit, Flags, CookieReturned
      <4>4. \E t \in Ts : Current(toInside).ack = SeqAdd(Cookie(c, t), 1)
        BY <4>2, <4>3, PacketFields, AcceptedCookie
      <4>5. QED
        BY <2>1, <4>1, <4>2, <4>3, <4>4, PacketFields DEF PassedCookie
    <3>4. QED
      BY <2>2, <2>9, <3>1, <3>2, <3>3, Kinds DEF InAckLegit, ChangesEntry, MakesPending
  <2>10. CASE InAckLast
    BY <2>1, <2>2, <2>3, <2>4, <2>10, Kinds
      DEF InAckLast, ChangesEntry, Erases, AckEndsConnection
  <2>11. CASE InAckEarly
    BY <2>1, <2>3, <2>4, <2>11 DEF InAckEarly, ChangesEntry, Queues, Held
  <2>12. CASE InSyn \/ InFinUnknown \/ InFinRepeated \/ InAckRefused \/ InAckRegular
              \/ InUntreated \/ InOutOfBuffers
    BY <2>12 DEF InSyn, InFinUnknown, InFinRepeated, InAckRefused, InAckRegular,
      InUntreated, Untreated, InOutOfBuffers, Crash
  <2>13. QED
    BY <1>1, <2>5, <2>6, <2>7, <2>8, <2>9, <2>10, <2>11, <2>12 DEF TreatToInside
<1>4. QED
  BY <1>2, <1>3

LEMMA TableStepOutside ==
  ASSUME IInv, TreatOutside
  PROVE  table' = table \/ \E c \in Conns : ChangesEntry(c)
<1>1. pc = "treat_out" /\ TreatToOutside
  BY DEF TreatOutside
<1>2. CASE ~Tcp(toOutside)
  BY <1>1, <1>2 DEF TreatToOutside, OutSynAckUnknown, OutSynAckRelease,
    OutSynAckNullHeld, OutSynAckRepeated, OutSyn, OutRstUnknown, OutRst, OutFinUnknown,
    OutFinAnswer, OutFinFirst, OutFinRepeated, OutAckNew, OutAckLast, OutAckRegular,
    OutUntreated, Untreated
<1>3. CASE Tcp(toOutside)
  <2>1. PICK c \in Conns : c = Current(toOutside).conn
    BY <1>1, <1>3, TcpOutside
  <2>2. Treated("inside", Kind(Flags(toOutside)), c)
    BY <1>1, <1>3, <2>1, TreatedOutsideSegment
  <2>3. Known(toOutside) <=> HasEntry(c)
    BY <2>1 DEF Known
  <2>4. Entry(toOutside) = table[c]
    BY <2>1 DEF Entry
  <2>5. CASE OutSynAckRelease
    <3>1. PICK off \in Seqs :
            off = SeqSub(SeqSub(buf[Held(c)[1]].ack, Current(toOutside).seq), 1)
      BY <1>1, <2>1, <2>5, ReleasedOffset
    <3>2. table' = [table EXCEPT ![c] = Released(@, off)]
      BY <2>1, <2>4, <2>5, <3>1 DEF OutSynAckRelease, Held
    <3>3. HasEntry(c) /\ Held(c) # <<>> /\ Held(c)[1] # Null
      BY <2>3, <2>4, <2>5 DEF OutSynAckRelease, Held
    <3>4. Treated("inside", "SYNACK", c)
      BY <2>2, <2>5, Kinds DEF OutSynAckRelease
    <3>5. Opens(c)
      BY <3>2, <3>3, <3>4 DEF Opens
    <3>6. QED
      BY <3>5 DEF ChangesEntry
  <2>6. CASE OutRst
    BY <2>1, <2>2, <2>6, Kinds DEF OutRst, ChangesEntry, Erases
  <2>7. CASE OutFinAnswer
    BY <2>1, <2>2, <2>3, <2>4, <2>7, Kinds DEF OutFinAnswer, ChangesEntry, SeesFin
  <2>8. CASE OutFinFirst
    BY <2>1, <2>2, <2>3, <2>4, <2>8, Kinds DEF OutFinFirst, ChangesEntry, SeesFin
  <2>9. CASE OutAckNew
    BY <2>1, <2>2, <2>9, Kinds DEF OutAckNew, ChangesEntry, MakesLocal
  <2>10. CASE OutAckLast
    BY <2>1, <2>2, <2>3, <2>4, <2>10, Kinds
      DEF OutAckLast, ChangesEntry, Erases, AckFromInsideEndsConnection
  <2>11. CASE OutSynAckUnknown \/ OutSynAckNullHeld \/ OutSynAckRepeated \/ OutSyn
              \/ OutRstUnknown \/ OutFinUnknown \/ OutFinRepeated \/ OutAckRegular
              \/ OutUntreated
    BY <2>11 DEF OutSynAckUnknown, OutSynAckNullHeld, OutSynAckRepeated, OutSyn,
      OutRstUnknown, OutFinUnknown, OutFinRepeated, OutAckRegular, OutUntreated,
      Untreated, Crash
  <2>12. QED
    BY <1>1, <2>5, <2>6, <2>7, <2>8, <2>9, <2>10, <2>11 DEF TreatToOutside
<1>4. QED
  BY <1>2, <1>3

LEMMA TableStep ==
  ASSUME IInv, [Next]_vars
  PROVE  table' = table \/ \E c \in Conns : ChangesEntry(c)
<1>1. CASE TreatInside
  BY <1>1, TableStepInside
<1>2. CASE TreatOutside
  BY <1>2, TableStepOutside
<1>3. CASE ~TreatInside /\ ~TreatOutside
  BY <1>3 DEF Next, vars, treatVars, PollToInside, ReceiveFromOutside, ReceiveOutside,
    BurstFromOutside,
    TreatedInside, SendAfterInside, PollToOutside, ReceiveFromInside, ReceiveInside,
    BurstFromInside,
    TreatedOutside, SendAfterOutside, SendBoth, Tick, s_increment_timestamp, Gone
<1>4. QED
  BY <1>1, <1>2, <1>3

------------------------------------------------------------------------------
(* The flags of the teardown.                                              *)

FlagsAgree(e) ==
  (e.finseen_to_inside /\ e.finseen_to_outside)
    <=> (e.ack_to_inside_expected \/ e.ack_to_outside_expected)

\* Every update of an entry keeps its flags in agreement.
LEMMA FlagUpdates ==
  ASSUME NEW e \in Info, FlagsAgree(e)
  PROVE  /\ \A m : FlagsAgree(NewInfo(m))
         /\ e.finseen_to_outside => FlagsAgree(FinAnsweredInside(e))
         /\ e.finseen_to_inside => FlagsAgree(FinAnsweredOutside(e))
         /\ ~e.finseen_to_outside => FlagsAgree([e EXCEPT !.finseen_to_inside = TRUE])
         /\ ~e.finseen_to_inside => FlagsAgree([e EXCEPT !.finseen_to_outside = TRUE])
         /\ \A m : FlagsAgree(Queued(e, m))
         /\ \A n : FlagsAgree(Released(e, n))
BY DEF Info, FlagsAgree, NewInfo, FinAnsweredInside, FinAnsweredOutside, Queued, Released

(***************************************************************************)
(* Both FINs of a connection have been seen exactly when an ACK that ends  *)
(* it is expected, after every sequence of FINs, ACKs and RSTs.            *)
(***************************************************************************)
THEOREM TeardownHolds == Spec => []TeardownConsistent
<1>1. Init => TeardownConsistent
  BY DEF Init, TreatmentInit, TeardownConsistent, HasEntry
<1>2. IInv /\ TeardownConsistent /\ [Next]_vars => TeardownConsistent'
  <2> SUFFICES ASSUME IInv, TeardownConsistent, [Next]_vars,
                      NEW d \in Conns, HasEntry(d)'
               PROVE  FlagsAgree(table'[d])
    BY DEF TeardownConsistent, FlagsAgree
  <2>1. table \in [Conns -> Info \cup {NoEntry}]
    BY DEF IInv, TypeOK
  <2>2. HasEntry(d) => table[d] \in Info /\ FlagsAgree(table[d])
    BY <2>1 DEF TeardownConsistent, FlagsAgree, HasEntry
  <2>3. \A m : FlagsAgree(NewInfo(m))
    BY DEF FlagsAgree, NewInfo
  <2>4. CASE table' = table
    BY <2>2, <2>4 DEF HasEntry
  <2>5. ASSUME NEW c \in Conns, ChangesEntry(c)
        PROVE  FlagsAgree(table'[d])
    <3>1. CASE d # c
      <4>1. table'[d] = table[d]
        BY <2>1, <2>5, <3>1 DEF ChangesEntry, MakesPending, MakesLocal, Insert, Erases,
          Erase, SeesFin, Queues, Opens
      <4>2. QED
        BY <2>2, <4>1 DEF HasEntry
    <3>2. CASE d = c
      <4>1. CASE MakesPending(c) \/ MakesLocal(c)
        BY <2>1, <2>2, <2>3, <3>2, <4>1
          DEF MakesPending, MakesLocal, Insert
      <4>2. CASE Erases(c)
        BY <2>1, <3>2, <4>2 DEF Erases, Erase, HasEntry
      <4>3. CASE SeesFin(c)
        BY <2>1, <2>2, <3>2, <4>3, FlagUpdates DEF SeesFin
      <4>4. CASE Queues(c) \/ Opens(c)
        <5>1. HasEntry(d) /\ table[d] \in Info /\ FlagsAgree(table[d])
          BY <2>2, <3>2, <4>4 DEF Queues, Opens
        <5>2. \/ \E m \in Mbufs : table'[d] = Queued(table[d], m)
              \/ \E n \in Seqs : table'[d] = Released(table[d], n)
          BY <2>1, <3>2, <4>4 DEF Queues, Opens
        <5>3. QED
          BY <5>1, <5>2, FlagUpdates
      <4>5. QED
        BY <2>5, <4>1, <4>2, <4>3, <4>4 DEF ChangesEntry
    <3>3. QED
      BY <3>1, <3>2
  <2>6. QED
    BY <2>4, <2>5, TableStep
<1>3. QED
  BY <1>1, <1>2, InvariantHolds, PTL DEF Spec

------------------------------------------------------------------------------
(***************************************************************************)
(* Once the held packets of a connection are released, its offset stays    *)
(* and nothing is queued for it, until the entry is erased.                *)
(***************************************************************************)
THEOREM OffsetSettledHolds == Spec => OffsetSettled
<1>1. ASSUME IInv, [Next]_vars, NEW d \in Conns,
             HasEntry(d), Held(d) = <<>>, HasEntry(d)'
      PROVE  Held(d)' = <<>> /\ table'[d].offset = table[d].offset
  <2>1. table \in [Conns -> Info \cup {NoEntry}] /\ table[d] \in Info
    BY <1>1 DEF IInv, TypeOK, HasEntry
  <2>2. CASE table' = table
    BY <1>1, <2>2 DEF Held
  <2>3. ASSUME NEW c \in Conns, ChangesEntry(c)
        PROVE  Held(d)' = <<>> /\ table'[d].offset = table[d].offset
    <3>1. CASE d # c \/ MakesPending(c) \/ MakesLocal(c)
      <4>1. table'[d] = table[d]
        BY <1>1, <2>1, <2>3, <3>1 DEF ChangesEntry, MakesPending, MakesLocal, Insert,
          Erases, Erase, SeesFin, Queues, Opens
      <4>2. QED
        BY <1>1, <4>1 DEF Held
    <3>2. CASE d = c /\ Erases(c)
      BY <1>1, <2>1, <3>2 DEF Erases, Erase, HasEntry
    <3>3. CASE d = c /\ SeesFin(c)
      <4>1. table'[d] \in {FinAnsweredInside(table[d]), FinAnsweredOutside(table[d]),
                          [table[d] EXCEPT !.finseen_to_inside = TRUE],
                          [table[d] EXCEPT !.finseen_to_outside = TRUE]}
        BY <2>1, <3>3 DEF SeesFin
      <4>2. QED
        BY <1>1, <2>1, <4>1 DEF Held, Info, FinAnsweredInside, FinAnsweredOutside
    <3>4. CASE d = c /\ (Queues(c) \/ Opens(c))
      BY <1>1, <3>4 DEF Queues, Opens
    <3>5. QED
      BY <2>3, <3>1, <3>2, <3>3, <3>4 DEF ChangesEntry
  <2>4. QED
    BY <1>1, <2>2, <2>3, TableStep
<1>2. IInv /\ [Next]_vars =>
        [\A c \in Conns :
           HasEntry(c) /\ Held(c) = <<>> /\ HasEntry(c)' =>
             Held(c)' = <<>> /\ table'[c].offset = table[c].offset]_vars
  BY <1>1
<1>3. QED
  BY <1>2, InvariantHolds, PTL DEF Spec, OffsetSettled

------------------------------------------------------------------------------
(* The held ACK keeps the cookie it returned.                              *)

\* A buffer that is held is overwritten only by the release of its list.
LEMMA HeldContentKept ==
  ASSUME IInv, [Next]_vars, NEW d \in Conns, HasEntry(d), HasEntry(d)',
         NEW i \in 1 .. Len(Held(d)), Held(d)[i] \in Mbufs,
         Held(d)' # <<>>
  PROVE  buf'[Held(d)[i]] = buf[Held(d)[i]]
<1> DEFINE h == Held(d)[i]
<1>1. /\ TypeOK /\ h \in Mbufs /\ h \notin Loose
      /\ h \notin pool /\ h \notin Buffers(toInside) /\ h \notin Buffers(toOutside)
  BY DEF IInv, BufferOwnership, HeldNowhereElse, Loose
<1>2. buf \in [Mbufs -> Packet \cup {Opaque}]
  BY <1>1 DEF TypeOK
<1>3. CASE TreatInside
  <2>1. pc = "treat_in" /\ TreatToInside
    BY <1>3 DEF TreatInside
  <2>2. Pending(toInside) => Slot(toInside) # h
    BY <1>1, <2>1, InsideContext
  <2>3. QED
    BY <1>1, <1>2, <2>1, <2>2 DEF TreatToInside, InSynAck, InSyn, InRst, InFinUnknown,
      InFinAnswer, InFinFirst, InFinRepeated, InAckLegit, InAckRefused, InAckLast,
      InAckEarly, InAckRegular, InUntreated, Untreated, InOutOfBuffers, Crash, Tcp,
      LeaveInPlace, RewriteAck, Rewrite, DropInside
<1>4. CASE TreatOutside
  <2>1. pc = "treat_out" /\ TreatToOutside
    BY <1>4 DEF TreatOutside
  <2>2. Pending(toOutside) => Slot(toOutside) # h
    BY <1>1, <2>1, OutsideContext
  <2>3. CASE OutSynAckRelease
    <3>1. PICK c \in Conns : c = Current(toOutside).conn
      BY <2>1, <2>3, TcpOutside DEF OutSynAckRelease
    <3>2. HasEntry(c) /\ Held(c) # <<>> /\ Held(c)[1] # Null /\ Entry(toOutside) = table[c]
      BY <2>3, <3>1 DEF OutSynAckRelease, Entry, Held, Known
    <3>3. d # c
      <4>1. PICK off : table' = [table EXCEPT ![c] = Released(@, off)]
        BY <2>3, <3>1 DEF OutSynAckRelease
      <4>2. Held(c)' = <<>>
        BY <1>1, <3>2, <4>1 DEF TypeOK, Held, HasEntry, Info, Released
      <4>3. QED
        BY <4>2
    <3>4. \A k \in 1 .. Len(Held(c)) : Held(c)[k] # h
      BY <1>1, <3>2, <3>3, NullAssumption DEF IInv, BufferOwnership, HeldOnce
    <3>5. /\ Len(Held(c)) \in Nat
          /\ 1 \in 1 .. Len(Held(c))
          /\ \A k \in 2 .. Len(Held(c)) : k \in 1 .. Len(Held(c))
      BY <1>1, <3>2, HeldTypes
    <3>6. h # Held(c)[1] /\ h \notin {Held(c)[k] : k \in 2 .. Len(Held(c))}
      BY <3>4, <3>5
    <3>7. Entry(toOutside).pkt_inf_list = Held(c)
      BY <3>2 DEF Held
    <3> HIDE DEF h
    <3>8. buf'[h] = buf[h]
      BY <1>1, <2>3, <3>6, <3>7 DEF OutSynAckRelease
    <3>9. QED
      BY <3>8 DEF h
  <2>4. CASE ~OutSynAckRelease
    BY <1>1, <1>2, <2>1, <2>2, <2>4 DEF TreatToOutside, OutSynAckUnknown,
      OutSynAckNullHeld, OutSynAckRepeated, OutSyn, OutRstUnknown, OutRst, OutFinUnknown,
      OutFinAnswer, OutFinFirst, OutFinRepeated, OutAckNew, OutAckLast, OutAckRegular,
      OutUntreated, Untreated, Crash, Tcp, LeaveInPlace, RewriteSeq, Rewrite, DropOutside
  <2>5. QED
    BY <2>3, <2>4
<1>5. CASE ~TreatInside /\ ~TreatOutside
  BY <1>1, <1>2, <1>5 DEF Next, vars, treatVars, PollToInside, ReceiveFromOutside, ReceiveOutside,
    BurstFromOutside, TreatedInside, SendAfterInside, PollToOutside, ReceiveFromInside, ReceiveInside,
    BurstFromInside, TreatedOutside, SendAfterOutside, SendBoth, Tick,
    s_increment_timestamp, Gone
<1>6. QED
  BY <1>3, <1>4, <1>5

(***************************************************************************)
(* The first packet held for a connection is an ACK of that connection     *)
(* whose cookie check_syn_cookie accepted, and it is not overwritten until *)
(* the SYN-ACK of the internal host releases it.                           *)
(***************************************************************************)
THEOREM HeldPassedCookieHolds == Spec => []HeldPassedCookie
<1>1. Init => HeldPassedCookie
  BY DEF Init, TreatmentInit, HeldPassedCookie, HasEntry
<1>2. IInv /\ HeldPassedCookie /\ [Next]_vars => HeldPassedCookie'
  <2> SUFFICES ASSUME IInv, HeldPassedCookie, [Next]_vars, NEW d \in Conns,
                      HasEntry(d)', Held(d)' # <<>>, Held(d)'[1] # Null
               PROVE  PassedCookie(buf'[Held(d)'[1]], d)
    BY DEF HeldPassedCookie, PassedCookie
  <2>1. table \in [Conns -> Info \cup {NoEntry}] /\ TypeOK
    BY DEF IInv, TypeOK
  <2>2. ASSUME HasEntry(d), Held(d) # <<>>, Held(d)'[1] = Held(d)[1]
        PROVE  PassedCookie(buf'[Held(d)'[1]], d)
    <3>1. 1 \in 1 .. Len(Held(d)) /\ Held(d)[1] \in Mbufs
      <4>1. Held(d) \in Seq(Mbufs \cup {Null})
        BY <2>1, <2>2, HeldTypes
      <4>2. QED
        BY <2>2, <4>1
    <3>2. buf'[Held(d)[1]] = buf[Held(d)[1]]
      BY <2>2, <3>1, HeldContentKept
    <3>3. PassedCookie(buf[Held(d)[1]], d)
      BY <2>2 DEF HeldPassedCookie, PassedCookie
    <3>4. QED
      BY <2>2, <3>2, <3>3
  <2>3. CASE table' = table
    BY <2>2, <2>3 DEF HasEntry, Held
  <2>4. ASSUME NEW c \in Conns, ChangesEntry(c)
        PROVE  PassedCookie(buf'[Held(d)'[1]], d)
    <3>1. CASE table'[d] = table[d]
      BY <2>2, <3>1 DEF HasEntry, Held
    <3>2. CASE d # c
      BY <2>1, <2>4, <3>1, <3>2 DEF ChangesEntry, MakesPending, MakesLocal, Insert,
        Erases, Erase, SeesFin, Queues, Opens
    <3>3. CASE d = c /\ MakesPending(c)
      <4>1. PICK m \in Mbufs :
              PassedCookie(buf'[m], c) /\ table' = [table EXCEPT ![c] = NewInfo(m)]
        BY <3>3 DEF MakesPending
      <4>2. Held(d)'[1] = m
        BY <2>1, <3>3, <4>1, NewInfoIsInfo DEF Held
      <4>3. QED
        BY <3>3, <4>1, <4>2
    <3>4. CASE d = c /\ MakesLocal(c)
      <4>1. CASE HasEntry(c)
        BY <2>1, <3>1, <3>4, <4>1 DEF MakesLocal, Insert
      <4>2. CASE ~HasEntry(c)
        <5>1. Held(d)' = <<Null>>
          BY <2>1, <3>4, <4>2, NewInfoIsInfo DEF MakesLocal, Insert, Held
        <5>2. QED
          BY <5>1
      <4>3. QED
        BY <4>1, <4>2
    <3>5. CASE d = c /\ Erases(c)
      BY <2>1, <3>5 DEF Erases, Erase, HasEntry
    <3>6. CASE d = c /\ SeesFin(c)
      <4>1. table[d] \in Info /\ HasEntry(d)
        BY <2>1, <3>6 DEF SeesFin, HasEntry
      <4>2. table'[d] \in {FinAnsweredInside(table[d]), FinAnsweredOutside(table[d]),
                          [table[d] EXCEPT !.finseen_to_inside = TRUE],
                          [table[d] EXCEPT !.finseen_to_outside = TRUE]}
        BY <2>1, <3>6 DEF SeesFin
      <4>3. Held(d)' = Held(d)
        BY <4>1, <4>2, InfoUpdates DEF Held
      <4>4. QED
        BY <2>2, <4>1, <4>3
    <3>7. CASE d = c /\ Queues(c)
      <4>1. HasEntry(d) /\ Held(d) # <<>> /\ table[d] \in Info
        BY <2>1, <3>7 DEF Queues, HasEntry
      <4>2. PICK m \in Mbufs : table'[d] = Queued(table[d], m)
        BY <2>1, <3>7 DEF Queues
      <4>3. Held(d)' = Append(Held(d), m) /\ Held(d) \in Seq(Mbufs \cup {Null})
        <5>1. /\ Queued(table[d], m).pkt_inf_list = Append(table[d].pkt_inf_list, m)
              /\ table[d].pkt_inf_list \in Seq(Mbufs \cup {Null})
          BY <4>1, InfoUpdates
        <5>2. QED
          BY <4>2, <5>1 DEF Held
      <4>4. Held(d)'[1] = Held(d)[1]
        BY <4>1, <4>3
      <4>5. QED
        BY <2>2, <4>1, <4>4
    <3>8. CASE d = c /\ Opens(c)
      <4>1. PICK n \in Seqs : table'[d] = Released(table[d], n)
        BY <2>1, <3>8 DEF Opens
      <4>2. Held(d)' = <<>>
        <5>1. table[d] \in Info
          BY <2>1, <3>8 DEF Opens, HasEntry
        <5>2. Released(table[d], n).pkt_inf_list = <<>>
          BY <5>1, InfoUpdates
        <5>3. QED
          BY <4>1, <5>2 DEF Held
      <4>3. QED
        BY <4>2
    <3>9. QED
      BY <2>4, <3>2, <3>3, <3>4, <3>5, <3>6, <3>7, <3>8 DEF ChangesEntry
  <2>5. QED
    BY <2>3, <2>4, TableStep
<1>3. QED
  BY <1>1, <1>2, InvariantHolds, PTL DEF Spec

------------------------------------------------------------------------------
(* The connection table implements ConnectionLifecycle.                    *)

\* The phase and the FINs of an entry, case by case.
LEMMA PhaseFacts ==
  /\ PhaseOf(NoEntry) = "none" /\ FinsOf(NoEntry) = {}
  /\ \A m \in Mbufs : PhaseOf(NewInfo(m)) = "pending" /\ FinsOf(NewInfo(m)) = {}
  /\ PhaseOf(NewInfo(Null)) = "local" /\ FinsOf(NewInfo(Null)) = {}
<1>1. NewInfo(Null) # NoEntry /\ \A m \in Mbufs : NewInfo(m) # NoEntry
  BY NewInfoIsInfo, NoEntryAssumption
<1>2. QED
  BY <1>1, NullAssumption DEF PhaseOf, FinsOf, NewInfo

\* Entries with the same FIN flags have the same FINs, and with lists that
\* agree on being empty and on their first element the same phase.
LEMMA SameFins ==
  ASSUME NEW e \in Info, NEW f \in Info,
         f.finseen_to_inside = e.finseen_to_inside,
         f.finseen_to_outside = e.finseen_to_outside
  PROVE  FinsOf(f) = FinsOf(e)
BY NoEntryAssumption DEF FinsOf

LEMMA SamePhase ==
  ASSUME NEW e \in Info, NEW f \in Info,
         e.pkt_inf_list # <<>>, f.pkt_inf_list # <<>>,
         f.pkt_inf_list[1] = e.pkt_inf_list[1]
  PROVE  PhaseOf(f) = PhaseOf(e)
BY NoEntryAssumption DEF PhaseOf

LEMMA EntryPhase ==
  ASSUME NEW e \in Info
  PROVE  /\ e.pkt_inf_list = <<>> => PhaseOf(e) = "open"
         /\ e.pkt_inf_list # <<>> /\ e.pkt_inf_list[1] = Null => PhaseOf(e) = "local"
         /\ e.pkt_inf_list # <<>> /\ e.pkt_inf_list[1] # Null => PhaseOf(e) = "pending"
         /\ PhaseOf(e) # "none"
         /\ FinsOf(e) \subseteq {"inside", "outside"}
         /\ "outside" \in FinsOf(e) <=> e.finseen_to_inside
         /\ "inside" \in FinsOf(e) <=> e.finseen_to_outside
BY NoEntryAssumption DEF PhaseOf, FinsOf

\* Queueing changes neither the phase nor the FINs.
LEMMA PhaseUpdates ==
  ASSUME NEW e \in Info, NEW m \in Mbufs, e.pkt_inf_list # <<>>
  PROVE  PhaseOf(Queued(e, m)) = PhaseOf(e) /\ FinsOf(Queued(e, m)) = FinsOf(e)
<1>1. e.pkt_inf_list \in Seq(Mbufs \cup {Null})
  BY InfoUpdates
<1>2. Append(e.pkt_inf_list, m) # <<>> /\ Append(e.pkt_inf_list, m)[1] = e.pkt_inf_list[1]
  BY <1>1
<1>3. Queued(e, m) \in Info /\ Queued(e, m).pkt_inf_list = Append(e.pkt_inf_list, m)
  BY InfoUpdates
<1>4. /\ Queued(e, m).finseen_to_inside = e.finseen_to_inside
      /\ Queued(e, m).finseen_to_outside = e.finseen_to_outside
  BY DEF Info, Queued
<1>5. QED
  BY <1>2, <1>3, <1>4, SamePhase, SameFins

\* A release opens the connection and keeps its FINs.
LEMMA ReleaseOpens ==
  ASSUME NEW e \in Info, NEW n \in Seqs
  PROVE  PhaseOf(Released(e, n)) = "open" /\ FinsOf(Released(e, n)) = FinsOf(e)
<1>1. /\ Released(e, n).finseen_to_inside = e.finseen_to_inside
      /\ Released(e, n).finseen_to_outside = e.finseen_to_outside
  BY DEF Info, Released
<1>2. Released(e, n) \in Info /\ Released(e, n).pkt_inf_list = <<>>
  BY InfoUpdates
<1>3. FinsOf(Released(e, n)) = FinsOf(e)
  BY <1>1, <1>2, SameFins
<1>4. QED
  BY <1>2, <1>3, EntryPhase

\* A FIN keeps the phase and adds its side.
LEMMA FinUpdates ==
  ASSUME NEW e \in Info
  PROVE  /\ \A f \in {FinAnsweredInside(e), [e EXCEPT !.finseen_to_inside = TRUE]} :
              PhaseOf(f) = PhaseOf(e) /\ FinsOf(f) = FinsOf(e) \cup {"outside"}
         /\ \A f \in {FinAnsweredOutside(e), [e EXCEPT !.finseen_to_outside = TRUE]} :
              PhaseOf(f) = PhaseOf(e) /\ FinsOf(f) = FinsOf(e) \cup {"inside"}
<1>1. ASSUME NEW f \in {FinAnsweredInside(e), [e EXCEPT !.finseen_to_inside = TRUE]}
      PROVE  PhaseOf(f) = PhaseOf(e) /\ FinsOf(f) = FinsOf(e) \cup {"outside"}
  <2>1. /\ f.finseen_to_inside = TRUE
        /\ f.finseen_to_outside = e.finseen_to_outside
        /\ f.pkt_inf_list = e.pkt_inf_list /\ f \in Info
    <3>1. CASE f = FinAnsweredInside(e)
      BY <3>1, InfoUpdates DEF Info, FinAnsweredInside
    <3>2. CASE f = [e EXCEPT !.finseen_to_inside = TRUE]
      BY <3>2, InfoUpdates DEF Info
    <3>3. QED
      BY <1>1, <3>1, <3>2
  <2>2. PhaseOf(f) = PhaseOf(e)
    BY <2>1, EntryPhase
  <2>3. FinsOf(f) = FinsOf(e) \cup {"outside"}
    BY <2>1, EntryPhase
  <2>4. QED
    BY <2>2, <2>3
<1>2. ASSUME NEW f \in {FinAnsweredOutside(e), [e EXCEPT !.finseen_to_outside = TRUE]}
      PROVE  PhaseOf(f) = PhaseOf(e) /\ FinsOf(f) = FinsOf(e) \cup {"inside"}
  <2>1. /\ f.finseen_to_inside = e.finseen_to_inside
        /\ f.finseen_to_outside = TRUE
        /\ f.pkt_inf_list = e.pkt_inf_list /\ f \in Info
    <3>1. CASE f = FinAnsweredOutside(e)
      BY <3>1, InfoUpdates DEF Info, FinAnsweredOutside
    <3>2. CASE f = [e EXCEPT !.finseen_to_outside = TRUE]
      BY <3>2, InfoUpdates DEF Info
    <3>3. QED
      BY <1>2, <3>1, <3>2
  <2>2. PhaseOf(f) = PhaseOf(e)
    BY <2>1, EntryPhase
  <2>3. FinsOf(f) = FinsOf(e) \cup {"inside"}
    BY <2>1, EntryPhase
  <2>4. QED
    BY <2>2, <2>3
<1>3. QED
  BY <1>1, <1>2

\* The abstract variables, as operators.
PhaseMap == [c \in Conns |-> PhaseOf(table[c])]
FinsMap == [c \in Conns |-> FinsOf(table[c])]

\* A change of one entry is a change of one phase and one set of FINs.
LEMMA MapStep ==
  ASSUME NEW c \in Conns, NEW e, table \in [Conns -> Info \cup {NoEntry}],
         table' = [table EXCEPT ![c] = e]
  PROVE  /\ PhaseMap' = [PhaseMap EXCEPT ![c] = PhaseOf(e)]
         /\ FinsMap' = [FinsMap EXCEPT ![c] = FinsOf(e)]
<1>1. \A d \in Conns : table'[d] = IF d = c THEN e ELSE table[d]
  OBVIOUS
<1>2. QED
  BY <1>1 DEF PhaseMap, FinsMap

\* What is treated is a segment of the abstract specification, or none.
LEMMA TreatedIsSegment ==
  ASSUME IInv
  PROVE  TreatedSegment \in Lifecycle!Segment \cup {Opaque}
<1>1. CASE pc = "treat_in" /\ Tcp(toInside)
  <2>1. /\ Current(toInside).conn \in Conns
        /\ Kind(Flags(toInside)) \in {"SYNACK", "SYN", "RST", "FIN", "ACK", "OTHER"}
    BY <1>1, TcpInside, Kinds
  <2>2. QED
    BY <1>1, <2>1 DEF TreatedSegment, SegmentOf, Lifecycle!Segment, Lifecycle!Sides,
      Lifecycle!Kinds
<1>2. CASE pc = "treat_out" /\ Tcp(toOutside)
  <2>1. /\ Current(toOutside).conn \in Conns
        /\ Kind(Flags(toOutside)) \in {"SYNACK", "SYN", "RST", "FIN", "ACK", "OTHER"}
    BY <1>2, TcpOutside, Kinds
  <2>2. QED
    BY <1>2, <2>1 DEF TreatedSegment, SegmentOf, Lifecycle!Segment, Lifecycle!Sides,
      Lifecycle!Kinds
<1>3. CASE ~(pc = "treat_in" /\ Tcp(toInside)) /\ ~(pc = "treat_out" /\ Tcp(toOutside))
  BY <1>3 DEF TreatedSegment
<1>4. QED
  BY <1>1, <1>2, <1>3

\* The segment under treatment, seen by the abstract specification.
LEMMA TreatsSegment ==
  ASSUME NEW side \in {"inside", "outside"}, NEW c \in Conns,
         NEW kind \in {"SYNACK", "SYN", "RST", "FIN", "ACK", "OTHER"},
         Treated(side, kind, c), NEW sides, side \in sides
  PROVE  Lifecycle!Treats(c, sides, kind)
BY NoSegmentAssumption DEF Treated, Lifecycle!Treats, Lifecycle!Segment,
  Lifecycle!Sides, Lifecycle!Kinds

\* Every change of an entry is an action of ConnectionLifecycle or changes
\* neither phase nor FINs.
LEMMA ChangeImplements ==
  ASSUME IInv, NEW c \in Conns, ChangesEntry(c)
  PROVE  \/ PhaseMap' = PhaseMap /\ FinsMap' = FinsMap
         \/ Lifecycle!Admit(c) \/ Lifecycle!Learn(c) \/ Lifecycle!Establish(c)
         \/ Lifecycle!Finish(c) \/ Lifecycle!Close(c) \/ Lifecycle!Abort(c)
<1> DEFINE e == table[c]
<1>1. table \in [Conns -> Info \cup {NoEntry}]
  BY DEF IInv, TypeOK
<1>2. /\ HasEntry(c) => e \in Info
      /\ ~HasEntry(c) => e = NoEntry
      /\ Held(c) = e.pkt_inf_list
      /\ PhaseMap[c] = PhaseOf(e) /\ FinsMap[c] = FinsOf(e)
      /\ PhaseMap = [PhaseMap EXCEPT ![c] = PhaseOf(e)]
      /\ FinsMap = [FinsMap EXCEPT ![c] = FinsOf(e)]
  BY <1>1 DEF HasEntry, Held, PhaseMap, FinsMap
<1>3. HasEntry(c) => PhaseOf(e) # "none"
  BY <1>2, EntryPhase
<1>4. /\ ~HasEntry(c) => PhaseOf(e) = "none" /\ FinsOf(e) = {}
  BY <1>2, PhaseFacts
<1>5. ASSUME NEW x, table' = [table EXCEPT ![c] = x]
      PROVE  Lifecycle!Become(c, PhaseOf(x), FinsOf(x))
             /\ PhaseMap' = [PhaseMap EXCEPT ![c] = PhaseOf(x)]
             /\ FinsMap' = [FinsMap EXCEPT ![c] = FinsOf(x)]
  <2>1. PhaseMap' = [PhaseMap EXCEPT ![c] = PhaseOf(x)]
        /\ FinsMap' = [FinsMap EXCEPT ![c] = FinsOf(x)]
    BY <1>1, <1>5, MapStep
  <2>2. QED
    BY <2>1 DEF Lifecycle!Become, PhaseMap, FinsMap
<1>6. CASE MakesPending(c)
  <2>1. PICK m \in Mbufs : table' = [table EXCEPT ![c] = NewInfo(m)]
    BY <1>6 DEF MakesPending
  <2>2. Lifecycle!Become(c, "pending", {})
    BY <1>5, <2>1, PhaseFacts
  <2>3. Lifecycle!Treats(c, {"outside"}, "ACK")
    BY <1>6, TreatsSegment DEF MakesPending
  <2>4. PhaseMap[c] = "none"
    BY <1>2, <1>4, <1>6 DEF MakesPending
  <2>5. QED
    BY <2>2, <2>3, <2>4 DEF Lifecycle!Admit, PhaseMap
<1>7. CASE MakesLocal(c)
  <2>1. CASE HasEntry(c)
    <3>1. table' = [table EXCEPT ![c] = table[c]]
      BY <1>7, <2>1 DEF MakesLocal, Insert
    <3>2. QED
      BY <1>2, <1>5, <3>1
  <2>2. CASE ~HasEntry(c)
    <3>1. table' = [table EXCEPT ![c] = NewInfo(Null)]
      BY <1>7, <2>2 DEF MakesLocal, Insert
    <3>2. Lifecycle!Become(c, "local", {})
      BY <1>5, <3>1, PhaseFacts
    <3>3. Lifecycle!Treats(c, {"outside"}, "SYNACK") \/ Lifecycle!Treats(c, {"inside"}, "ACK")
      BY <1>7, TreatsSegment DEF MakesLocal
    <3>4. PhaseMap[c] = "none"
      BY <1>2, <1>4, <2>2
    <3>5. QED
      BY <3>2, <3>3, <3>4 DEF Lifecycle!Learn, PhaseMap
  <2>3. QED
    BY <2>1, <2>2
<1>8. CASE Erases(c)
  <2>1. table' = [table EXCEPT ![c] = NoEntry]
    BY <1>8 DEF Erases, Erase
  <2>2. CASE ~HasEntry(c)
    BY <1>2, <1>5, <2>1, <2>2
  <2>3. CASE HasEntry(c)
    <3>1. Lifecycle!Become(c, "none", {})
      BY <1>5, <2>1, PhaseFacts
    <3>2. PhaseMap[c] # "none"
      BY <1>2, <1>3, <2>3
    <3>3. PICK side \in {"inside", "outside"} :
            \/ Treated(side, "RST", c)
            \/ /\ Treated(side, "ACK", c)
               /\ table[c].finseen_to_inside /\ table[c].finseen_to_outside
      BY <1>8 DEF Erases
    <3>4. CASE Treated(side, "RST", c)
      <4>1. Lifecycle!Treats(c, Lifecycle!Sides, "RST")
        BY <3>4, TreatsSegment DEF Lifecycle!Sides
      <4>2. QED
        BY <3>1, <3>2, <4>1 DEF Lifecycle!Abort, PhaseMap
    <3>5. CASE /\ Treated(side, "ACK", c)
               /\ table[c].finseen_to_inside /\ table[c].finseen_to_outside
      <4>1. Lifecycle!Treats(c, Lifecycle!Sides, "ACK")
        BY <3>5, TreatsSegment DEF Lifecycle!Sides
      <4>2. FinsMap[c] = Lifecycle!Sides
        BY <1>2, <2>3, <3>5, EntryPhase DEF Lifecycle!Sides
      <4>3. QED
        BY <3>1, <3>2, <4>1, <4>2 DEF Lifecycle!Close, PhaseMap, FinsMap
    <3>6. QED
      BY <3>3, <3>4, <3>5
  <2>4. QED
    BY <2>2, <2>3
<1>9. CASE SeesFin(c)
  <2>1. HasEntry(c) /\ e \in Info
    BY <1>2, <1>9 DEF SeesFin
  <2>2. PICK side \in {"inside", "outside"} : \E f :
          /\ Treated(side, "FIN", c)
          /\ table' = [table EXCEPT ![c] = f]
          /\ PhaseOf(f) = PhaseOf(e) /\ FinsOf(f) = FinsOf(e) \cup {side}
    BY <1>9, <2>1, FinUpdates DEF SeesFin
  <2>3. PICK f :
          /\ Treated(side, "FIN", c)
          /\ table' = [table EXCEPT ![c] = f]
          /\ PhaseOf(f) = PhaseOf(e) /\ FinsOf(f) = FinsOf(e) \cup {side}
    BY <2>2
  <2>4. Lifecycle!Become(c, PhaseMap[c], FinsMap[c] \cup {side})
    <3>1. /\ PhaseMap' = [PhaseMap EXCEPT ![c] = PhaseMap[c]]
          /\ FinsMap' = [FinsMap EXCEPT ![c] = FinsMap[c] \cup {side}]
      BY <1>2, <1>5, <2>3
    <3>2. QED
      BY <3>1 DEF Lifecycle!Become, PhaseMap, FinsMap
  <2>5. Lifecycle!Treats(c, {side}, "FIN")
    BY <2>3, TreatsSegment
  <2>6. PhaseMap[c] # "none"
    BY <1>2, <1>3, <2>1
  <2>7. QED
    BY <2>4, <2>5, <2>6 DEF Lifecycle!Finish, Lifecycle!Sides, PhaseMap, FinsMap
<1>10. CASE Queues(c)
  <2>1. PICK m \in Mbufs : table' = [table EXCEPT ![c] = Queued(table[c], m)]
    BY <1>10 DEF Queues
  <2>2. e \in Info /\ e.pkt_inf_list # <<>>
    BY <1>2, <1>10 DEF Queues
  <2>3. PhaseOf(Queued(e, m)) = PhaseOf(e) /\ FinsOf(Queued(e, m)) = FinsOf(e)
    BY <2>2, PhaseUpdates
  <2>4. QED
    BY <1>2, <1>5, <2>1, <2>3
<1>11. CASE Opens(c)
  <2>1. PICK n \in Seqs : table' = [table EXCEPT ![c] = Released(table[c], n)]
    BY <1>11 DEF Opens
  <2>2. e \in Info /\ e.pkt_inf_list # <<>> /\ e.pkt_inf_list[1] # Null
    BY <1>2, <1>11 DEF Opens
  <2>3. PhaseOf(Released(e, n)) = "open" /\ FinsOf(Released(e, n)) = FinsOf(e)
    BY <2>2, ReleaseOpens
  <2>4. Lifecycle!Become(c, "open", FinsMap[c])
    <3>1. /\ PhaseMap' = [PhaseMap EXCEPT ![c] = "open"]
          /\ FinsMap' = [FinsMap EXCEPT ![c] = FinsMap[c]]
      BY <1>2, <1>5, <2>1, <2>3
    <3>2. QED
      BY <3>1 DEF Lifecycle!Become, PhaseMap, FinsMap
  <2>5. Lifecycle!Treats(c, {"inside"}, "SYNACK")
    BY <1>11, TreatsSegment DEF Opens
  <2>6. PhaseMap[c] = "pending"
    BY <1>2, <2>2, EntryPhase
  <2>7. QED
    BY <2>4, <2>5, <2>6 DEF Lifecycle!Establish, PhaseMap, FinsMap
<1>12. QED
  BY <1>6, <1>7, <1>8, <1>9, <1>10, <1>11 DEF ChangesEntry

(***************************************************************************)
(* Every behaviour of the worker thread, seen through its connection       *)
(* table, is a behaviour of ConnectionLifecycle: entries are created,      *)
(* opened and ended only by the segments that may do so, for any number of *)
(* connections and buffers, any burst size and any traffic.                *)
(***************************************************************************)
THEOREM LifecycleImplemented == Spec => ImplementsLifecycle
<1>1. Init => Lifecycle!Init
  <2> SUFFICES ASSUME Init PROVE Lifecycle!Init
    OBVIOUS
  <2>1. /\ table = [c \in Conns |-> NoEntry] /\ pc = "poll_in"
    BY DEF Init, TreatmentInit
  <2>2. TreatedSegment = Opaque
    BY <2>1 DEF TreatedSegment
  <2>3. QED
    BY <2>1, <2>2, PhaseFacts DEF Lifecycle!Init
<1>2. IInv => TreatedSegment \in Lifecycle!Segment \cup {Opaque}
  BY TreatedIsSegment
<1>3. IInv' => (TreatedSegment \in Lifecycle!Segment \cup {Opaque})'
  BY <1>2, PTL
<1>4. IInv /\ IInv' /\ [Next]_vars => [Lifecycle!Next]_(Lifecycle!lifecycleVars)
  <2> SUFFICES ASSUME IInv, IInv', [Next]_vars PROVE Lifecycle!Next
    OBVIOUS
  <2>1. TreatedSegment' \in Lifecycle!Segment \cup {Opaque}
    BY <1>3 DEF Lifecycle!Segment
  <2>2. \/ PhaseMap' = PhaseMap /\ FinsMap' = FinsMap
        \/ \E c \in Conns :
             \/ Lifecycle!Admit(c) \/ Lifecycle!Learn(c) \/ Lifecycle!Establish(c)
             \/ Lifecycle!Finish(c) \/ Lifecycle!Close(c) \/ Lifecycle!Abort(c)
    <3>1. CASE table' = table
      BY <3>1 DEF PhaseMap, FinsMap
    <3>2. CASE \E c \in Conns : ChangesEntry(c)
      BY <3>2, ChangeImplements
    <3>3. QED
      BY <3>1, <3>2, TableStep
  <2>3. QED
    BY <2>1, <2>2 DEF Lifecycle!Next, Lifecycle!Segment, Lifecycle!Sides, Lifecycle!Kinds,
      PhaseMap, FinsMap
<1>5. QED
  BY <1>1, <1>4, InvariantHolds, PTL DEF Spec, ImplementsLifecycle, Lifecycle!Spec

==============================================================================
