---------------------------- MODULE StorageProofs ----------------------------
(***************************************************************************)
(* The read-write lock of Storage, for any number of callers: the counts    *)
(* and lists of the lock object agree with where the callers stand, from    *)
(* which follow exclusion, that nobody waits in an object that is gone, and *)
(* that the object implements the abstract lock.                            *)
(***************************************************************************)
EXTENDS Storage, FiniteSetTheorems, TLAPS

Rd == {c \in Clients : pc[c] = "read"}
Wr == {c \in Clients : pc[c] \in {"load", "write", "writing"}}
RW == {c \in Clients : pc[c] = "waitRead"}
WW == {c \in Clients : pc[c] = "waitWrite"}

Distinct(s) == \A i, j \in DOMAIN s : s[i] = s[j] => i = j

\* A lock object says where the callers stand.
Fits(l) ==
  /\ l \in Lock
  /\ IsFiniteSet(Rd) /\ l.readers = Cardinality(Rd)
  /\ l.writer <=> Wr # {}
  /\ Wr # {} => Rd = {}
  /\ \A c, d \in Wr : c = d
  /\ Members(l.waitingReaders) = RW /\ Distinct(l.waitingReaders)
  /\ Members(l.waitingWriters) = WW /\ Distinct(l.waitingWriters)

LockInv ==
  /\ lock \in Lock \cup {Nobody}
  /\ pc \in [Clients -> Pcs]
  /\ Fits(Got)
  /\ lock # Nobody <=> Rd \cup Wr # {}

-----------------------------------------------------------------------------
(***************************************************************************)
(* Lists.                                                                  *)
(***************************************************************************)
LEMMA AppendMembers ==
  ASSUME NEW s \in Seq(Clients), NEW c \in Clients, c \notin Members(s), Distinct(s)
  PROVE  /\ Append(s, c) \in Seq(Clients)
         /\ Members(Append(s, c)) = Members(s) \cup {c}
         /\ Distinct(Append(s, c))
  <1>1. /\ Append(s, c) \in Seq(Clients)
        /\ DOMAIN Append(s, c) = 1..Len(s) + 1
        /\ DOMAIN s = 1..Len(s)
        /\ Append(s, c)[Len(s) + 1] = c
        /\ \A i \in 1..Len(s) : Append(s, c)[i] = s[i]
        /\ Len(s) \in Nat
    OBVIOUS
  <1>2. Members(Append(s, c)) \subseteq Members(s) \cup {c}
    BY <1>1 DEF Members
  <1>3. Members(s) \cup {c} \subseteq Members(Append(s, c))
    <2>1. \A i \in 1..Len(s) : i \in 1..Len(s) + 1
      BY <1>1
    <2>2. Len(s) + 1 \in 1..Len(s) + 1
      BY <1>1
    <2>. QED  BY <1>1, <2>1, <2>2 DEF Members
  <1>4. Distinct(Append(s, c))
    <2>1. SUFFICES ASSUME NEW i \in 1..Len(s) + 1, NEW j \in 1..Len(s) + 1,
                          Append(s, c)[i] = Append(s, c)[j]
                   PROVE  i = j
      BY <1>1 DEF Distinct
    <2>2. \A k \in 1..Len(s) + 1 : k \in 1..Len(s) \/ k = Len(s) + 1
      BY <1>1
    <2>3. \A k \in 1..Len(s) : s[k] # c
      BY <1>1 DEF Members
    <2>. QED  BY <1>1, <2>1, <2>2, <2>3 DEF Distinct
  <1>. QED  BY <1>1, <1>2, <1>3, <1>4

LEMMA TailMembers ==
  ASSUME NEW s \in Seq(Clients), s # <<>>, Distinct(s)
  PROVE  /\ Tail(s) \in Seq(Clients)
         /\ Head(s) \in Members(s) /\ Head(s) \in Clients
         /\ Members(Tail(s)) = Members(s) \ {Head(s)}
         /\ Distinct(Tail(s))
  <1>1. /\ Tail(s) \in Seq(Clients)
        /\ Len(s) \in Nat \ {0} /\ DOMAIN s = 1..Len(s)
        /\ DOMAIN Tail(s) = 1..Len(s) - 1
        /\ \A i \in 1..Len(s) - 1 : Tail(s)[i] = s[i + 1]
        /\ Head(s) = s[1] /\ s[1] \in Clients
    OBVIOUS
  <1>2. Head(s) \in Members(s)
    BY <1>1 DEF Members
  <1>3. \A i \in 1..Len(s) - 1 : i + 1 \in 1..Len(s) /\ i + 1 # 1
    BY <1>1
  <1>4. \A i \in 1..Len(s) : i = 1 \/ (i - 1 \in 1..Len(s) - 1 /\ (i - 1) + 1 = i)
    BY <1>1
  <1>5. Members(Tail(s)) \subseteq Members(s) \ {Head(s)}
    BY <1>1, <1>3 DEF Members, Distinct
  <1>6. Members(s) \ {Head(s)} \subseteq Members(Tail(s))
    <2>1. SUFFICES ASSUME NEW i \in 1..Len(s), s[i] # Head(s)
                   PROVE  s[i] \in Members(Tail(s))
      BY <1>1 DEF Members
    <2>2. i - 1 \in 1..Len(s) - 1 /\ (i - 1) + 1 = i
      BY <1>1, <1>4, <2>1
    <2>3. Tail(s)[i - 1] = s[i]
      BY <1>1, <2>2
    <2>. QED  BY <1>1, <2>2, <2>3 DEF Members
  <1>7. Distinct(Tail(s))
    <2>1. SUFFICES ASSUME NEW i \in 1..Len(s) - 1, NEW j \in 1..Len(s) - 1,
                          Tail(s)[i] = Tail(s)[j]
                   PROVE  i = j
      BY <1>1 DEF Distinct
    <2>2. i + 1 = j + 1
      BY <1>1, <1>3, <2>1 DEF Distinct
    <2>. QED  BY <2>2
  <1>. QED  BY <1>1, <1>2, <1>5, <1>6, <1>7

LEMMA DistinctCount ==
  ASSUME NEW s \in Seq(Clients), Distinct(s)
  PROVE  IsFiniteSet(Members(s)) /\ Cardinality(Members(s)) = Len(s)
  <1>1. Len(s) \in Nat /\ DOMAIN s = 1..Len(s) /\ s \in [1..Len(s) -> Clients]
    OBVIOUS
  <1>2. s \in [1..Len(s) -> Members(s)]
    BY <1>1 DEF Members
  <1>3. s \in Bijection(1..Len(s), Members(s))
    <2>1. s \in Injection(1..Len(s), Members(s))
      BY <1>1, <1>2 DEF Injection, IsInjective, Distinct
    <2>2. s \in Surjection(1..Len(s), Members(s))
      BY <1>1, <1>2 DEF Surjection, Members
    <2>. QED  BY <2>1, <2>2 DEF Bijection
  <1>4. IsFiniteSet(1..Len(s)) /\ Cardinality(1..Len(s)) = Len(s)
    BY <1>1, FS_Interval
  <1>5. ExistsBijection(1..Len(s), Members(s))
    BY <1>3 DEF ExistsBijection
  <1>. QED  BY <1>4, <1>5, FS_Bijection

LEMMA EmptyMembers == Members(<<>>) = {} /\ Distinct(<<>>) /\ <<>> \in Seq(Clients)
  BY DEF Members, Distinct

-----------------------------------------------------------------------------
(***************************************************************************)
(* The lock.                                                               *)
(***************************************************************************)
LEMMA NobodyIsNoLock == Nobody \notin Lock
  BY NobodyAssumption DEF Lock

LEMMA EmptyIsLock == Empty \in Lock
  BY EmptyMembers DEF Empty, Lock

LEMMA LockInit == Init => LockInv
  <1>. SUFFICES ASSUME Init PROVE LockInv
    OBVIOUS
  <1>1. Rd = {} /\ Wr = {} /\ RW = {} /\ WW = {} /\ pc \in [Clients -> Pcs]
    BY DEF Init, Rd, Wr, RW, WW, Pcs
  <1>2. Got = Empty /\ lock = Nobody
    BY DEF Init, Got
  <1>3. IsFiniteSet({}) /\ Cardinality({}) = 0
    BY FS_EmptySet
  <1>. QED  BY <1>1, <1>2, <1>3, EmptyMembers, EmptyIsLock DEF LockInv, Fits, Empty

\* A step that lets every caller stay on its side of the lock.
LEMMA MoveKeeps ==
  ASSUME LockInv, UNCHANGED lock, pc' \in [Clients -> Pcs],
         Rd' = Rd, Wr' = Wr, RW' = RW, WW' = WW
  PROVE  LockInv'
  BY DEF LockInv, Fits, Got, Members, Distinct

LEMMA ReadLockKeeps ==
  ASSUME LockInv, NEW c \in Clients, pc[c] = "idle", ReadLock(c)
  PROVE  LockInv'
  <1>0. /\ c \notin Rd /\ c \notin Wr /\ c \notin RW /\ c \notin WW
        /\ pc \in [Clients -> Pcs]
        /\ Got \in Lock /\ Fits(Got)
    BY DEF Rd, Wr, RW, WW, LockInv, Fits
  <1>1. CASE ~Got.writer /\ Got.waitingWriters = <<>>
    <2>1. lock' = [Got EXCEPT !.readers = @ + 1] /\ pc' = [pc EXCEPT ![c] = "read"]
      BY <1>1 DEF ReadLock, Goto
    <2>2. Rd' = Rd \cup {c} /\ Wr' = Wr /\ RW' = RW /\ WW' = WW /\ pc' \in [Clients -> Pcs]
      BY <1>0, <2>1 DEF Rd, Wr, RW, WW, Pcs
    <2>3. /\ lock' \in Lock
          /\ lock'.readers = Got.readers + 1 /\ lock'.writer = Got.writer
          /\ lock'.waitingReaders = Got.waitingReaders
          /\ lock'.waitingWriters = Got.waitingWriters
      BY <1>0, <2>1 DEF Lock
    <2>4. Got' = lock' /\ lock' # Nobody
      BY <2>3, NobodyIsNoLock DEF Got
    <2>5. IsFiniteSet(Rd') /\ Cardinality(Rd') = Cardinality(Rd) + 1
      BY <1>0, <2>2, FS_AddElement DEF Fits
    <2>6. Wr = {}
      BY <1>0, <1>1 DEF Fits
    <2>7. Fits(Got)'
      BY <1>0, <2>2, <2>3, <2>4, <2>5, <2>6 DEF Fits
    <2>. QED  BY <2>2, <2>3, <2>4, <2>7 DEF LockInv
  <1>2. CASE ~(~Got.writer /\ Got.waitingWriters = <<>>)
    <2>1. /\ lock' = [Got EXCEPT !.waitingReaders = Append(@, c)]
          /\ pc' = [pc EXCEPT ![c] = "waitRead"]
      BY <1>2 DEF ReadLock, Goto
    <2>2. Rd' = Rd /\ Wr' = Wr /\ RW' = RW \cup {c} /\ WW' = WW /\ pc' \in [Clients -> Pcs]
      BY <1>0, <2>1 DEF Rd, Wr, RW, WW, Pcs
    <2>3. Got.waitingReaders \in Seq(Clients)
      BY <1>0 DEF Lock
    <2>4. /\ Append(Got.waitingReaders, c) \in Seq(Clients)
          /\ Members(Append(Got.waitingReaders, c)) = RW \cup {c}
          /\ Distinct(Append(Got.waitingReaders, c))
      BY <1>0, <2>3, AppendMembers DEF Fits
    <2>5. /\ lock' \in Lock
          /\ lock'.readers = Got.readers /\ lock'.writer = Got.writer
          /\ lock'.waitingReaders = Append(Got.waitingReaders, c)
          /\ lock'.waitingWriters = Got.waitingWriters
      BY <1>0, <2>1, <2>4 DEF Lock
    <2>6. Got' = lock' /\ lock' # Nobody
      BY <2>5, NobodyIsNoLock DEF Got
    <2>7. lock # Nobody
      BY <1>2 DEF Got, Empty
    <2>8. Fits(Got)'
      BY <1>0, <2>2, <2>4, <2>5, <2>6 DEF Fits
    <2>. QED  BY <2>2, <2>5, <2>6, <2>7, <2>8 DEF LockInv
  <1>. QED  BY <1>1, <1>2

LEMMA WriteLockKeeps ==
  ASSUME LockInv, NEW c \in Clients, pc[c] \in {"idle", "made"}, NEW o, WriteLock(c, o)
  PROVE  LockInv'
  <1>0. /\ c \notin Rd /\ c \notin Wr /\ c \notin RW /\ c \notin WW
        /\ pc \in [Clients -> Pcs]
        /\ Got \in Lock /\ Fits(Got)
        /\ Held(o) \in {"load", "write"}
    BY DEF Rd, Wr, RW, WW, LockInv, Fits, Held
  <1>1. CASE ~Got.writer /\ Got.readers = 0
    <2>1. lock' = [Got EXCEPT !.writer = TRUE] /\ pc' = [pc EXCEPT ![c] = Held(o)]
      BY <1>1 DEF WriteLock, Goto
    <2>2. Rd' = Rd /\ Wr' = Wr \cup {c} /\ RW' = RW /\ WW' = WW /\ pc' \in [Clients -> Pcs]
      BY <1>0, <2>1 DEF Rd, Wr, RW, WW, Pcs
    <2>3. /\ lock' \in Lock
          /\ lock'.readers = Got.readers /\ lock'.writer = TRUE
          /\ lock'.waitingReaders = Got.waitingReaders
          /\ lock'.waitingWriters = Got.waitingWriters
      BY <1>0, <2>1 DEF Lock
    <2>4. Got' = lock' /\ lock' # Nobody
      BY <2>3, NobodyIsNoLock DEF Got
    <2>5. Rd = {} /\ Wr = {}
      BY <1>0, <1>1, FS_EmptySet DEF Fits
    <2>6. Fits(Got)'
      BY <1>0, <2>2, <2>3, <2>4, <2>5 DEF Fits
    <2>. QED  BY <2>2, <2>3, <2>4, <2>6 DEF LockInv
  <1>2. CASE ~(~Got.writer /\ Got.readers = 0)
    <2>1. /\ lock' = [Got EXCEPT !.waitingWriters = Append(@, c)]
          /\ pc' = [pc EXCEPT ![c] = "waitWrite"]
      BY <1>2 DEF WriteLock, Goto
    <2>2. Rd' = Rd /\ Wr' = Wr /\ RW' = RW /\ WW' = WW \cup {c} /\ pc' \in [Clients -> Pcs]
      BY <1>0, <2>1 DEF Rd, Wr, RW, WW, Pcs
    <2>3. Got.waitingWriters \in Seq(Clients)
      BY <1>0 DEF Lock
    <2>4. /\ Append(Got.waitingWriters, c) \in Seq(Clients)
          /\ Members(Append(Got.waitingWriters, c)) = WW \cup {c}
          /\ Distinct(Append(Got.waitingWriters, c))
      BY <1>0, <2>3, AppendMembers DEF Fits
    <2>5. /\ lock' \in Lock
          /\ lock'.readers = Got.readers /\ lock'.writer = Got.writer
          /\ lock'.waitingReaders = Got.waitingReaders
          /\ lock'.waitingWriters = Append(Got.waitingWriters, c)
      BY <1>0, <2>1, <2>4 DEF Lock
    <2>6. Got' = lock' /\ lock' # Nobody
      BY <2>5, NobodyIsNoLock DEF Got
    <2>7. lock # Nobody
      BY <1>2 DEF Got, Empty
    <2>8. Fits(Got)'
      BY <1>0, <2>2, <2>4, <2>5, <2>6 DEF Fits
    <2>. QED  BY <2>2, <2>5, <2>6, <2>7, <2>8 DEF LockInv
  <1>. QED  BY <1>1, <1>2

\* c leaves, and the last to leave lets in the first writer that waits or, if
\* none does, all readers.
HandedOn(c) ==
  \/ /\ Rd \ {c} # {}
     /\ Rd' = Rd \ {c} /\ Wr' = Wr \ {c} /\ RW' = RW
     /\ Got'.waitingWriters = Got.waitingWriters
  \/ /\ Rd \ {c} = {} /\ Got.waitingWriters # <<>>
     /\ Rd' = {} /\ Wr' = {Head(Got.waitingWriters)} /\ RW' = RW
     /\ Got'.waitingWriters = Tail(Got.waitingWriters)
  \/ /\ Rd \ {c} = {} /\ Got.waitingWriters = <<>>
     /\ Rd' = RW /\ Wr' = {} /\ RW' = {}
     /\ Got'.waitingWriters = <<>>

LEMMA ReleaseKeeps ==
  ASSUME LockInv, NEW c \in Clients, c \in Rd \cup Wr,
         NEW l \in {"idle", "made"}, Release(c, l)
  PROVE  LockInv' /\ HandedOn(c)
  <1>. DEFINE r == Rd \ {c}
              w == Wr \ {c}
  <1>0. /\ pc \in [Clients -> Pcs] /\ lock \in Lock /\ Fits(lock) /\ Got = lock
        /\ c \notin RW /\ c \notin WW
    BY NobodyIsNoLock DEF LockInv, Got, Rd, Wr, RW, WW
  <1>1. PICK u : u = Left(c)
    OBVIOUS
  <1>2. IsFiniteSet(r) /\ Cardinality(r) = IF c \in Rd THEN Cardinality(Rd) - 1 ELSE Cardinality(Rd)
    BY <1>0, FS_RemoveElement DEF Fits
  <1>3. IsFiniteSet(r) /\ Cardinality(r) \in Nat
    BY <1>2, FS_CardinalityType
  <1>4. w = {}
    BY <1>0 DEF Fits
  <1>5. /\ u \in Lock /\ u.readers = Cardinality(r) /\ u.writer = FALSE
        /\ u.waitingReaders = lock.waitingReaders
        /\ u.waitingWriters = lock.waitingWriters
    <2>1. CASE c \in Rd
      <3>1. u = [lock EXCEPT !.readers = @ - 1]
        BY <1>1, <2>1 DEF Left, Rd
      <3>2. lock.writer = FALSE /\ lock.readers - 1 = Cardinality(r)
        BY <1>0, <1>2, <2>1 DEF Fits, Lock
      <3>. QED  BY <1>0, <1>3, <3>1, <3>2 DEF Lock
    <2>2. CASE c \notin Rd
      <3>1. u = [lock EXCEPT !.writer = FALSE] /\ c \in Wr
        BY <1>1, <2>2 DEF Left, Rd
      <3>2. lock.readers = Cardinality(r)
        BY <1>0, <1>2, <2>2 DEF Fits
      <3>. QED  BY <1>0, <3>1, <3>2 DEF Lock
    <2>. QED  BY <2>1, <2>2
  <1>6. /\ lock' = Process(u).lock
        /\ pc' = [d \in Clients |->
                    IF d = c THEN l
                    ELSE IF d \notin Process(u).woken THEN pc[d]
                    ELSE IF pc[d] = "waitRead" THEN "read" ELSE Held(op[d])]
    BY <1>1 DEF Release
  <1>7. /\ \A o : Held(o) \in {"load", "write"}
        /\ {"load", "write", "read", "idle", "made"} \subseteq Pcs
    BY DEF Held, Pcs
  <1>8. pc' \in [Clients -> Pcs]
    BY <1>0, <1>6, <1>7
  <1>9. (u.readers > 0) <=> r # {}
    BY <1>3, <1>5, FS_EmptySet
  <1>10. CASE r # {}
    <2>1. Process(u) = [lock |-> u, woken |-> {}]
      BY <1>9, <1>10 DEF Process
    <2>2. lock' = u /\ Got' = u /\ lock' # Nobody
      BY <1>5, <1>6, <2>1, NobodyIsNoLock DEF Got
    <2>3. Rd' = r /\ Wr' = {} /\ RW' = RW /\ WW' = WW
      BY <1>0, <1>4, <1>6, <2>1 DEF Rd, Wr, RW, WW
    <2>4. Fits(Got)'
      BY <1>0, <1>3, <1>5, <2>2, <2>3 DEF Fits
    <2>5. HandedOn(c)
      BY <1>0, <1>4, <1>5, <1>10, <2>2, <2>3 DEF HandedOn
    <2>. QED  BY <1>5, <1>8, <1>10, <2>2, <2>3, <2>4, <2>5 DEF LockInv
  <1>11. CASE r = {} /\ lock.waitingWriters # <<>>
    <2>. DEFINE h == Head(lock.waitingWriters)
                t == Tail(lock.waitingWriters)
    <2>1. Process(u) = [lock  |-> [u EXCEPT !.writer = TRUE, !.waitingWriters = Tail(@)],
                        woken |-> {h}]
      BY <1>5, <1>9, <1>11 DEF Process
    <2>2. /\ t \in Seq(Clients) /\ h \in WW /\ h \in Clients
          /\ Members(t) = WW \ {h} /\ Distinct(t)
      BY <1>0, <1>11, TailMembers DEF Fits, Lock
    <2>3. /\ lock' \in Lock /\ lock'.writer = TRUE
          /\ lock'.readers = u.readers /\ lock'.waitingReaders = lock.waitingReaders
          /\ lock'.waitingWriters = t
      <3>1. lock' = [u EXCEPT !.writer = TRUE, !.waitingWriters = t]
        BY <1>5, <1>6, <2>1
      <3>. QED  BY <1>5, <2>2, <3>1 DEF Lock
    <2>4. Got' = lock' /\ lock' # Nobody
      BY <2>3, NobodyIsNoLock DEF Got
    <2>5. /\ pc'[c] = l /\ pc'[h] \in {"load", "write"} /\ h # c
          /\ \A d \in Clients \ {c, h} : pc'[d] = pc[d]
      <3>1. pc[h] = "waitWrite" /\ h # c /\ Process(u).woken = {h}
        <4>1. Process(u).woken = {h}
          BY <2>1
        <4>2. pc[h] = "waitWrite" /\ h # c
          BY <1>0, <2>2 DEF WW
        <4>. QED  BY <4>1, <4>2
      <3>. QED  BY <1>6, <1>7, <2>2, <3>1
    <2>6. Rd' = {} /\ Wr' = {h} /\ RW' = RW /\ WW' = WW \ {h}
      BY <1>0, <1>4, <1>11, <2>2, <2>5 DEF Rd, Wr, RW, WW
    <2>7. u.readers = 0 /\ IsFiniteSet({}) /\ Cardinality({}) = 0
      BY <1>5, <1>11, FS_EmptySet
    <2>8. Fits(Got)'
      BY <1>0, <2>2, <2>3, <2>4, <2>6, <2>7 DEF Fits
    <2>9. HandedOn(c)
      BY <1>0, <1>11, <2>3, <2>4, <2>6 DEF HandedOn
    <2>. QED  BY <1>8, <2>3, <2>4, <2>6, <2>8, <2>9 DEF LockInv
  <1>12. CASE r = {} /\ lock.waitingWriters = <<>> /\ lock.waitingReaders # <<>>
    <2>. DEFINE q == lock.waitingReaders
    <2>1. Process(u) = [lock  |-> [u EXCEPT !.readers = Len(q), !.waitingReaders = <<>>],
                        woken |-> Members(q)]
      BY <1>5, <1>9, <1>12 DEF Process
    <2>2. q \in Seq(Clients) /\ Distinct(q) /\ Members(q) = RW
      BY <1>0 DEF Fits, Lock
    <2>3. IsFiniteSet(RW) /\ Cardinality(RW) = Len(q) /\ Len(q) \in Nat
      BY <2>2, DistinctCount
    <2>4. RW # {}
      BY <1>12, <2>2, TailMembers
    <2>5. /\ lock' \in Lock /\ lock'.writer = FALSE /\ lock'.readers = Len(q)
          /\ lock'.waitingReaders = <<>> /\ lock'.waitingWriters = <<>>
      <3>1. lock' = [u EXCEPT !.readers = Len(q), !.waitingReaders = <<>>]
        BY <1>6, <2>1
      <3>. QED  BY <1>5, <1>12, <2>3, <3>1, EmptyMembers DEF Lock
    <2>6. Got' = lock' /\ lock' # Nobody
      BY <2>5, NobodyIsNoLock DEF Got
    <2>7. /\ pc'[c] = l
          /\ \A d \in RW : pc'[d] = "read"
          /\ \A d \in Clients \ ({c} \cup RW) : pc'[d] = pc[d]
      <3>1. c \notin RW /\ Process(u).woken = RW /\ \A d \in RW : pc[d] = "waitRead" /\ d \in Clients
        <4>1. Process(u).woken = Members(q)
          BY <2>1
        <4>2. c \notin RW /\ \A d \in RW : pc[d] = "waitRead" /\ d \in Clients
          BY <1>0 DEF RW
        <4>. QED  BY <2>2, <4>1, <4>2
      <3>. QED  BY <1>6, <3>1
    <2>8. Rd' = RW /\ Wr' = {} /\ RW' = {} /\ WW' = WW
      BY <1>0, <1>4, <1>12, <2>7 DEF Rd, Wr, RW, WW
    <2>9. WW = {}
      BY <1>0, <1>12, EmptyMembers DEF Fits
    <2>10. Fits(Got)'
      BY <2>3, <2>5, <2>6, <2>8, <2>9, EmptyMembers DEF Fits
    <2>11. HandedOn(c)
      BY <1>0, <1>12, <2>5, <2>6, <2>8 DEF HandedOn
    <2>. QED  BY <1>8, <2>4, <2>5, <2>6, <2>8, <2>10, <2>11 DEF LockInv
  <1>13. CASE r = {} /\ lock.waitingWriters = <<>> /\ lock.waitingReaders = <<>>
    <2>1. Process(u) = [lock |-> Nobody, woken |-> {}]
      BY <1>5, <1>9, <1>13 DEF Process
    <2>2. lock' = Nobody /\ Got' = Empty
      BY <1>6, <2>1 DEF Got
    <2>3. RW = {} /\ WW = {}
      BY <1>0, <1>13, EmptyMembers DEF Fits
    <2>4. Rd' = {} /\ Wr' = {} /\ RW' = {} /\ WW' = {}
      BY <1>0, <1>4, <1>6, <1>13, <2>1, <2>3 DEF Rd, Wr, RW, WW
    <2>5. IsFiniteSet({}) /\ Cardinality({}) = 0
      BY FS_EmptySet
    <2>6. Fits(Got)'
      BY <2>2, <2>4, <2>5, EmptyMembers, EmptyIsLock DEF Fits, Empty
    <2>7. HandedOn(c)
      BY <1>0, <1>13, <2>2, <2>3, <2>4 DEF HandedOn, Empty
    <2>. QED  BY <1>8, <2>2, <2>4, <2>6, <2>7 DEF LockInv
  <1>. QED  BY <1>10, <1>11, <1>12, <1>13

\* Who hands the lock on moves only callers that wait.
LEMMA ReleaseWakes ==
  ASSUME LockInv, NEW c \in Clients, c \in Rd \cup Wr, NEW l, Release(c, l)
  PROVE  /\ pc'[c] = l
         /\ \A d \in Clients \ {c} :
              \/ pc'[d] = pc[d]
              \/ pc[d] \in {"waitRead", "waitWrite"} /\ pc'[d] \in {"read", Held(op[d])}
  <1>0. /\ pc \in [Clients -> Pcs] /\ lock \in Lock /\ Fits(lock)
    BY NobodyIsNoLock DEF LockInv, Got
  <1>1. PICK u : u = Left(c)
    OBVIOUS
  <1>2. u.waitingReaders = lock.waitingReaders /\ u.waitingWriters = lock.waitingWriters
    <2>1. u = [lock EXCEPT !.readers = @ - 1] \/ u = [lock EXCEPT !.writer = FALSE]
      BY <1>1 DEF Left
    <2>. QED  BY <1>0, <2>1 DEF Lock
  <1>3. lock.waitingWriters # <<>> => Head(lock.waitingWriters) \in WW
    BY <1>0, TailMembers DEF Fits, Lock
  <1>4. Process(u).woken \in {{}, {Head(lock.waitingWriters)}, Members(lock.waitingReaders)}
        /\ (Process(u).woken = {Head(lock.waitingWriters)} =>
              lock.waitingWriters # <<>> \/ Process(u).woken \subseteq RW \/ Process(u).woken = {})
    <2>1. CASE u.writer \/ u.readers > 0
      BY <2>1 DEF Process
    <2>2. CASE ~(u.writer \/ u.readers > 0) /\ u.waitingWriters # <<>>
      BY <1>2, <2>2 DEF Process
    <2>3. CASE ~(u.writer \/ u.readers > 0) /\ u.waitingWriters = <<>> /\ u.waitingReaders # <<>>
      <3>1. Process(u).woken = Members(lock.waitingReaders)
        BY <1>2, <2>3 DEF Process
      <3>. QED  BY <1>0, <3>1 DEF Fits
    <2>4. CASE ~(u.writer \/ u.readers > 0) /\ u.waitingWriters = <<>> /\ u.waitingReaders = <<>>
      BY <2>4 DEF Process
    <2>. QED  BY <2>1, <2>2, <2>3, <2>4
  <1>5. Process(u).woken \subseteq RW \cup WW
    BY <1>0, <1>3, <1>4 DEF Fits
  <1>6. \A d \in Process(u).woken : pc[d] \in {"waitRead", "waitWrite"}
    BY <1>5 DEF RW, WW
  <1>7. pc' = [d \in Clients |->
                 IF d = c THEN l
                 ELSE IF d \notin Process(u).woken THEN pc[d]
                 ELSE IF pc[d] = "waitRead" THEN "read" ELSE Held(op[d])]
    BY <1>1 DEF Release
  <1>. QED  BY <1>6, <1>7

-----------------------------------------------------------------------------
(***************************************************************************)
(* The operations.                                                         *)
(***************************************************************************)
\* What the calls of an update and the file have to do with each other.
FileInv ==
  /\ op \in [Clients -> Ops \cup {Nobody}]
  /\ seen \in [Clients -> SUBSET Clients]
  /\ file \in File \cup {Nobody}
  /\ cut \in BOOLEAN
  /\ crashes \in 0..Restarts
  /\ file # Nobody => file.whole \/ cut \/ \E c \in Clients : pc[c] = "writing"
  /\ \A c \in Clients : pc[c] = "made" => op[c] = "derive"
  /\ \A c \in Clients :
       op[c] = "update" /\ pc[c] = "write" => file = Nobody \/ seen[c] = file.holds \cup {c}

StoreInv == LockInv /\ FileInv

LEMMA NobodyIsNoFile == Nobody \notin File /\ Nobody # "update"
  BY NobodyAssumption DEF File, Operations

LEMMA StoreInit == Init => StoreInv
  <1>. SUFFICES ASSUME Init PROVE StoreInv
    OBVIOUS
  <1>1. file \in File \cup {Nobody} /\ (file # Nobody => file.whole)
    <2>1. {} \in SUBSET Clients
      OBVIOUS
    <2>2. [holds |-> {}, whole |-> TRUE] \in File
      BY <2>1 DEF File
    <2>3. CASE file = Nobody
      BY <2>3
    <2>4. CASE file = [holds |-> {}, whole |-> TRUE]
      BY <2>2, <2>4
    <2>. QED  BY <2>3, <2>4 DEF Init
  <1>2. 0 \in 0..Restarts
    BY RestartsAssumption
  <1>3. FileInv
    BY <1>1, <1>2 DEF Init, FileInv
  <1>. QED  BY <1>3, LockInit DEF StoreInv

\* A caller that writes is alone, and a caller that writes makes the file unwhole.
LEMMA Alone ==
  ASSUME LockInv, NEW c \in Clients, pc[c] \in {"load", "write", "writing"}, NEW d \in Clients,
         pc[d] \in {"read", "load", "write", "writing"}
  PROVE  c = d
  <1>1. Fits(Got) /\ c \in Wr
    BY DEF LockInv, Wr
  <1>2. d \in Wr \/ d \in Rd
    BY DEF Wr, Rd
  <1>. QED  BY <1>1, <1>2 DEF Fits

LEMMA StepKeepsLock ==
  ASSUME LockInv, [Next]_vars
  PROVE  LockInv'
  <1>0. pc \in [Clients -> Pcs] /\ {"idle", "made", "load", "write", "writing"} \subseteq Pcs
    BY DEF LockInv, Pcs
  <1>1. ASSUME NEW c \in Clients, StartRead(c) PROVE LockInv'
    BY <1>1, ReadLockKeeps DEF StartRead
  <1>2. ASSUME NEW c \in Clients, StartWrite(c) PROVE LockInv'
    BY <1>2, WriteLockKeeps DEF StartWrite
  <1>3. ASSUME NEW c \in Clients, WriteMade(c) PROVE LockInv'
    BY <1>3, WriteLockKeeps DEF WriteMade
  <1>4. ASSUME NEW c \in Clients, EndRead(c) PROVE LockInv'
    <2>1. c \in Rd \cup Wr
      BY <1>4 DEF EndRead, Rd
    <2>2. Release(c, "made") \/ Release(c, "idle")
      BY <1>4 DEF EndRead, Return
    <2>. QED  BY <2>1, <2>2, ReleaseKeeps
  <1>5. ASSUME NEW c \in Clients, FailLoad(c) \/ Fill(c) \/ FailWrite(c) PROVE LockInv'
    <2>1. c \in Rd \cup Wr /\ Release(c, "idle")
      BY <1>5 DEF FailLoad, Fill, FailWrite, Return, Wr
    <2>. QED  BY <2>1, ReleaseKeeps
  <1>6. ASSUME NEW c \in Clients, DropMade(c) \/ Load(c) \/ Truncate(c) PROVE LockInv'
    <2>1. /\ UNCHANGED lock /\ pc' \in [Clients -> Pcs]
          /\ Rd' = Rd /\ Wr' = Wr /\ RW' = RW /\ WW' = WW
      <3>1. CASE DropMade(c)
        BY <1>0, <3>1 DEF DropMade, Goto, Rd, Wr, RW, WW
      <3>2. CASE Load(c)
        BY <1>0, <3>2 DEF Load, Goto, Rd, Wr, RW, WW
      <3>3. CASE Truncate(c)
        BY <1>0, <3>3 DEF Truncate, Goto, Rd, Wr, RW, WW
      <3>. QED  BY <1>6, <3>1, <3>2, <3>3
    <2>. QED  BY <2>1, MoveKeeps
  <1>7. ASSUME NEW c \in Clients, Remove(c) PROVE LockInv'
    <2>1. UNCHANGED <<lock, pc>>
      BY <1>7 DEF Remove
    <2>. QED  BY <1>0, <2>1, MoveKeeps DEF Rd, Wr, RW, WW
  <1>8. ASSUME Crash PROVE LockInv'
    <2>1. /\ lock' = Nobody /\ Got' = Empty
          /\ pc' = [c \in Clients |-> "idle"] /\ pc' \in [Clients -> Pcs]
      BY <1>0, <1>8 DEF Crash, Got
    <2>2. Rd' = {} /\ Wr' = {} /\ RW' = {} /\ WW' = {}
      BY <2>1 DEF Rd, Wr, RW, WW
    <2>3. IsFiniteSet({}) /\ Cardinality({}) = 0
      BY FS_EmptySet
    <2>4. Fits(Got)'
      BY <2>1, <2>2, <2>3, EmptyMembers, EmptyIsLock DEF Fits, Empty
    <2>. QED  BY <2>1, <2>2, <2>4 DEF LockInv
  <1>9. CASE UNCHANGED vars
    BY <1>0, <1>9, MoveKeeps DEF vars, Rd, Wr, RW, WW
  <1>. QED  BY <1>1, <1>2, <1>3, <1>4, <1>5, <1>6, <1>7, <1>8, <1>9 DEF Next, Step

\* What becomes of the other callers when c gives the lock back.
LEMMA OthersStay ==
  ASSUME LockInv, NEW c \in Clients, c \in Rd \cup Wr, NEW l, Release(c, l),
         NEW d \in Clients \ {c}
  PROVE  /\ pc[d] = "writing" <=> pc'[d] = "writing"
         /\ pc'[d] = "write" /\ op[d] = "update" => pc[d] = "write"
         /\ pc'[d] = "made" => pc[d] = "made"
  BY ReleaseWakes DEF Held

LEMMA StepKeepsFile ==
  ASSUME StoreInv, [Next]_vars
  PROVE  FileInv'
  <1>. USE DEF StoreInv
  <1>0. pc \in [Clients -> Pcs]
    BY DEF LockInv
  <1>1. ASSUME NEW c \in Clients, StartRead(c) PROVE FileInv'
    <2>1. PICK o \in Ops \cap {"read", "derive"} : op' = [op EXCEPT ![c] = o]
      BY <1>1 DEF StartRead
    <2>2. \E l \in {"read", "waitRead"} : pc' = [pc EXCEPT ![c] = l]
      BY <1>1 DEF StartRead, ReadLock, Goto
    <2>3. pc[c] = "idle" /\ UNCHANGED <<seen, file, cut, crashes>>
      BY <1>1 DEF StartRead
    <2>. QED  BY <1>0, <2>1, <2>2, <2>3 DEF FileInv
  <1>2. ASSUME NEW c \in Clients, StartWrite(c) PROVE FileInv'
    <2>1. PICK o \in Ops \cap {"write", "update"} :
            op' = [op EXCEPT ![c] = o] /\ WriteLock(c, o)
      BY <1>2 DEF StartWrite
    <2>2. \E l \in {Held(o), "waitWrite"} : pc' = [pc EXCEPT ![c] = l]
      BY <2>1 DEF WriteLock, Goto
    <2>3. /\ pc[c] = "idle" /\ UNCHANGED <<file, cut, crashes>>
          /\ \E x \in SUBSET Clients : seen' = [seen EXCEPT ![c] = x]
      BY <1>2 DEF StartWrite
    <2>4. Held(o) = IF o = "update" THEN "load" ELSE "write"
      BY DEF Held
    <2>. QED  BY <1>0, <2>1, <2>2, <2>3, <2>4 DEF FileInv
  <1>3. ASSUME NEW c \in Clients, EndRead(c) PROVE FileInv'
    <2>1. c \in Rd \cup Wr /\ pc[c] = "read" /\ UNCHANGED <<file, cut, crashes>>
      BY <1>3 DEF EndRead, Rd
    <2>2. CASE op[c] = "derive" /\ Readable
      <3>1. /\ Release(c, "made") /\ op' = op
            /\ seen' = [seen EXCEPT ![c] = file.holds \cup {c}]
        BY <1>3, <2>2 DEF EndRead
      <3>2. file.holds \cup {c} \in SUBSET Clients
        BY <2>2 DEF FileInv, File, Readable
      <3>3. pc'[c] = "made"
        BY <2>1, <3>1, ReleaseWakes
      <3>. QED  BY <2>1, <2>2, <3>1, <3>2, <3>3, OthersStay DEF FileInv
    <2>3. CASE ~(op[c] = "derive" /\ Readable)
      <3>1. Release(c, "idle") /\ Forget(c)
        BY <1>3, <2>3 DEF EndRead, Return
      <3>2. pc'[c] = "idle"
        BY <2>1, <3>1, ReleaseWakes
      <3>. QED  BY <2>1, <3>1, <3>2, OthersStay DEF FileInv, Forget
    <2>. QED  BY <2>2, <2>3
  <1>4. ASSUME NEW c \in Clients, WriteMade(c) PROVE FileInv'
    <2>1. op[c] = "derive" /\ pc[c] = "made" /\ UNCHANGED <<op, seen, file, cut, crashes>>
      BY <1>4 DEF WriteMade, FileInv
    <2>2. \E l \in {"write", "waitWrite"} : pc' = [pc EXCEPT ![c] = l]
      BY <1>4 DEF WriteMade, WriteLock, Goto, Held
    <2>. QED  BY <1>0, <2>1, <2>2 DEF FileInv
  <1>5. ASSUME NEW c \in Clients, DropMade(c) PROVE FileInv'
    BY <1>0, <1>5 DEF DropMade, Goto, Forget, FileInv
  <1>6. ASSUME NEW c \in Clients, Load(c) PROVE FileInv'
    <2>1. /\ pc[c] = "load" /\ file.holds \cup {c} \in SUBSET Clients
          /\ pc' = [pc EXCEPT ![c] = "write"]
          /\ seen' = [seen EXCEPT ![c] = file.holds \cup {c}]
          /\ UNCHANGED <<op, file, cut, crashes>>
      BY <1>6 DEF Load, Goto, FileInv, File, Readable
    <2>. QED  BY <1>0, <2>1 DEF FileInv
  <1>7. ASSUME NEW c \in Clients, FailLoad(c) PROVE FileInv'
    <2>1. c \in Rd \cup Wr /\ pc[c] = "load" /\ Release(c, "idle") /\ Forget(c)
          /\ UNCHANGED <<file, cut, crashes>>
      BY <1>7 DEF FailLoad, Return, Wr
    <2>2. pc'[c] = "idle"
      BY <2>1, ReleaseWakes
    <2>. QED  BY <2>1, <2>2, OthersStay DEF FileInv, Forget
  <1>8. ASSUME NEW c \in Clients, Truncate(c) PROVE FileInv'
    <2>1. /\ pc[c] = "write" /\ pc' = [pc EXCEPT ![c] = "writing"]
          /\ file' = [holds |-> {}, whole |-> FALSE] /\ cut' = FALSE
          /\ UNCHANGED <<op, seen, crashes>>
      BY <1>8 DEF Truncate, Goto
    <2>2. \A d \in Clients : pc[d] = "write" => d = c
      BY <2>1, Alone
    <2>3. file' \in File
      BY <2>1 DEF File
    <2>. QED  BY <1>0, <2>1, <2>2, <2>3 DEF FileInv
  <1>9. ASSUME NEW c \in Clients, Fill(c) PROVE FileInv'
    <2>1. /\ c \in Rd \cup Wr /\ pc[c] = "writing" /\ Release(c, "idle") /\ Forget(c)
          /\ file' = IF file = Nobody THEN Nobody ELSE [holds |-> seen[c], whole |-> TRUE]
          /\ UNCHANGED <<cut, crashes>>
      BY <1>9 DEF Fill, Return, Wr
    <2>2. pc'[c] = "idle"
      BY <2>1, ReleaseWakes
    <2>3. \A d \in Clients : pc[d] = "write" => d = c
      BY <2>1, Alone
    <2>4. file' \in File \cup {Nobody} /\ (file' # Nobody => file'.whole)
      BY <2>1 DEF File, FileInv
    <2>. QED  BY <2>1, <2>2, <2>3, <2>4, OthersStay DEF FileInv, Forget
  <1>10. ASSUME NEW c \in Clients, FailWrite(c) PROVE FileInv'
    <2>1. /\ c \in Rd \cup Wr /\ pc[c] \in {"write", "writing"}
          /\ Release(c, "idle") /\ Forget(c)
          /\ cut' = (cut \/ (pc[c] = "writing" /\ file # Nobody))
          /\ UNCHANGED <<file, crashes>>
      BY <1>10 DEF FailWrite, Return, Wr
    <2>2. pc'[c] = "idle"
      BY <2>1, ReleaseWakes
    <2>. QED  BY <2>1, <2>2, OthersStay DEF FileInv, Forget
  <1>11. ASSUME NEW c \in Clients, Remove(c) PROVE FileInv'
    BY <1>11 DEF Remove, FileInv
  <1>12. ASSUME Crash PROVE FileInv'
    <2>1. crashes' \in 0..Restarts
      BY <1>12, RestartsAssumption DEF Crash, FileInv
    <2>. QED  BY <1>12, <2>1 DEF Crash, FileInv
  <1>13. CASE UNCHANGED vars
    BY <1>13 DEF vars, FileInv
  <1>. QED  BY <1>1, <1>2, <1>3, <1>4, <1>5, <1>6, <1>7, <1>8, <1>9, <1>10, <1>11, <1>12, <1>13
            DEF Next, Step

LEMMA StoreHolds == Spec => []StoreInv
  <1>1. StoreInv /\ [Next]_vars => StoreInv'
    BY StepKeepsLock, StepKeepsFile DEF StoreInv
  <1>. QED  BY StoreInit, <1>1, PTL DEF Spec

\* Everything the calls, the lock and the file hold keeps its type; the count of
\* readers never falls below zero.
THEOREM StorageType == Spec => []TypeOK
  <1>1. StoreInv => TypeOK
    BY DEF StoreInv, LockInv, FileInv, TypeOK
  <1>. QED  BY <1>1, StoreHolds, PTL

\* A writer is alone with the file, for any number of callers.
THEOREM LockExcludes == Spec => []WriterIsAlone
  <1>1. StoreInv => WriterIsAlone
    BY Alone DEF StoreInv, WriterIsAlone, WritesInside, ReadsInside
  <1>. QED  BY <1>1, StoreHolds, PTL

\* Nobody waits in a lock object that is gone or held by nobody.
THEOREM NobodyIsForgotten == Spec => []WaitersHaveHolder
  <1>1. ASSUME StoreInv PROVE WaitersHaveHolder
    <2>1. SUFFICES ASSUME lock # Nobody \/ \E c \in Clients : pc[c] \in {"waitRead", "waitWrite"}
                   PROVE  lock # Nobody /\ Fits(lock) /\ Rd \cup Wr # {}
      BY DEF WaitersHaveHolder, ReadsInside, WritesInside, Fits, Rd, Wr, RW, WW
    <2>2. lock # Nobody
      <3>1. SUFFICES ASSUME lock = Nobody PROVE FALSE
        OBVIOUS
      <3>2. RW = {} /\ WW = {}
        BY <1>1, <3>1, EmptyMembers DEF StoreInv, LockInv, Fits, Got, Empty
      <3>. QED  BY <2>1, <3>1, <3>2 DEF RW, WW
    <2>. QED  BY <1>1, <2>2 DEF StoreInv, LockInv, Got
  <1>. QED  BY <1>1, StoreHolds, PTL

\* A reader finds an unwhole file only where a call that failed or died left it.
THEOREM ReadsFindWhole == Spec => []ReadsAreWhole
  <1>1. StoreInv => ReadsAreWhole
    BY Alone DEF StoreInv, FileInv, ReadsAreWhole, ReadsInside
  <1>. QED  BY <1>1, StoreHolds, PTL

\* An update replaces the content it changed, for any number of callers.
THEOREM UpdatesLoseNothing == Spec => UpdateBuildsOnFile
  <1>1. StoreInv => \A c \in Clients :
          op[c] = "update" /\ pc[c] = "write" /\ pc'[c] = "writing"
            => file = Nobody \/ seen[c] = file.holds \cup {c}
    BY DEF StoreInv, FileInv
  <1>. QED  BY <1>1, StoreHolds, PTL DEF UpdateBuildsOnFile

-----------------------------------------------------------------------------
(***************************************************************************)
(* The refinement.                                                         *)
(***************************************************************************)
LEMMA InitShared == Init => Shared!Init
  BY DEF Init, Shared!Init, Got, Empty, ReadsInside, WritesInside

LEMMA ReadsAsShared ==
  ASSUME LockInv, NEW c \in Clients, pc[c] = "idle", ReadLock(c)
  PROVE  Shared!Next
  <1>0. /\ pc \in [Clients -> Pcs] /\ Got \in Lock /\ Fits(Got)
    BY DEF LockInv, Fits
  <1>1. Shared!Away(c)
    BY <1>0 DEF Shared!Away, Fits, Members, WW, ReadsInside, WritesInside
  <1>2. CASE ~Got.writer /\ Got.waitingWriters = <<>>
    <2>1. lock' = [Got EXCEPT !.readers = @ + 1] /\ pc' = [pc EXCEPT ![c] = "read"]
      BY <1>2 DEF ReadLock, Goto
    <2>2. Got' = lock' /\ lock'.waitingWriters = Got.waitingWriters
      BY <1>0, <2>1, NobodyIsNoLock, SMTT(30) DEF Got, Lock
    <2>3. Wr = {}
      BY <1>0, <1>2 DEF Fits
    <2>4. Shared!Read(c)
      BY <1>0, <1>1, <1>2, <2>1, <2>2, <2>3 DEF Shared!Read, ReadsInside, WritesInside, Wr
    <2>. QED  BY <2>4 DEF Shared!Next
  <1>3. CASE ~(~Got.writer /\ Got.waitingWriters = <<>>)
    <2>1. /\ lock' = [Got EXCEPT !.waitingReaders = Append(@, c)]
          /\ pc' = [pc EXCEPT ![c] = "waitRead"]
      BY <1>3 DEF ReadLock, Goto
    <2>2. Append(Got.waitingReaders, c) \in Seq(Clients)
      BY <1>0 DEF Lock
    <2>3. Got' = lock' /\ lock'.waitingWriters = Got.waitingWriters
      BY <1>0, <2>1, <2>2, NobodyIsNoLock DEF Got, Lock
    <2>4. Shared!WaitToRead(c)
      BY <1>0, <1>1, <2>1, <2>3 DEF Shared!WaitToRead, ReadsInside, WritesInside
    <2>. QED  BY <2>4 DEF Shared!Next
  <1>. QED  BY <1>2, <1>3

LEMMA WritesAsShared ==
  ASSUME LockInv, NEW c \in Clients, pc[c] \in {"idle", "made"}, NEW o, WriteLock(c, o)
  PROVE  Shared!Next
  <1>0. /\ pc \in [Clients -> Pcs] /\ Got \in Lock /\ Fits(Got)
        /\ Held(o) \in {"load", "write"}
    BY DEF LockInv, Fits, Held
  <1>1. Shared!Away(c)
    BY <1>0 DEF Shared!Away, Fits, Members, WW, ReadsInside, WritesInside
  <1>2. CASE ~Got.writer /\ Got.readers = 0
    <2>1. lock' = [Got EXCEPT !.writer = TRUE] /\ pc' = [pc EXCEPT ![c] = Held(o)]
      BY <1>2 DEF WriteLock, Goto
    <2>2. Got' = lock' /\ lock'.waitingWriters = Got.waitingWriters
      BY <1>0, <2>1, NobodyIsNoLock DEF Got, Lock
    <2>3. Wr = {} /\ Rd = {}
      BY <1>0, <1>2, FS_EmptySet DEF Fits
    <2>4. Shared!Write(c)
      BY <1>0, <1>1, <2>1, <2>2, <2>3 DEF Shared!Write, ReadsInside, WritesInside, Wr, Rd
    <2>. QED  BY <2>4 DEF Shared!Next
  <1>3. CASE ~(~Got.writer /\ Got.readers = 0)
    <2>1. /\ lock' = [Got EXCEPT !.waitingWriters = Append(@, c)]
          /\ pc' = [pc EXCEPT ![c] = "waitWrite"]
      BY <1>3 DEF WriteLock, Goto
    <2>2. Append(Got.waitingWriters, c) \in Seq(Clients)
      BY <1>0 DEF Lock
    <2>3. Got' = lock' /\ lock'.waitingWriters = Append(Got.waitingWriters, c)
      BY <1>0, <2>1, <2>2, NobodyIsNoLock DEF Got, Lock
    <2>4. Shared!WaitToWrite(c)
      BY <1>0, <1>1, <2>1, <2>3 DEF Shared!WaitToWrite, ReadsInside, WritesInside
    <2>. QED  BY <2>4 DEF Shared!Next
  <1>. QED  BY <1>2, <1>3

LEMMA LeavesAsShared ==
  ASSUME NEW c \in Clients, c \in Rd \cup Wr, HandedOn(c)
  PROVE  Shared!Next
  <1>1. Shared!Leave(c)
    BY DEF HandedOn, Shared!Leave, ReadsInside, WritesInside, Rd, Wr, RW
  <1>. QED  BY <1>1 DEF Shared!Next

LEMMA StepIsShared ==
  ASSUME StoreInv, [Next]_vars
  PROVE  [Shared!Next]_Shared!vars
  <1>. USE DEF StoreInv
  <1>0. pc \in [Clients -> Pcs]
    BY DEF LockInv
  <1>1. ASSUME NEW c \in Clients, StartRead(c) PROVE Shared!Next
    BY <1>1, ReadsAsShared DEF StartRead
  <1>2. ASSUME NEW c \in Clients, StartWrite(c) PROVE Shared!Next
    BY <1>2, WritesAsShared DEF StartWrite
  <1>3. ASSUME NEW c \in Clients, WriteMade(c) PROVE Shared!Next
    BY <1>3, WritesAsShared DEF WriteMade
  <1>4. ASSUME NEW c \in Clients, EndRead(c) PROVE Shared!Next
    <2>1. c \in Rd \cup Wr
      BY <1>4 DEF EndRead, Rd
    <2>2. Release(c, "made") \/ Release(c, "idle")
      BY <1>4 DEF EndRead, Return
    <2>. QED  BY <2>1, <2>2, ReleaseKeeps, LeavesAsShared
  <1>5. ASSUME NEW c \in Clients, FailLoad(c) \/ Fill(c) \/ FailWrite(c) PROVE Shared!Next
    <2>1. c \in Rd \cup Wr /\ Release(c, "idle")
      BY <1>5 DEF FailLoad, Fill, FailWrite, Return, Wr
    <2>. QED  BY <2>1, ReleaseKeeps, LeavesAsShared
  <1>6. ASSUME NEW c \in Clients, DropMade(c) \/ Load(c) \/ Truncate(c)
        PROVE  UNCHANGED Shared!vars
    <2>1. /\ Got' = Got
          /\ Rd' = Rd /\ Wr' = Wr /\ RW' = RW
      <3>1. CASE DropMade(c)
        BY <1>0, <3>1 DEF DropMade, Goto, Got, Rd, Wr, RW
      <3>2. CASE Load(c)
        BY <1>0, <3>2 DEF Load, Goto, Got, Rd, Wr, RW
      <3>3. CASE Truncate(c)
        BY <1>0, <3>3 DEF Truncate, Goto, Got, Rd, Wr, RW
      <3>. QED  BY <1>6, <3>1, <3>2, <3>3
    <2>. QED  BY <2>1 DEF Shared!vars, ReadsInside, WritesInside, Rd, Wr, RW
  <1>7. ASSUME NEW c \in Clients, Remove(c) PROVE UNCHANGED Shared!vars
    BY <1>7 DEF Remove, Shared!vars, Got, ReadsInside, WritesInside
  <1>8. ASSUME Crash PROVE Shared!Next
    <2>1. Shared!Crash
      BY <1>8 DEF Crash, Shared!Crash, Got, Empty, ReadsInside, WritesInside
    <2>. QED  BY <2>1 DEF Shared!Next
  <1>9. CASE UNCHANGED vars
    BY <1>9 DEF vars, Shared!vars, Got, ReadsInside, WritesInside
  <1>. QED  BY <1>1, <1>2, <1>3, <1>4, <1>5, <1>6, <1>7, <1>8, <1>9 DEF Next, Step

\* The lock object implements the abstract lock, for any number of callers.
THEOREM LockRefines == Spec => LockIsShared
  BY InitShared, StepIsShared, StoreHolds, PTL DEF Spec, LockIsShared, Shared!Spec
=============================================================================
