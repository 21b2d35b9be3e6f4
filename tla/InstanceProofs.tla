---------------------------- MODULE InstanceProofs ----------------------------
(***************************************************************************)
(* Proofs about Instance, for any directories, requests and kinds of state *)
(* and any bound on the configuration: its type invariant, what the cache  *)
(* holds, that every state is disposed of once, and that a pass leaves     *)
(* nothing stale.                                                          *)
(***************************************************************************)
EXTENDS Instance, TLAPS

\* A process inside State.dispose.
Disposer(p) == pc[p] \in {"dispose", "reload"}

\* What a place of a process says of its other variables.
PlacesOK ==
  /\ \A p \in Procs : pc[p] \in {"boot", "inside", "dispose", "reload", "reboot"}
                        => at[p].boot # 0
  /\ \A p \in Procs : Disposer(p) => at[p].map # 0
  /\ \A p \in Procs : tasks[p] # {} => Disposer(p)
  /\ pc[Pass] \in {"new", "walk", "boot", "dispose"}
  /\ \A r \in Requests : pc[r] # "walk"

TypedInv == TypeOK /\ PlacesOK

(***************************************************************************)
(* Sequences and places.                                                   *)
(***************************************************************************)
LEMMA AppendAt ==
  ASSUME NEW S, NEW s \in Seq(S), NEW x \in S
  PROVE  /\ Append(s, x) \in Seq(S)
         /\ Len(Append(s, x)) = Len(s) + 1
         /\ Append(s, x)[Len(s) + 1] = x
         /\ \A i \in 1..Len(s) : Append(s, x)[i] = s[i]
OBVIOUS

LEMMA ReplaceAt ==
  ASSUME NEW S, NEW s \in Seq(S), NEW i \in 1..Len(s), NEW x \in S
  PROVE  /\ [s EXCEPT ![i] = x] \in Seq(S)
         /\ Len([s EXCEPT ![i] = x]) = Len(s)
         /\ [s EXCEPT ![i] = x][i] = x
         /\ \A j \in 1..Len(s) : j # i => [s EXCEPT ![i] = x][j] = s[j]
OBVIOUS

LEMMA EntryTyped ==
  ASSUME NEW S, NEW s \in Seq(S), NEW i \in 1..Len(s)
  PROVE  s[i] \in S
OBVIOUS

\* A process that is somewhere is there for an instance of some directory.
LEMMA PlaceTyped ==
  ASSUME TypedInv, NEW p \in Procs,
         pc[p] \in {"boot", "inside", "dispose", "reload", "reboot"}
  PROVE  /\ at[p].boot \in 1..Len(boots)
         /\ boots[at[p].boot] \in Boot
         /\ DirOf(at[p].boot) = boots[at[p].boot].dir
         /\ DirOf(at[p].boot) \in Dirs
<1>1. at[p].boot \in 0..Len(boots) /\ at[p].boot # 0 /\ Len(boots) \in Nat
  BY DEF TypedInv, TypeOK, PlacesOK
<1>2. at[p].boot \in 1..Len(boots)
  BY <1>1
<1>3. boots[at[p].boot] \in Boot
  BY <1>2, EntryTyped DEF TypedInv, TypeOK
<1> QED
  BY <1>1, <1>2, <1>3 DEF Boot, DirOf

LEMMA BootTyped ==
  ASSUME TypedInv, NEW g \in 1..Len(boots)
  PROVE  /\ boots[g] \in Boot
         /\ DirOf(g) = boots[g].dir
         /\ DirOf(g) \in Dirs
<1>1. boots[g] \in Boot /\ Len(boots) \in Nat
  BY EntryTyped DEF TypedInv, TypeOK
<1> QED
  BY <1>1 DEF Boot, DirOf

\* The map of a directory, where it has one, is one of the maps.
LEMMA RecordTyped ==
  ASSUME TypedInv, NEW d \in Dirs, records[d] # 0
  PROVE  records[d] \in 1..Len(maps) /\ maps[records[d]] \in Map
<1>1. records[d] \in 0..Len(maps) /\ Len(maps) \in Nat
  BY DEF TypedInv, TypeOK
<1> QED
  BY <1>1, EntryTyped DEF TypedInv, TypeOK

\* And so is the map that a process disposes of.
LEMMA DisposerTyped ==
  ASSUME TypedInv, NEW p \in Procs, Disposer(p)
  PROVE  at[p].map \in 1..Len(maps) /\ maps[at[p].map] \in Map
<1>1. at[p].map \in 0..Len(maps) /\ at[p].map # 0 /\ Len(maps) \in Nat
  BY DEF TypedInv, TypeOK, PlacesOK
<1> QED
  BY <1>1, EntryTyped DEF TypedInv, TypeOK

LEMMA NewMapTyped == ASSUME NEW d \in Dirs PROVE NewMap(d) \in Map
<1>1. 0 \in 0..MaxConfig
  BY BoundAssumption
<1> QED
  BY <1>1 DEF NewMap, Map

LEMMA CurrentTyped == ASSUME TypedInv, NEW d \in Dirs PROVE Current(d) \in Map
BY RecordTyped, NewMapTyped DEF Current

(***************************************************************************)
(* What the parts of the actions do.                                       *)
(***************************************************************************)
\* Storing m: the map of d becomes m, a new one if it had none.
LEMMA StoreDoes ==
  ASSUME TypedInv, NEW d \in Dirs, NEW m \in Map, Store(d, m)
  PROVE  /\ maps' \in Seq(Map)
         /\ records' \in [Dirs -> 0..Len(maps')]
         /\ Len(maps') \in Nat /\ Len(maps) \in Nat /\ Len(maps) <= Len(maps')
         /\ Len(maps') <= Len(maps) + 1
         /\ records'[d] \in 1..Len(maps') /\ maps'[records'[d]] = m
         /\ \A e \in Dirs : e # d => records'[e] = records[e]
         /\ \A i \in 1..Len(maps) : i # records[d] => maps'[i] = maps[i]
         /\ records[d] # 0 => records'[d] = records[d] /\ Len(maps') = Len(maps)
         /\ records[d] = 0 => records'[d] = Len(maps) + 1
<1>1. maps \in Seq(Map) /\ records \in [Dirs -> 0..Len(maps)] /\ Len(maps) \in Nat
  BY DEF TypedInv, TypeOK
<1>2. CASE records[d] = 0
  <2>1. maps' = Append(maps, m) /\ records' = [records EXCEPT ![d] = Len(maps) + 1]
    BY <1>2 DEF Store
  <2>2. /\ maps' \in Seq(Map) /\ Len(maps') = Len(maps) + 1
        /\ maps'[Len(maps) + 1] = m
        /\ \A i \in 1..Len(maps) : maps'[i] = maps[i]
    BY <2>1, <1>1, AppendAt
  <2> QED
    BY <1>1, <1>2, <2>1, <2>2
<1>3. CASE records[d] # 0
  <2>1. maps' = [maps EXCEPT ![records[d]] = m] /\ records' = records
    BY <1>3 DEF Store
  <2>2. records[d] \in 1..Len(maps)
    BY <1>3, RecordTyped
  <2>3. /\ maps' \in Seq(Map) /\ Len(maps') = Len(maps)
        /\ maps'[records[d]] = m
        /\ \A i \in 1..Len(maps) : i # records[d] => maps'[i] = maps[i]
    BY <2>1, <2>2, <1>1, ReplaceAt
  <2> QED
    BY <1>1, <1>3, <2>1, <2>2, <2>3
<1> QED
  BY <1>2, <1>3

\* Using a state of d: what of its map can change, and how.
Uses(d, m) ==
  LET c == Current(d)
  IN /\ m.dir = c.dir /\ m.runs = c.runs /\ m.shared = c.shared
     /\ m.config \in {c.config, config}
     /\ \/ m.made \ m.late \subseteq c.made \ c.late
        \/ Disposing(d) = {}

LEMMA UseDoes ==
  ASSUME TypedInv, NEW d \in Dirs, UseState(d)
  PROVE  /\ \E m \in Map : Store(d, m) /\ Uses(d, m)
         /\ UNCHANGED <<cache, boots, pc, at, tasks, todo, config, writer, cover>>
<1> DEFINE c == Current(d)
<1>1. c \in Map
  BY CurrentTyped
<1>2. CASE ReadConfig(d)
  <2> DEFINE m == [c EXCEPT !.config = config]
  <2>1. config \in 0..MaxConfig
    BY BoundAssumption DEF TypedInv, TypeOK
  <2>2. m \in Map /\ Uses(d, m)
    BY <1>1, <2>1 DEF Map, Uses
  <2> QED
    BY <1>2, <2>2 DEF ReadConfig
<1>3. ASSUME NEW k \in Kinds, Use(d, k)
      PROVE  /\ \E m \in Map : Store(d, m) /\ Uses(d, m)
             /\ UNCHANGED <<cache, boots, pc, at, tasks, todo, config, writer, cover>>
  <2> DEFINE m == [c EXCEPT !.made = @ \cup {k},
                     !.late = IF Disposing(d) = {} THEN @ ELSE @ \cup {k}]
  <2>1. m \in Map /\ Uses(d, m)
    BY <1>1 DEF Map, Uses
  <2>2. Store(d, m)
    BY <1>3 DEF Use
  <2> QED
    BY <1>3, <2>1, <2>2 DEF Use
<1> QED
  BY <1>2, <1>3 DEF UseState

\* A new boot of d, for p.
LEMMA TrackDoes ==
  ASSUME TypedInv, NEW p \in Procs, NEW d \in Dirs, Track(p, d)
  PROVE  /\ boots' \in Seq(Boot) /\ Len(boots') = Len(boots) + 1 /\ Len(boots) \in Nat
         /\ \A i \in 1..Len(boots) : boots'[i] = boots[i]
         /\ boots'[Len(boots')] = [dir |-> d, status |-> "booting"]
         /\ cache' \in [Dirs -> 0..Len(boots')]
         /\ cache'[d] = Len(boots')
         /\ \A e \in Dirs : e # d => cache'[e] = cache[e]
         /\ at' \in [Procs -> [boot : 0..Len(boots'), map : 0..Len(maps)]]
         /\ at'[p].boot = Len(boots') /\ at'[p].boot # 0 /\ at'[p].map = 0
         /\ \A q \in Procs : q # p => at'[q] = at[q]
<1>1. /\ boots \in Seq(Boot) /\ Len(boots) \in Nat /\ cache \in [Dirs -> 0..Len(boots)]
      /\ at \in [Procs -> [boot : 0..Len(boots), map : 0..Len(maps)]]
      /\ Len(maps) \in Nat
  BY DEF TypedInv, TypeOK
<1>2. [dir |-> d, status |-> "booting"] \in Boot
  BY DEF Boot
<1>3. boots' = Append(boots, [dir |-> d, status |-> "booting"])
  BY DEF Track
<1>4. /\ boots' \in Seq(Boot) /\ Len(boots') = Len(boots) + 1
      /\ boots'[Len(boots) + 1] = [dir |-> d, status |-> "booting"]
      /\ \A i \in 1..Len(boots) : boots'[i] = boots[i]
  BY <1>1, <1>2, <1>3, AppendAt
<1>5. /\ cache' = [cache EXCEPT ![d] = Len(boots) + 1]
      /\ at' = [at EXCEPT ![p] = [boot |-> Len(boots) + 1, map |-> 0]]
  BY DEF Track
<1>6. cache' \in [Dirs -> 0..Len(boots')]
  BY <1>1, <1>4, <1>5
<1>7. at' \in [Procs -> [boot : 0..Len(boots'), map : 0..Len(maps)]]
  BY <1>1, <1>4, <1>5
<1>8. at'[p] = [boot |-> Len(boots'), map |-> 0] /\ \A q \in Procs : q # p => at'[q] = at[q]
  BY <1>1, <1>4, <1>5
<1>9. Len(boots') # 0
  BY <1>1, <1>4
<1> QED
  BY <1>1, <1>4, <1>5, <1>6, <1>7, <1>8, <1>9

(***************************************************************************)
(* The type invariant.                                                     *)
(***************************************************************************)
LEMMA TypedInit == Init => TypedInv
<1> SUFFICES ASSUME Init PROVE TypedInv
  OBVIOUS
<1>1. boots \in Seq(Boot) /\ maps \in Seq(Map) /\ Len(boots) = 0 /\ Len(maps) = 0
  BY DEF Init
<1>2. config \in 1..MaxConfig /\ 0 \in 0..MaxConfig
  BY BoundAssumption DEF Init
<1>3. TypeOK
  BY <1>1, <1>2 DEF Init, TypeOK, Nowhere
<1> QED
  BY <1>3, PassAssumption DEF Init, TypedInv, PlacesOK, Procs, Disposer

LEMMA UseTyped ==
  ASSUME TypedInv, NEW d \in Dirs, UseState(d)
  PROVE  TypedInv'
<1>1. PICK m \in Map : Store(d, m)
  BY UseDoes
<1>2. UNCHANGED <<cache, boots, pc, at, tasks, todo, config, writer, cover>>
  BY UseDoes
<1>3. /\ maps' \in Seq(Map)
      /\ records' \in [Dirs -> 0..Len(maps')]
      /\ Len(maps') \in Nat /\ Len(maps) \in Nat /\ Len(maps) <= Len(maps')
  BY <1>1, StoreDoes
<1>4. at \in [Procs -> [boot : 0..Len(boots), map : 0..Len(maps')]]
  BY <1>3 DEF TypedInv, TypeOK
<1>5. TypeOK'
  BY <1>2, <1>3, <1>4 DEF TypedInv, TypeOK
<1>6. PlacesOK'
  BY <1>2 DEF TypedInv, PlacesOK, Disposer
<1> QED
  BY <1>5, <1>6 DEF TypedInv

\* A promise that settles.
LEMMA SettledDoes ==
  ASSUME TypedInv, NEW g \in 1..Len(boots), NEW ok \in BOOLEAN, Settled(g, ok)
  PROVE  /\ boots' \in Seq(Boot) /\ Len(boots') = Len(boots) /\ Len(boots) \in Nat
         /\ boots[g].status = "booting"
         /\ boots'[g].status = IF ok THEN "ready" ELSE "failed"
         /\ \A i \in 1..Len(boots) : i # g => boots'[i] = boots[i]
         /\ \A i \in 1..Len(boots) : boots'[i].dir = boots[i].dir
<1>1. boots \in Seq(Boot) /\ Len(boots) \in Nat
  BY DEF TypedInv, TypeOK
<1> DEFINE b == [boots[g] EXCEPT !.status = IF ok THEN "ready" ELSE "failed"]
<1>2. boots[g] \in Boot
  BY BootTyped
<1>3. b \in Boot /\ b = [dir |-> boots[g].dir, status |-> IF ok THEN "ready" ELSE "failed"]
  BY <1>2 DEF Boot
<1>4. boots' = [boots EXCEPT ![g] = b] /\ boots[g].status = "booting"
  BY DEF Settled
<1> HIDE DEF b
<1>5. /\ boots' \in Seq(Boot) /\ Len(boots') = Len(boots)
      /\ boots'[g] = b
      /\ \A i \in 1..Len(boots) : i # g => boots'[i] = boots[i]
  BY <1>1, <1>3, <1>4, ReplaceAt
<1> QED
  BY <1>1, <1>3, <1>4, <1>5

\* Who it moves: requests that wait, and nobody who disposes.
LEMMA SettledMoves ==
  ASSUME TypedInv, NEW g \in 1..Len(boots), NEW ok \in BOOLEAN, Settled(g, ok)
  PROVE  /\ pc' \in [Procs -> {"new", "boot", "inside", "dispose", "reload", "reboot",
                               "walk", "done"}]
         /\ at' \in [Procs -> [boot : 0..Len(boots), map : 0..Len(maps)]]
         /\ \A p \in Procs :
              \/ pc'[p] = pc[p] /\ at'[p] = at[p]
              \/ /\ p \in Requests /\ pc[p] = "boot"
                 /\ pc'[p] = "inside" /\ at'[p] = at[p]
              \/ /\ p \in Requests /\ pc[p] \in {"boot", "reboot"}
                 /\ pc'[p] = "done" /\ at'[p] = Nowhere
<1> DEFINE waits(p) == p \in Requests /\ at[p].boot = g
           enters(p) == waits(p) /\ pc[p] = "boot" /\ ok
           ends(p) == waits(p) /\ (pc[p] = "reboot" \/ (pc[p] = "boot" /\ ~ok))
<1>1. /\ pc' = [p \in Procs |->
                 IF enters(p) THEN "inside" ELSE IF ends(p) THEN "done" ELSE pc[p]]
      /\ at' = [p \in Procs |-> IF ends(p) THEN Nowhere ELSE at[p]]
  BY DEF Settled
<1>2. Nowhere \in [boot : 0..Len(boots), map : 0..Len(maps)]
  BY DEF TypedInv, TypeOK, Nowhere
<1>3. /\ pc \in [Procs -> {"new", "boot", "inside", "dispose", "reload", "reboot",
                           "walk", "done"}]
      /\ at \in [Procs -> [boot : 0..Len(boots), map : 0..Len(maps)]]
  BY DEF TypedInv, TypeOK
<1> QED
  BY <1>1, <1>2, <1>3

LEMMA SettledTyped ==
  ASSUME TypedInv, NEW g \in 1..Len(boots), NEW ok \in BOOLEAN, Settled(g, ok),
         cache' \in [Dirs -> 0..Len(boots)]
  PROVE  TypedInv'
<1>1. boots' \in Seq(Boot) /\ Len(boots') = Len(boots)
  BY SettledDoes
<1>2. UNCHANGED <<records, maps, tasks, todo, config, writer, cover>>
  BY DEF Settled
<1>3. /\ pc' \in [Procs -> {"new", "boot", "inside", "dispose", "reload", "reboot",
                            "walk", "done"}]
      /\ at' \in [Procs -> [boot : 0..Len(boots), map : 0..Len(maps)]]
  BY SettledMoves
<1>4. TypeOK'
  BY <1>1, <1>2, <1>3 DEF TypedInv, TypeOK
<1>5. PlacesOK'
  BY <1>2, SettledMoves, PassAssumption DEF TypedInv, PlacesOK, Disposer, Procs
<1> QED
  BY <1>4, <1>5 DEF TypedInv

\* BootFails takes g out of the cache.
LEMMA FailsTyped ==
  ASSUME TypedInv, NEW g \in 1..Len(boots), BootFails(g)
  PROVE  /\ Settled(g, FALSE)
         /\ cache' \in [Dirs -> 0..Len(boots)]
         /\ \A d \in Dirs : d # boots[g].dir => cache'[d] = cache[d]
         /\ cache'[boots[g].dir] = IF cache[boots[g].dir] = g THEN 0
                                   ELSE cache[boots[g].dir]
<1>1. DirOf(g) = boots[g].dir /\ boots[g].dir \in Dirs
  BY BootTyped
<1>2. cache \in [Dirs -> 0..Len(boots)] /\ Len(boots) \in Nat
  BY DEF TypedInv, TypeOK
<1> DEFINE e == boots[g].dir
           i == IF cache[e] = g THEN 0 ELSE cache[e]
<1>3. Settled(g, FALSE) /\ cache' = [cache EXCEPT ![e] = i]
  BY <1>1 DEF BootFails
<1>4. e \in Dirs /\ i \in 0..Len(boots)
  BY <1>1, <1>2
<1>5. /\ cache' \in [Dirs -> 0..Len(boots)]
      /\ \A d \in Dirs : d # e => cache'[d] = cache[d]
      /\ cache'[e] = i
  <2> HIDE DEF e, i
  <2> QED
    BY <1>2, <1>3, <1>4
<1> QED
  BY <1>3, <1>5

LEMMA ProvideTyped ==
  ASSUME TypedInv, NEW r \in Requests, NEW d \in Dirs, Provide(r, d)
  PROVE  TypedInv'
<1>1. r \in Procs /\ r # Pass /\ Len(boots) \in Nat
  BY PassAssumption DEF Procs, TypedInv, TypeOK
<1>2. UNCHANGED <<records, maps, tasks, todo, config, writer, cover>>
  BY DEF Provide
<1>3. CASE cache[d] = 0
  <2>1. Track(r, d) /\ pc' = [pc EXCEPT ![r] = "boot"] /\ pc[r] = "new"
    BY <1>3 DEF Provide, Goto
  <2>2. TypeOK'
    <3>1. /\ boots' \in Seq(Boot) /\ Len(boots') = Len(boots) + 1
          /\ cache' \in [Dirs -> 0..Len(boots')]
          /\ at' \in [Procs -> [boot : 0..Len(boots'), map : 0..Len(maps)]]
      BY <2>1, <1>1, TrackDoes
    <3>2. 1..Len(boots) \subseteq 1..Len(boots')
      BY <3>1, <1>1
    <3> QED
      BY <1>1, <1>2, <2>1, <3>1, <3>2 DEF TypedInv, TypeOK
  <2>3. PlacesOK'
    <3>1. /\ at'[r].boot # 0
          /\ \A q \in Procs : q # r => at'[q] = at[q]
      BY <2>1, <1>1, TrackDoes
    <3> QED
      BY <1>1, <1>2, <2>1, <3>1 DEF TypedInv, TypeOK, PlacesOK, Disposer
  <2> QED
    BY <2>2, <2>3 DEF TypedInv
<1>4. CASE cache[d] # 0
  <2>1. /\ at' = [at EXCEPT ![r].boot = cache[d]] /\ pc[r] = "new"
        /\ \E l \in {"boot", "inside"} : pc' = [pc EXCEPT ![r] = l]
        /\ UNCHANGED <<boots, cache>>
    BY <1>4 DEF Provide, Goto
  <2>2. cache[d] \in 0..Len(boots)
    BY DEF TypedInv, TypeOK
  <2>3. TypeOK'
    BY <1>1, <1>2, <2>1, <2>2, ZenonT(40) DEF TypedInv, TypeOK
  <2>4. PlacesOK'
    BY <1>1, <1>2, <1>4, <2>1 DEF TypedInv, TypeOK, PlacesOK, Disposer
  <2> QED
    BY <2>3, <2>4 DEF TypedInv
<1> QED
  BY <1>3, <1>4

(***************************************************************************)
(* A disposal: p, which is in the instance of d, calls State.dispose and   *)
(* comes back at once (Disposed) or stays in it (StateDispose).            *)
(***************************************************************************)
InRole(p, l) == l \in {"dispose", "reload"} /\ (p = Pass => l = "dispose")

LEMMA EnterDoes ==
  ASSUME TypedInv, NEW p \in Procs, NEW d \in Dirs, NEW l \in {"dispose", "reload"},
         records[d] # 0, StateDispose(p, d, l)
  PROVE  /\ pc' = [pc EXCEPT ![p] = l]
         /\ at' \in [Procs -> [boot : 0..Len(boots), map : 0..Len(maps)]]
         /\ at'[p].boot = at[p].boot /\ at'[p].map = records[d]
         /\ \A q \in Procs : q # p => at'[q] = at[q]
         /\ tasks' = [tasks EXCEPT ![p] = maps[records[d]].made]
         /\ tasks' \in [Procs -> SUBSET Kinds]
         /\ maps' \in Seq(Map) /\ Len(maps') = Len(maps)
         /\ \A i \in 1..Len(maps) : i # records[d] => maps'[i] = maps[i]
         /\ maps'[records[d]].dir = maps[records[d]].dir
         /\ maps'[records[d]].config = maps[records[d]].config
         /\ maps'[records[d]].made = maps[records[d]].made
         /\ maps'[records[d]].late = maps[records[d]].late
         /\ maps'[records[d]].runs = maps[records[d]].runs
         /\ maps'[records[d]].shared \/ maps'[records[d]] = maps[records[d]]
         /\ (\E q \in Disposing(d) : at[q].map = records[d]) => maps'[records[d]].shared
         /\ UNCHANGED <<boots, cache>>
<1> DEFINE m == records[d]
           twice == \E q \in Disposing(d) : at[q].map = m
<1>1. m \in 1..Len(maps) /\ maps[m] \in Map /\ Len(maps) \in Nat
  BY RecordTyped DEF TypedInv, TypeOK
<1>2. /\ pc' = [pc EXCEPT ![p] = l]
      /\ at' = [at EXCEPT ![p].map = m]
      /\ tasks' = [tasks EXCEPT ![p] = maps[m].made]
      /\ maps' = IF twice THEN [maps EXCEPT ![m].shared = TRUE] ELSE maps
      /\ UNCHANGED <<boots, cache>>
  BY DEF StateDispose, Goto
<1>3. /\ at \in [Procs -> [boot : 0..Len(boots), map : 0..Len(maps)]]
      /\ tasks \in [Procs -> SUBSET Kinds]
      /\ maps \in Seq(Map)
  BY DEF TypedInv, TypeOK
<1>4. maps[m].made \in SUBSET Kinds /\ maps[m].shared \in BOOLEAN
  BY <1>1 DEF Map
<1> DEFINE x == [maps[m] EXCEPT !.shared = TRUE]
<1>5. x \in Map
  BY <1>1 DEF Map
<1>6. /\ maps' \in Seq(Map) /\ Len(maps') = Len(maps)
      /\ \A i \in 1..Len(maps) : i # m => maps'[i] = maps[i]
      /\ \/ maps'[m] = x
         \/ ~twice /\ maps'[m] = maps[m]
  <2>1. CASE twice
    <3>1. maps' = [maps EXCEPT ![m] = x]
      BY <1>2, <2>1
    <3> HIDE DEF x, m
    <3> QED
      BY <1>1, <1>3, <1>5, <3>1, ReplaceAt
  <2>2. CASE ~twice
    BY <2>2, <1>2, <1>3
  <2> QED
    BY <2>1, <2>2
<1>7. m \in 0..Len(maps)
  BY <1>1
<1>8. /\ at' \in [Procs -> [boot : 0..Len(boots), map : 0..Len(maps)]]
      /\ at'[p].boot = at[p].boot /\ at'[p].map = m
      /\ \A q \in Procs : q # p => at'[q] = at[q]
  <2> HIDE DEF m, twice, x
  <2>1. at' = [at EXCEPT ![p].map = m]
    BY <1>2
  <2> QED
    BY <2>1, <1>3, <1>7
<1>9. tasks' \in [Procs -> SUBSET Kinds]
  BY <1>2, <1>3, <1>4
<1>10. /\ x.dir = maps[m].dir /\ x.config = maps[m].config /\ x.made = maps[m].made
       /\ x.late = maps[m].late /\ x.runs = maps[m].runs /\ x.shared
  BY <1>1 DEF Map
<1> HIDE DEF x
<1>11. /\ maps'[m].dir = maps[m].dir /\ maps'[m].config = maps[m].config
       /\ maps'[m].made = maps[m].made /\ maps'[m].late = maps[m].late
       /\ maps'[m].runs = maps[m].runs
       /\ maps'[m].shared \/ maps'[m] = maps[m]
       /\ twice => maps'[m].shared
  BY <1>6, <1>10
<1> QED
  BY <1>2, <1>6, <1>8, <1>9, <1>11

LEMMA EnterTyped ==
  ASSUME TypedInv, NEW p \in Procs, NEW d \in Dirs, NEW l, InRole(p, l),
         records[d] # 0, StateDispose(p, d, l), at[p].boot # 0,
         UNCHANGED <<records, todo, config, writer, cover>>
  PROVE  TypedInv'
<1>1. l \in {"dispose", "reload"}
  BY DEF InRole
<1>2. /\ pc' = [pc EXCEPT ![p] = l]
      /\ at' \in [Procs -> [boot : 0..Len(boots), map : 0..Len(maps)]]
      /\ at'[p].boot = at[p].boot /\ at'[p].map = records[d]
      /\ \A q \in Procs : q # p => at'[q] = at[q]
      /\ tasks' = [tasks EXCEPT ![p] = maps[records[d]].made]
      /\ tasks' \in [Procs -> SUBSET Kinds]
      /\ maps' \in Seq(Map) /\ Len(maps') = Len(maps)
      /\ UNCHANGED <<boots, cache>>
  BY <1>1, EnterDoes
<1>3. TypeOK'
  BY <1>1, <1>2 DEF TypedInv, TypeOK
<1>4. pc \in [Procs -> {"new", "boot", "inside", "dispose", "reload", "reboot", "walk", "done"}]
      /\ tasks \in [Procs -> SUBSET Kinds] /\ Pass \in Procs
  BY DEF TypedInv, TypeOK, Procs
<1>5. PlacesOK'
  BY <1>1, <1>2, <1>4 DEF TypedInv, PlacesOK, Disposer, InRole
<1> QED
  BY <1>3, <1>5 DEF TypedInv

\* The instance leaves the cache, or is booted anew for a request that reloads.
LEMMA DisposedTyped ==
  ASSUME TypedInv, NEW p \in Procs, NEW d \in Dirs, NEW l, InRole(p, l),
         Disposed(p, d, l), tasks[p] = {},
         maps' \in Seq(Map), Len(maps') = Len(maps),
         records' \in [Dirs -> 0..Len(maps)],
         UNCHANGED <<tasks, todo, config, writer, cover>>
  PROVE  TypedInv'
<1>1. /\ Len(boots) \in Nat /\ Pass \in Procs /\ p \in Requests \cup {Pass}
      /\ cache \in [Dirs -> 0..Len(boots)]
      /\ at \in [Procs -> [boot : 0..Len(boots), map : 0..Len(maps)]]
      /\ pc \in [Procs -> {"new", "boot", "inside", "dispose", "reload", "reboot", "walk", "done"}]
  BY DEF TypedInv, TypeOK, Procs
<1>2. CASE l = "reload"
  <2>1. Track(p, d) /\ pc' = [pc EXCEPT ![p] = "reboot"] /\ p # Pass
    BY <1>2 DEF Disposed, Goto, InRole
  <2>2. /\ boots' \in Seq(Boot) /\ Len(boots') = Len(boots) + 1
        /\ cache' \in [Dirs -> 0..Len(boots')]
        /\ at' \in [Procs -> [boot : 0..Len(boots'), map : 0..Len(maps)]]
        /\ at'[p].boot # 0
        /\ \A q \in Procs : q # p => at'[q] = at[q]
    BY <2>1, TrackDoes
  <2>3. 1..Len(boots) \subseteq 1..Len(boots')
    BY <2>2, <1>1
  <2>4. TypeOK'
    BY <1>1, <2>1, <2>2, <2>3 DEF TypedInv, TypeOK
  <2>5. PlacesOK'
    BY <1>1, <2>1, <2>2 DEF TypedInv, PlacesOK, Disposer, Procs
  <2> QED
    BY <2>4, <2>5 DEF TypedInv
<1>3. CASE l # "reload"
  <2>1. /\ cache' = [cache EXCEPT ![d] = 0]
        /\ pc' = [pc EXCEPT ![p] = IF p = Pass THEN "walk" ELSE "done"]
        /\ at' = [at EXCEPT ![p] = Nowhere]
        /\ UNCHANGED boots
    BY <1>3 DEF Disposed, Done, Goto
  <2>2. Nowhere \in [boot : 0..Len(boots), map : 0..Len(maps)]
    BY <1>1 DEF Nowhere, TypedInv, TypeOK
  <2>3. cache' \in [Dirs -> 0..Len(boots)]
    BY <1>1, <2>1
  <2>4. at' \in [Procs -> [boot : 0..Len(boots), map : 0..Len(maps)]]
    BY <1>1, <2>1, <2>2
  <2>5. TypeOK'
    BY <1>1, <2>1, <2>3, <2>4 DEF TypedInv, TypeOK
  <2>6. PlacesOK'
    BY <1>1, <2>1, PassAssumption DEF TypedInv, PlacesOK, Disposer
  <2> QED
    BY <2>5, <2>6 DEF TypedInv
<1> QED
  BY <1>2, <1>3

\* A dispose function runs.
LEMMA TaskDoes ==
  ASSUME TypedInv, NEW p \in Procs, Task(p)
  PROVE  /\ Disposer(p)
         /\ maps' \in Seq(Map) /\ Len(maps') = Len(maps)
         /\ \A i \in 1..Len(maps) : i # at[p].map => maps'[i] = maps[i]
         /\ \E k \in tasks[p] :
              /\ tasks' = [tasks EXCEPT ![p] = @ \ {k}]
              /\ LET m == maps[at[p].map]
                     n == maps'[at[p].map]
                 IN /\ n.dir = m.dir /\ n.config = m.config /\ n.made = m.made
                    /\ n.late = m.late /\ n.shared = m.shared
                    /\ n.runs[k] = m.runs[k] + 1
                    /\ \A j \in Kinds : j # k => n.runs[j] = m.runs[j]
         /\ UNCHANGED <<cache, boots, records, pc, at, todo, config, writer, cover>>
<1> DEFINE i == at[p].map
<1>1. PICK k \in tasks[p] :
        /\ tasks' = [tasks EXCEPT ![p] = @ \ {k}]
        /\ maps' = [maps EXCEPT ![i].runs[k] = @ + 1]
        /\ UNCHANGED <<cache, boots, records, pc, at, todo, config, writer, cover>>
  BY DEF Task
<1>2. Disposer(p)
  BY <1>1 DEF TypedInv, PlacesOK
<1>3. i \in 1..Len(maps) /\ maps[i] \in Map /\ maps \in Seq(Map) /\ k \in Kinds
  BY <1>1, <1>2, DisposerTyped DEF TypedInv, TypeOK
<1> DEFINE m == maps[i]
           x == [m EXCEPT !.runs[k] = @ + 1]
<1>4. m.runs \in [Kinds -> Nat]
  BY <1>3 DEF Map
<1>5. [m.runs EXCEPT ![k] = @ + 1] \in [Kinds -> Nat]
  BY <1>3, <1>4
<1>6. /\ x \in Map
      /\ x.dir = m.dir /\ x.config = m.config /\ x.made = m.made
      /\ x.late = m.late /\ x.shared = m.shared
      /\ x.runs = [m.runs EXCEPT ![k] = @ + 1]
  BY <1>3, <1>5 DEF Map
<1>7. maps' = [maps EXCEPT ![i] = x]
  BY <1>1
<1>8. /\ maps' \in Seq(Map) /\ Len(maps') = Len(maps) /\ maps'[i] = x
      /\ \A j \in 1..Len(maps) : j # i => maps'[j] = maps[j]
  <2> HIDE DEF i, m, x
  <2> QED
    BY <1>3, <1>6, <1>7, ReplaceAt
<1>9. x.runs[k] = m.runs[k] + 1 /\ \A j \in Kinds : j # k => x.runs[j] = m.runs[j]
  BY <1>3, <1>4, <1>6
<1> HIDE DEF x
<1> QED
  BY <1>1, <1>2, <1>6, <1>8, <1>9

LEMMA TaskTyped ==
  ASSUME TypedInv, NEW p \in Procs, Task(p)
  PROVE  TypedInv'
<1>1. /\ Disposer(p)
      /\ maps' \in Seq(Map) /\ Len(maps') = Len(maps)
      /\ \E k \in tasks[p] : tasks' = [tasks EXCEPT ![p] = @ \ {k}]
      /\ UNCHANGED <<cache, boots, records, pc, at, todo, config, writer, cover>>
  BY TaskDoes
<1>2. tasks \in [Procs -> SUBSET Kinds]
  BY DEF TypedInv, TypeOK
<1>3. /\ tasks' \in [Procs -> SUBSET Kinds]
      /\ \A q \in Procs : tasks'[q] # {} => Disposer(q)
  BY <1>1, <1>2 DEF TypedInv, PlacesOK
<1>4. TypeOK'
  BY <1>1, <1>3 DEF TypedInv, TypeOK
<1>5. PlacesOK'
  BY <1>1, <1>3 DEF TypedInv, PlacesOK, Disposer
<1> QED
  BY <1>4, <1>5 DEF TypedInv

\* The map that p disposed of is cleared, and the one its directory has dropped.
LEMMA DropDoes ==
  ASSUME TypedInv, NEW p \in Procs, Disposer(p), DropMap(p)
  PROVE  LET d == boots[at[p].boot].dir
             m == at[p].map
         IN /\ records' \in [Dirs -> 0..Len(maps)]
            /\ records'[d] = 0
            /\ \A e \in Dirs : e # d => records'[e] = records[e]
            /\ maps' \in Seq(Map) /\ Len(maps') = Len(maps)
            /\ \A i \in 1..Len(maps) : i # m => maps'[i] = maps[i]
            /\ maps'[m].dir = d /\ maps'[m].config = 0 /\ maps'[m].made = {}
            /\ \A k \in Kinds : maps'[m].runs[k] = 0
            /\ \A q \in Disposing(d) : q # p /\ at[q].map = m => maps'[m].shared
<1> DEFINE d == boots[at[p].boot].dir
           m == at[p].map
           s == \E q \in Disposing(d) \ {p} : at[q].map = m
           x == [NewMap(d) EXCEPT !.shared = s]
<1>1. DirOf(at[p].boot) = d /\ d \in Dirs
  BY PlaceTyped DEF Disposer
<1>2. m \in 1..Len(maps) /\ maps \in Seq(Map) /\ records \in [Dirs -> 0..Len(maps)]
      /\ Len(maps) \in Nat
  BY DisposerTyped DEF TypedInv, TypeOK
<1>3. records' = [records EXCEPT ![d] = 0] /\ maps' = [maps EXCEPT ![m] = x]
  BY <1>1 DEF DropMap
<1>4. s \in BOOLEAN
  OBVIOUS
<1>5. /\ x \in Map
      /\ x.dir = d /\ x.config = 0 /\ x.made = {} /\ x.shared = s
      /\ x.runs = [k \in Kinds |-> 0]
  <2> HIDE DEF s
  <2>1. 0 \in 0..MaxConfig
    BY BoundAssumption
  <2> QED
    BY <1>1, <1>4, <2>1 DEF NewMap, Map
<1>6. /\ maps' \in Seq(Map) /\ Len(maps') = Len(maps) /\ maps'[m] = x
      /\ \A i \in 1..Len(maps) : i # m => maps'[i] = maps[i]
  <2> HIDE DEF m, x
  <2> QED
    BY <1>2, <1>3, <1>5, ReplaceAt
<1>7. /\ records' \in [Dirs -> 0..Len(maps)]
      /\ records'[d] = 0
      /\ \A e \in Dirs : e # d => records'[e] = records[e]
  BY <1>1, <1>2, <1>3
<1>8. \A q \in Disposing(d) : q # p /\ at[q].map = m => s
  OBVIOUS
<1> HIDE DEF x, s
<1> QED
  BY <1>5, <1>6, <1>7, <1>8

LEMMA EndDisposeTyped ==
  ASSUME TypedInv, NEW p \in Procs, EndDispose(p)
  PROVE  /\ Disposer(p) /\ InRole(p, pc[p]) /\ tasks[p] = {} /\ DropMap(p)
         /\ boots[at[p].boot].dir \in Dirs
         /\ Disposed(p, boots[at[p].boot].dir, pc[p])
         /\ TypedInv'
<1>1. /\ pc[p] \in {"dispose", "reload"} /\ tasks[p] = {} /\ DropMap(p)
      /\ Disposed(p, DirOf(at[p].boot), pc[p])
      /\ UNCHANGED <<tasks, todo, config, writer, cover>>
  BY DEF EndDispose
<1>2. Disposer(p)
  BY <1>1 DEF Disposer
<1>3. InRole(p, pc[p])
  BY <1>1 DEF InRole, TypedInv, PlacesOK
<1>4. DirOf(at[p].boot) = boots[at[p].boot].dir /\ boots[at[p].boot].dir \in Dirs
  BY <1>1, PlaceTyped
<1>5. maps' \in Seq(Map) /\ Len(maps') = Len(maps) /\ records' \in [Dirs -> 0..Len(maps)]
  BY <1>1, <1>2, DropDoes
<1>6. TypedInv'
  BY <1>1, <1>3, <1>4, <1>5, DisposedTyped
<1> QED
  BY <1>1, <1>2, <1>3, <1>4, <1>6

\* p, in an instance of d, calls State.dispose.
Calls(p, d, l) ==
  /\ InRole(p, l)
  /\ pc[p] \in {"inside", "boot"} /\ at[p].boot # 0 /\ tasks[p] = {}
  /\ d = boots[at[p].boot].dir
  /\ CallDispose(p, d, l)
  /\ UNCHANGED <<todo, config, writer, cover>>

LEMMA CallTyped ==
  ASSUME TypedInv, NEW p \in Procs, NEW d \in Dirs, NEW l, Calls(p, d, l)
  PROVE  TypedInv'
<1>1. /\ InRole(p, l) /\ tasks[p] = {} /\ at[p].boot # 0
      /\ UNCHANGED <<records, todo, config, writer, cover>>
  BY DEF Calls, CallDispose
<1>2. CASE records[d] = 0
  <2>1. Disposed(p, d, l) /\ UNCHANGED <<tasks, maps>>
    BY <1>2 DEF Calls, CallDispose
  <2>2. maps' \in Seq(Map) /\ Len(maps') = Len(maps) /\ records' \in [Dirs -> 0..Len(maps)]
    BY <1>1, <2>1 DEF TypedInv, TypeOK
  <2> QED
    BY <1>1, <2>1, <2>2, DisposedTyped
<1>3. CASE records[d] # 0
  <2>1. StateDispose(p, d, l)
    BY <1>3 DEF Calls, CallDispose
  <2> QED
    BY <1>1, <1>3, <2>1, EnterTyped
<1> QED
  BY <1>2, <1>3

LEMMA StartDisposeCalls ==
  ASSUME TypedInv, NEW r \in Requests, StartDispose(r)
  PROVE  r \in Procs /\ \E d \in Dirs, l \in {"dispose", "reload"} : Calls(r, d, l)
<1>1. r \in Procs /\ r # Pass /\ pc[r] = "inside"
  BY PassAssumption DEF Procs, StartDispose
<1>2. /\ at[r].boot # 0
      /\ DirOf(at[r].boot) = boots[at[r].boot].dir /\ boots[at[r].boot].dir \in Dirs
  BY <1>1, PlaceTyped DEF TypedInv, PlacesOK
<1>3. tasks[r] = {}
  BY <1>1 DEF TypedInv, PlacesOK, Disposer
<1> QED
  BY <1>1, <1>2, <1>3 DEF StartDispose, Calls, InRole

\* The pass either disposes of the instance it waited for or goes on.
LEMMA AwaitedDoes ==
  ASSUME TypedInv, Awaited
  PROVE  LET g == at[Pass].boot
         IN /\ g \in 1..Len(boots) /\ pc[Pass] = "boot" /\ boots[g].dir \in Dirs
            /\ boots[g].status \in {"ready", "failed"}
            /\ \/ cache[boots[g].dir] = g /\ Calls(Pass, boots[g].dir, "dispose")
               \/ /\ boots[g].status = "failed" \/ cache[boots[g].dir] # g
                  /\ pc' = [pc EXCEPT ![Pass] = "walk"]
                  /\ at' = [at EXCEPT ![Pass] = Nowhere]
                  /\ UNCHANGED <<tasks, maps, boots, cache, records,
                                 todo, config, writer, cover>>
<1>1. Pass \in Procs /\ pc[Pass] = "boot"
  BY DEF Procs, Awaited
<1> DEFINE g == at[Pass].boot
<1>2. /\ g \in 1..Len(boots) /\ boots[g] \in Boot /\ DirOf(g) = boots[g].dir
      /\ boots[g].dir \in Dirs
  BY <1>1, PlaceTyped
<1>3. tasks[Pass] = {} /\ g # 0
  BY <1>1 DEF TypedInv, PlacesOK, Disposer
<1>4. boots[g].status \in {"ready", "failed"}
  BY <1>2 DEF Boot, Awaited
<1>5. CASE boots[g].status = "ready" /\ cache[boots[g].dir] = g
  <2>1. CallDispose(Pass, boots[g].dir, "dispose") /\ UNCHANGED <<todo, config, writer, cover>>
    BY <1>2, <1>5 DEF Awaited
  <2> QED
    BY <1>1, <1>2, <1>3, <1>4, <1>5, <2>1 DEF Calls, InRole
<1>6. CASE ~(boots[g].status = "ready" /\ cache[boots[g].dir] = g)
  BY <1>1, <1>2, <1>4, <1>6 DEF Awaited, Done, Goto
<1> QED
  BY <1>5, <1>6

\* The pass has nothing to do with the instance it waited for.
PassesOver ==
  LET g == at[Pass].boot
  IN /\ g \in 1..Len(boots) /\ pc[Pass] = "boot" /\ boots[g].dir \in Dirs
     /\ boots[g].status = "failed" \/ cache[boots[g].dir] # g
     /\ pc' = [pc EXCEPT ![Pass] = "walk"]
     /\ at' = [at EXCEPT ![Pass] = Nowhere]
     /\ UNCHANGED <<cache, boots, records, maps, tasks, todo, config, writer, cover>>

\* Every step, sorted by what it does.
LEMMA NextCases ==
  ASSUME TypedInv, [Next]_vars
  PROVE  \/ \E d \in Dirs : UseState(d)
         \/ \E g \in 1..Len(boots) : Booted(g) \/ BootFails(g)
         \/ \E r \in Requests : Leave(r) \/ \E d \in Dirs : Provide(r, d)
         \/ \E p \in Procs, d \in Dirs, l \in {"dispose", "reload"} : Calls(p, d, l)
         \/ \E p \in Procs : Task(p) \/ EndDispose(p)
         \/ Walk \/ PassesOver \/ EndPass
         \/ WriteConfig \/ ResetStateEntry \/ DisposeForConfig
         \/ UNCHANGED vars
<1>1. DOMAIN boots = 1..Len(boots)
  BY DEF TypedInv, TypeOK
<1>2. ASSUME NEW r \in Requests, RequestUse(r) PROVE \E d \in Dirs : UseState(d)
  <2>1. r \in Procs /\ pc[r] = "inside" /\ UseState(DirOf(at[r].boot))
    BY <1>2 DEF RequestUse, Procs
  <2> QED
    BY <2>1, PlaceTyped
<1>3. ASSUME NEW g \in 1..Len(boots), BootUse(g) PROVE \E d \in Dirs : UseState(d)
  BY <1>3, BootTyped DEF BootUse
<1>4. ASSUME NEW r \in Requests, StartDispose(r)
      PROVE  \E p \in Procs, d \in Dirs, l \in {"dispose", "reload"} : Calls(p, d, l)
  BY <1>4, StartDisposeCalls
<1>5. ASSUME Awaited
      PROVE  \/ \E p \in Procs, d \in Dirs, l \in {"dispose", "reload"} : Calls(p, d, l)
             \/ PassesOver
  <2>1. CASE Calls(Pass, boots[at[Pass].boot].dir, "dispose")
    BY <1>5, <2>1, AwaitedDoes DEF Procs
  <2>2. CASE ~Calls(Pass, boots[at[Pass].boot].dir, "dispose")
    BY <1>5, <2>2, AwaitedDoes DEF PassesOver
  <2> QED
    BY <2>1, <2>2
<1> QED
  BY <1>1, <1>2, <1>3, <1>4, <1>5 DEF Next, Step, PassStep, Settle

\* Steps of requests and the pass that leave all instances and maps alone.
LEMMA LeaveTyped == ASSUME TypedInv, NEW r \in Requests, Leave(r) PROVE TypedInv'
<1>1. r \in Procs /\ r # Pass /\ Pass \in Procs
  BY PassAssumption DEF Procs
<1>2. /\ pc[r] = "inside" /\ pc' = [pc EXCEPT ![r] = "done"]
      /\ at' = [at EXCEPT ![r] = Nowhere]
      /\ UNCHANGED <<cache, boots, records, maps, tasks, todo, config, writer, cover>>
  BY <1>1 DEF Leave, Done, Goto
<1>3. Nowhere \in [boot : 0..Len(boots), map : 0..Len(maps)]
  BY DEF TypedInv, TypeOK, Nowhere
<1>4. TypeOK'
  BY <1>1, <1>2, <1>3 DEF TypedInv, TypeOK
<1>5. PlacesOK'
  BY <1>1, <1>2 DEF TypedInv, TypeOK, PlacesOK, Disposer, Procs
<1> QED
  BY <1>4, <1>5 DEF TypedInv

LEMMA PassesOverTyped == ASSUME TypedInv, PassesOver PROVE TypedInv'
<1>1. Pass \in Procs
  BY DEF Procs
<1>2. /\ pc[Pass] = "boot" /\ pc' = [pc EXCEPT ![Pass] = "walk"]
      /\ at' = [at EXCEPT ![Pass] = Nowhere]
      /\ UNCHANGED <<cache, boots, records, maps, tasks, todo, config, writer, cover>>
  BY DEF PassesOver
<1>3. Nowhere \in [boot : 0..Len(boots), map : 0..Len(maps)]
  BY DEF TypedInv, TypeOK, Nowhere
<1>4. TypeOK'
  BY <1>1, <1>2, <1>3 DEF TypedInv, TypeOK
<1>5. PlacesOK'
  BY <1>1, <1>2, PassAssumption DEF TypedInv, TypeOK, PlacesOK, Disposer, Procs
<1> QED
  BY <1>4, <1>5 DEF TypedInv

LEMMA WalkDoes ==
  ASSUME TypedInv, Walk
  PROVE  /\ pc[Pass] = "walk"
         /\ \E g \in todo :
              /\ g \in 1..Len(boots) /\ todo' = todo \ {g}
              /\ \/ /\ cache[boots[g].dir] = g
                    /\ at' = [at EXCEPT ![Pass] = [boot |-> g, map |-> 0]]
                    /\ pc' = [pc EXCEPT ![Pass] = "boot"]
                 \/ cache[boots[g].dir] # g /\ UNCHANGED <<at, pc>>
         /\ UNCHANGED <<cache, boots, records, maps, tasks, config, writer, cover>>
<1>1. PICK g \in todo :
       /\ todo' = todo \ {g}
       /\ IF cache[DirOf(g)] = g
          THEN at' = [at EXCEPT ![Pass] = [boot |-> g, map |-> 0]] /\ Goto(Pass, "boot")
          ELSE UNCHANGED <<at, pc>>
  BY DEF Walk
<1>2. g \in 1..Len(boots)
  BY DEF TypedInv, TypeOK
<1>3. DirOf(g) = boots[g].dir
  BY <1>2, BootTyped
<1> QED
  BY <1>1, <1>2, <1>3 DEF Walk, Goto

LEMMA WalkTyped == ASSUME TypedInv, Walk PROVE TypedInv'
<1>1. Pass \in Procs /\ Len(boots) \in Nat /\ Len(maps) \in Nat
  BY DEF Procs, TypedInv, TypeOK
<1>2. PICK g \in todo :
        /\ g \in 1..Len(boots) /\ todo' = todo \ {g}
        /\ \/ /\ at' = [at EXCEPT ![Pass] = [boot |-> g, map |-> 0]]
              /\ pc' = [pc EXCEPT ![Pass] = "boot"]
           \/ UNCHANGED <<at, pc>>
  BY WalkDoes
<1>3. /\ UNCHANGED <<cache, boots, records, maps, tasks, config, writer, cover>>
      /\ pc[Pass] = "walk"
  BY WalkDoes
<1>4. [boot |-> g, map |-> 0] \in [boot : 0..Len(boots), map : 0..Len(maps)] /\ g # 0
  BY <1>1, <1>2
<1>5. TypeOK'
  <2>1. todo' \subseteq 1..Len(boots)
    BY <1>2 DEF TypedInv, TypeOK
  <2>2. at' \in [Procs -> [boot : 0..Len(boots), map : 0..Len(maps)]]
    <3>1. at \in [Procs -> [boot : 0..Len(boots), map : 0..Len(maps)]]
      BY DEF TypedInv, TypeOK
    <3> QED
      BY <1>1, <1>2, <1>4, <3>1
  <2>3. pc' \in [Procs -> {"new", "boot", "inside", "dispose", "reload", "reboot",
                          "walk", "done"}]
    BY <1>2 DEF TypedInv, TypeOK
  <2> QED
    BY <1>3, <2>1, <2>2, <2>3 DEF TypedInv, TypeOK
<1>6. PlacesOK'
  BY <1>1, <1>2, <1>3, <1>4, PassAssumption DEF TypedInv, TypeOK, PlacesOK, Disposer, Procs
<1> QED
  BY <1>5, <1>6 DEF TypedInv

LEMMA EndPassTyped == ASSUME TypedInv, EndPass PROVE TypedInv'
<1>1. Pass \in Procs /\ 0 \in 0..MaxConfig
  BY BoundAssumption DEF Procs
<1>2. /\ pc[Pass] = "walk" /\ pc' = [pc EXCEPT ![Pass] = "new"]
      /\ cover' = [boots |-> {}, config |-> 0]
      /\ UNCHANGED <<cache, boots, records, maps, at, tasks, todo, config, writer>>
  BY DEF EndPass, Goto
<1>3. TypeOK'
  BY <1>1, <1>2 DEF TypedInv, TypeOK
<1>4. PlacesOK'
  BY <1>1, <1>2, PassAssumption DEF TypedInv, TypeOK, PlacesOK, Disposer, Procs
<1> QED
  BY <1>3, <1>4 DEF TypedInv

(***************************************************************************)
(* Steps of the configuration.                                             *)
(***************************************************************************)
LEMMA BeginPassTyped ==
  ASSUME TypedInv, DisposeForConfig
  PROVE  TypedInv'
<1>1. Pass \in Procs /\ Len(boots) \in Nat
  BY DEF Procs, TypedInv, TypeOK
<1>2. writer' = "idle" /\ UNCHANGED <<cache, boots, records, maps, at, tasks, config>>
  BY DEF DisposeForConfig
<1>3. CASE pc[Pass] = "new"
  <2>1. /\ pc' = [pc EXCEPT ![Pass] = "walk"]
        /\ todo' = {cache[d] : d \in Dirs} \ {0}
        /\ cover' = [boots |-> todo', config |-> config]
    BY <1>3 DEF DisposeForConfig, BeginPass, Goto
  <2>2. todo' \subseteq 1..Len(boots)
    <3>1. \A d \in Dirs : cache[d] \in 0..Len(boots)
      BY DEF TypedInv, TypeOK
    <3> QED
      BY <2>1, <3>1, <1>1
  <2>3. config \in 0..MaxConfig
    BY BoundAssumption DEF TypedInv, TypeOK
  <2>4. TypeOK'
    BY <1>1, <1>2, <2>1, <2>2, <2>3 DEF TypedInv, TypeOK
  <2>5. PlacesOK'
    BY <1>1, <1>2, <1>3, <2>1, PassAssumption DEF TypedInv, TypeOK, PlacesOK, Disposer, Procs
  <2> QED
    BY <2>4, <2>5 DEF TypedInv
<1>4. CASE pc[Pass] # "new"
  <2>1. UNCHANGED <<pc, todo, cover>>
    BY <1>4 DEF DisposeForConfig
  <2>2. TypeOK'
    BY <1>2, <2>1 DEF TypedInv, TypeOK
  <2>3. PlacesOK'
    BY <1>2, <2>1 DEF TypedInv, PlacesOK, Disposer
  <2> QED
    BY <2>2, <2>3 DEF TypedInv
<1> QED
  BY <1>3, <1>4

LEMMA ResetDoes ==
  ASSUME TypedInv, ResetStateEntry
  PROVE  /\ maps' \in Seq(Map) /\ Len(maps') = Len(maps)
         /\ \A i \in 1..Len(maps) :
              LET m == maps[i]
                  n == maps'[i]
              IN /\ n.dir = m.dir /\ n.made = m.made /\ n.late = m.late
                 /\ n.runs = m.runs /\ n.shared = m.shared
                 /\ n.config \in {m.config, 0}
         /\ UNCHANGED <<cache, boots, records, pc, at, tasks, todo, config, cover>>
<1> DEFINE told(i) == \E d \in Dirs : cache[d] # 0 /\ records[d] = i
           x(i) == IF told(i) THEN [maps[i] EXCEPT !.config = 0] ELSE maps[i]
<1>1. maps \in Seq(Map) /\ Len(maps) \in Nat /\ DOMAIN maps = 1..Len(maps)
  BY DEF TypedInv, TypeOK
<1>2. \A i \in 1..Len(maps) : maps[i] \in Map
  BY <1>1, EntryTyped
<1>3. maps' = [i \in 1..Len(maps) |-> x(i)]
  BY <1>1 DEF ResetStateEntry
<1>4. 0 \in 0..MaxConfig
  BY BoundAssumption
<1>5. ASSUME NEW i \in 1..Len(maps)
      PROVE  /\ x(i) \in Map
             /\ x(i).dir = maps[i].dir /\ x(i).made = maps[i].made /\ x(i).late = maps[i].late
             /\ x(i).runs = maps[i].runs /\ x(i).shared = maps[i].shared
             /\ x(i).config \in {maps[i].config, 0}
  <2>1. maps[i] \in Map
    BY <1>2
  <2>2. CASE told(i)
    <3>1. x(i) = [maps[i] EXCEPT !.config = 0]
      BY <2>2
    <3> QED
      BY <2>1, <1>4, <3>1 DEF Map
  <2>3. CASE ~told(i)
    BY <2>1, <2>3
  <2> QED
    BY <2>2, <2>3
<1> HIDE DEF x
<1>6. maps' \in Seq(Map) /\ Len(maps') = Len(maps)
  BY <1>1, <1>3, <1>5
<1>7. \A i \in 1..Len(maps) : maps'[i] = x(i)
  BY <1>3
<1> QED
  BY <1>5, <1>6, <1>7 DEF ResetStateEntry

LEMMA ResetTyped == ASSUME TypedInv, ResetStateEntry PROVE TypedInv'
<1>1. /\ maps' \in Seq(Map) /\ Len(maps') = Len(maps)
      /\ UNCHANGED <<cache, boots, records, pc, at, tasks, todo, config, cover>>
  BY ResetDoes
<1>2. writer' = "idle"
  BY DEF ResetStateEntry
<1>3. TypeOK'
  BY <1>1, <1>2 DEF TypedInv, TypeOK
<1>4. PlacesOK'
  BY <1>1 DEF TypedInv, PlacesOK, Disposer
<1> QED
  BY <1>3, <1>4 DEF TypedInv

LEMMA WriteTyped == ASSUME TypedInv, WriteConfig PROVE TypedInv'
<1>1. /\ config' = config + 1 /\ config < MaxConfig /\ writer' \in {"reset", "dispose"}
      /\ UNCHANGED <<cache, boots, records, maps, pc, at, tasks, todo, cover>>
  BY DEF WriteConfig
<1>2. config' \in 1..MaxConfig
  BY <1>1, BoundAssumption DEF TypedInv, TypeOK
<1>3. TypeOK'
  BY <1>1, <1>2 DEF TypedInv, TypeOK
<1>4. PlacesOK'
  BY <1>1 DEF TypedInv, PlacesOK, Disposer
<1> QED
  BY <1>3, <1>4 DEF TypedInv

LEMMA TypedStep == TypedInv /\ [Next]_vars => TypedInv'
<1> SUFFICES ASSUME TypedInv, [Next]_vars PROVE TypedInv'
  OBVIOUS
<1>1. CASE \E d \in Dirs : UseState(d)
  BY <1>1, UseTyped
<1>2. ASSUME NEW g \in 1..Len(boots), Booted(g) PROVE TypedInv'
  <2>1. Settled(g, TRUE) /\ cache' \in [Dirs -> 0..Len(boots)]
    BY <1>2 DEF Booted, TypedInv, TypeOK
  <2> QED
    BY <2>1, SettledTyped
<1>3. ASSUME NEW g \in 1..Len(boots), BootFails(g) PROVE TypedInv'
  BY <1>3, FailsTyped, SettledTyped
<1>4. CASE \E r \in Requests : Leave(r) \/ \E d \in Dirs : Provide(r, d)
  BY <1>4, LeaveTyped, ProvideTyped
<1>5. CASE \E p \in Procs, d \in Dirs, l \in {"dispose", "reload"} : Calls(p, d, l)
  BY <1>5, CallTyped
<1>6. CASE \E p \in Procs : Task(p) \/ EndDispose(p)
  BY <1>6, TaskTyped, EndDisposeTyped
<1>7. CASE Walk \/ PassesOver \/ EndPass
  BY <1>7, WalkTyped, PassesOverTyped, EndPassTyped
<1>8. CASE WriteConfig \/ ResetStateEntry \/ DisposeForConfig
  BY <1>8, WriteTyped, ResetTyped, BeginPassTyped
<1>9. CASE UNCHANGED vars
  <2>1. TypeOK'
    BY <1>9 DEF TypedInv, TypeOK, vars
  <2>2. PlacesOK'
    BY <1>9 DEF TypedInv, PlacesOK, Disposer, vars
  <2> QED
    BY <2>1, <2>2 DEF TypedInv
<1> QED
  BY <1>1, <1>2, <1>3, <1>4, <1>5, <1>6, <1>7, <1>8, <1>9, NextCases

\* Every variable keeps its type, and with it every instance, map and process
\* that another one names exists.
THEOREM InstanceType == Spec => []TypeOK
<1>1. TypedInv => TypeOK
  BY DEF TypedInv
<1> QED
  BY <1>1, TypedInit, TypedStep, PTL DEF Spec

(***************************************************************************)
(* The cache.  Beside what CachedIsNewest says, an instance is cached for  *)
(* its own directory only: so a boot that fails looks where it would be.   *)
(***************************************************************************)
OwnCache == \A d \in Dirs : cache[d] # 0 => boots[cache[d]].dir = d

\* CachedIsNewest by the fields of the instances.
HoldsNewest ==
  \A d \in Dirs : cache[d] # 0 =>
    /\ boots[cache[d]].dir = d
    /\ boots[cache[d]].status # "failed"
    /\ \A g \in 1..Len(boots) : boots[g].dir = d => g <= cache[d]

LEMMA HoldsIsNewest == TypedInv => (OwnCache /\ CachedIsNewest <=> HoldsNewest)
<1> SUFFICES ASSUME TypedInv PROVE OwnCache /\ CachedIsNewest <=> HoldsNewest
  OBVIOUS
<1>1. DOMAIN boots = 1..Len(boots)
  BY DEF TypedInv, TypeOK
<1>2. \A g \in 1..Len(boots) : DirOf(g) = boots[g].dir
  BY BootTyped
<1> QED
  BY <1>1, <1>2 DEF OwnCache, CachedIsNewest, HoldsNewest

LEMMA TrackNewest ==
  ASSUME TypedInv, HoldsNewest, NEW p \in Procs, NEW d \in Dirs, Track(p, d)
  PROVE  HoldsNewest'
<1>1. /\ Len(boots') = Len(boots) + 1 /\ Len(boots) \in Nat
      /\ \A i \in 1..Len(boots) : boots'[i] = boots[i]
      /\ boots'[Len(boots')] = [dir |-> d, status |-> "booting"]
      /\ cache'[d] = Len(boots')
      /\ \A e \in Dirs : e # d => cache'[e] = cache[e]
  BY TrackDoes
<1> SUFFICES ASSUME NEW e \in Dirs, cache'[e] # 0
             PROVE  /\ boots'[cache'[e]].dir = e
                    /\ boots'[cache'[e]].status # "failed"
                    /\ \A g \in 1..Len(boots') : boots'[g].dir = e => g <= cache'[e]
  BY DEF HoldsNewest
<1>2. CASE e = d
  BY <1>1, <1>2
<1>3. CASE e # d
  <2>1. cache'[e] = cache[e] /\ cache[e] \in 1..Len(boots)
    BY <1>1, <1>3 DEF TypedInv, TypeOK
  <2>2. boots'[cache'[e]] = boots[cache[e]]
    BY <1>1, <2>1
  <2>3. ASSUME NEW g \in 1..Len(boots'), boots'[g].dir = e PROVE g <= cache'[e]
    <3>1. g # Len(boots')
      BY <1>1, <1>3, <2>3
    <3>2. g \in 1..Len(boots) /\ boots'[g] = boots[g]
      BY <1>1, <3>1
    <3> QED
      BY <2>1, <2>3, <3>2 DEF HoldsNewest
  <2> QED
    BY <2>1, <2>2, <2>3 DEF HoldsNewest
<1> QED
  BY <1>2, <1>3

LEMMA DisposedNewest ==
  ASSUME TypedInv, HoldsNewest, NEW p \in Procs, NEW d \in Dirs, NEW l, Disposed(p, d, l)
  PROVE  HoldsNewest'
<1>1. CASE l = "reload"
  BY <1>1, TrackNewest DEF Disposed
<1>2. CASE l # "reload"
  <2>1. cache' = [cache EXCEPT ![d] = 0] /\ boots' = boots
    BY <1>2 DEF Disposed
  <2>2. \A e \in Dirs : cache'[e] # 0 => cache'[e] = cache[e]
    BY <2>1 DEF TypedInv, TypeOK
  <2> QED
    BY <2>1, <2>2 DEF HoldsNewest
<1> QED
  BY <1>1, <1>2

LEMMA SettledNewest ==
  ASSUME TypedInv, HoldsNewest, NEW g \in 1..Len(boots), Booted(g) \/ BootFails(g)
  PROVE  HoldsNewest'
<1>1. \A d \in Dirs : cache[d] \in 0..Len(boots)
  BY DEF TypedInv, TypeOK
<1>2. CASE Booted(g)
  <2>1. cache' = cache /\ Settled(g, TRUE)
    BY <1>2 DEF Booted
  <2>2. /\ Len(boots') = Len(boots) /\ Len(boots) \in Nat
        /\ boots'[g].status = "ready"
        /\ \A i \in 1..Len(boots) : i # g => boots'[i] = boots[i]
        /\ \A i \in 1..Len(boots) : boots'[i].dir = boots[i].dir
    BY <2>1, SettledDoes
  <2> QED
    BY <1>1, <2>1, <2>2 DEF HoldsNewest
<1>3. CASE BootFails(g)
  <2>1. /\ Settled(g, FALSE)
        /\ \A d \in Dirs : d # boots[g].dir => cache'[d] = cache[d]
        /\ cache'[boots[g].dir] = IF cache[boots[g].dir] = g THEN 0
                                  ELSE cache[boots[g].dir]
    BY <1>3, FailsTyped
  <2>2. /\ Len(boots') = Len(boots) /\ Len(boots) \in Nat
        /\ \A i \in 1..Len(boots) : i # g => boots'[i] = boots[i]
        /\ \A i \in 1..Len(boots) : boots'[i].dir = boots[i].dir
    BY <2>1, SettledDoes
  <2>3. \A d \in Dirs : cache'[d] # 0 => cache'[d] = cache[d] /\ cache[d] # g
    BY <2>1 DEF HoldsNewest
  <2> QED
    BY <1>1, <2>2, <2>3 DEF HoldsNewest
<1> QED
  BY <1>2, <1>3

LEMMA NewestStep == TypedInv /\ HoldsNewest /\ [Next]_vars => HoldsNewest'
<1> SUFFICES ASSUME TypedInv, HoldsNewest, [Next]_vars PROVE HoldsNewest'
  OBVIOUS
<1>1. ASSUME UNCHANGED <<cache, boots>> PROVE HoldsNewest'
  BY <1>1 DEF HoldsNewest
<1>2. CASE \E d \in Dirs : UseState(d)
  BY <1>1, <1>2, UseDoes
<1>3. CASE \E g \in 1..Len(boots) : Booted(g) \/ BootFails(g)
  BY <1>3, SettledNewest
<1>4. ASSUME NEW r \in Requests, NEW d \in Dirs, Provide(r, d) PROVE HoldsNewest'
  <2>1. CASE cache[d] = 0
    BY <1>4, <2>1, TrackNewest DEF Provide, Procs
  <2>2. CASE cache[d] # 0
    BY <1>1, <1>4, <2>2 DEF Provide
  <2> QED
    BY <2>1, <2>2
<1>5. ASSUME NEW p \in Procs, NEW d \in Dirs, NEW l \in {"dispose", "reload"}, Calls(p, d, l)
      PROVE  HoldsNewest'
  <2>1. CASE records[d] = 0
    BY <1>5, <2>1, DisposedNewest DEF Calls, CallDispose
  <2>2. CASE records[d] # 0
    BY <1>1, <1>5, <2>2, EnterDoes DEF Calls, CallDispose
  <2> QED
    BY <2>1, <2>2
<1>6. ASSUME NEW p \in Procs, EndDispose(p) PROVE HoldsNewest'
  BY <1>6, EndDisposeTyped, DisposedNewest
<1>7. ASSUME NEW p \in Procs, Task(p) PROVE HoldsNewest'
  BY <1>1, <1>7 DEF Task
<1>8. ASSUME NEW r \in Requests, Leave(r) PROVE HoldsNewest'
  BY <1>1, <1>8 DEF Leave
<1>9. CASE Walk \/ PassesOver \/ EndPass \/ WriteConfig \/ ResetStateEntry
           \/ DisposeForConfig \/ UNCHANGED vars
  BY <1>1, <1>9 DEF Walk, PassesOver, EndPass, WriteConfig, ResetStateEntry,
                    DisposeForConfig, vars
<1> QED
  BY <1>2, <1>3, <1>4, <1>5, <1>6, <1>7, <1>8, <1>9, NextCases

LEMMA NewestHolds == Spec => [](TypedInv /\ HoldsNewest)
<1>1. Init => HoldsNewest
  BY DEF Init, HoldsNewest
<1> QED
  BY <1>1, TypedInit, TypedStep, NewestStep, PTL DEF Spec

\* The cache holds the newest instance of a directory and never one that failed,
\* whoever deletes or replaces it.
THEOREM CacheHoldsNewest == Spec => []CachedIsNewest
BY HoldsIsNewest, NewestHolds, PTL

(***************************************************************************)
(* The dispose functions.  A disposal holds on to the map it found, and    *)
(* ends by dropping whatever map the directory then has: one that was made *)
(* after the first map had been dropped holds only late states.            *)
(***************************************************************************)
OwnMaps ==
  /\ \A d \in Dirs : records[d] # 0 => maps[records[d]].dir = d
  /\ \A p \in Procs : Disposer(p) => maps[at[p].map].dir = boots[at[p].boot].dir

\* A disposal calls, or called, what is not late in the map of its directory.
AllAreCalled ==
  \A p \in Procs, d \in Dirs :
    Disposer(p) /\ boots[at[p].boot].dir = d /\ records[d] # 0 =>
      \A k \in maps[records[d]].made \ maps[records[d]].late :
        /\ at[p].map = records[d]
        /\ k \in tasks[p] \/ maps[records[d]].runs[k] > 0

RunOnce ==
  \A i \in 1..Len(maps) : ~maps[i].shared => \A k \in Kinds : maps[i].runs[k] <= 1

SharedIsMarked ==
  \A p, q \in Procs :
    Disposer(p) /\ Disposer(q) /\ p # q /\ at[p].map = at[q].map => maps[at[p].map].shared

PendingNotRun ==
  \A p \in Procs :
    Disposer(p) /\ ~maps[at[p].map].shared => \A k \in tasks[p] : maps[at[p].map].runs[k] = 0

\* Between disposals no dispose function of a map has run.
RestIsClean ==
  \A i \in 1..Len(maps) :
    (\A p \in Procs : ~(Disposer(p) /\ at[p].map = i)) =>
      \A k \in Kinds : maps[i].runs[k] = 0

DisposeInv == /\ OwnMaps /\ AllAreCalled
              /\ RunOnce /\ SharedIsMarked /\ PendingNotRun /\ RestIsClean

LEMMA DisposingIs ==
  ASSUME TypedInv, NEW d \in Dirs
  PROVE  \A p : p \in Disposing(d) <=> p \in Procs /\ Disposer(p) /\ boots[at[p].boot].dir = d
BY PlaceTyped DEF Disposing, Disposer

\* Two maps that differ in the configuration at most.
SameStates(m, n) ==
  /\ n.dir = m.dir /\ n.made = m.made /\ n.late = m.late
  /\ n.runs = m.runs /\ n.shared = m.shared

\* Who disposes of what is the same before and after.
SameDisposals ==
  \A p \in Procs :
    /\ Disposer(p)' <=> Disposer(p)
    /\ Disposer(p) => at'[p] = at[p] /\ boots'[at[p].boot].dir = boots[at[p].boot].dir

LEMMA QuietDisposals ==
  ASSUME TypedInv, DisposeInv, SameDisposals, UNCHANGED <<records, tasks>>,
         Len(maps') = Len(maps),
         \A i \in 1..Len(maps) : SameStates(maps[i], maps'[i])
  PROVE  DisposeInv'
<1>1. \A d \in Dirs : records[d] # 0 => records[d] \in 1..Len(maps)
  BY RecordTyped
<1>2. \A p \in Procs : Disposer(p) => at[p].map \in 1..Len(maps)
  BY DisposerTyped
<1>3. OwnMaps'
  BY <1>1, <1>2 DEF DisposeInv, OwnMaps, SameDisposals, SameStates
<1>4. AllAreCalled'
  <2> SUFFICES ASSUME NEW p \in Procs, NEW d \in Dirs, Disposer(p)',
                      boots'[at'[p].boot].dir = d, records[d] # 0,
                      NEW k \in maps'[records[d]].made \ maps'[records[d]].late
               PROVE  /\ at'[p].map = records[d]
                      /\ k \in tasks[p] \/ maps'[records[d]].runs[k] > 0
    BY DEF AllAreCalled
  <2>1. Disposer(p) /\ boots[at[p].boot].dir = d /\ at'[p] = at[p]
    BY DEF SameDisposals
  <2>2. SameStates(maps[records[d]], maps'[records[d]])
    BY <1>1
  <2>3. k \in maps[records[d]].made \ maps[records[d]].late
    BY <2>2 DEF SameStates
  <2>4. at[p].map = records[d] /\ (k \in tasks[p] \/ maps[records[d]].runs[k] > 0)
    BY <2>1, <2>3 DEF DisposeInv, AllAreCalled
  <2> QED
    BY <2>1, <2>2, <2>4 DEF SameStates
<1>5. RunOnce'
  BY DEF DisposeInv, RunOnce, SameStates
<1>6. SharedIsMarked'
  BY <1>2 DEF DisposeInv, SharedIsMarked, SameDisposals, SameStates
<1>7. PendingNotRun'
  BY <1>2 DEF DisposeInv, PendingNotRun, SameDisposals, SameStates
<1>8. RestIsClean'
  BY DEF DisposeInv, RestIsClean, SameDisposals, SameStates
<1> QED
  BY <1>3, <1>4, <1>5, <1>6, <1>7, <1>8 DEF DisposeInv

\* A state made or a configuration read, map by map.
LEMMA UseEffect ==
  ASSUME TypedInv, OwnMaps, NEW d \in Dirs, UseState(d)
  PROVE  /\ \A i \in 1..Len(maps) :
              /\ i \in 1..Len(maps')
              /\ maps'[i].dir = maps[i].dir /\ maps'[i].runs = maps[i].runs
              /\ maps'[i].shared = maps[i].shared
         /\ \A i \in 1..Len(maps') : i \notin 1..Len(maps) =>
              \A k \in Kinds : maps'[i].runs[k] = 0
         /\ \A e \in Dirs : records[e] # 0 => records'[e] = records[e]
         /\ \A e \in Dirs : records'[e] # 0 => maps'[records'[e]].dir = e
         /\ \A e \in Dirs : records'[e] # 0 =>
              \A k \in maps'[records'[e]].made \ maps'[records'[e]].late :
                \/ records[e] # 0 /\ k \in maps[records[e]].made \ maps[records[e]].late
                \/ Disposing(e) = {}
<1>1. PICK m \in Map : Store(d, m) /\ Uses(d, m)
  BY UseDoes
<1>2. /\ Len(maps') \in Nat /\ Len(maps) \in Nat /\ Len(maps) <= Len(maps')
      /\ Len(maps') <= Len(maps) + 1
      /\ maps'[records'[d]] = m
      /\ \A e \in Dirs : e # d => records'[e] = records[e]
      /\ \A i \in 1..Len(maps) : i # records[d] => maps'[i] = maps[i]
      /\ records[d] # 0 => records'[d] = records[d] /\ Len(maps') = Len(maps)
      /\ records[d] = 0 => records'[d] = Len(maps) + 1
  BY <1>1, StoreDoes
<1>3. \A e \in Dirs : records[e] # 0 => records[e] \in 1..Len(maps)
  BY RecordTyped
<1>4. \A e \in Dirs : records[e] # 0 /\ e # d => records[e] # records[d]
  BY DEF OwnMaps
<1>5. CASE records[d] # 0
  <2>1. Current(d) = maps[records[d]] /\ maps[records[d]].dir = d
    BY <1>5 DEF Current, OwnMaps
  <2> QED
    BY <1>1, <1>2, <1>3, <1>4, <1>5, <2>1 DEF Uses, OwnMaps
<1>6. CASE records[d] = 0
  <2>1. /\ Current(d).dir = d /\ Current(d).made = {}
        /\ \A k \in Kinds : Current(d).runs[k] = 0
    BY <1>6 DEF Current, NewMap
  <2>2. m.dir = d /\ \A k \in Kinds : m.runs[k] = 0
    BY <1>1, <2>1 DEF Uses
  <2>3. m.made \ m.late = {} \/ Disposing(d) = {}
    BY <1>1, <2>1 DEF Uses
  <2> QED
    BY <1>2, <1>3, <1>4, <1>6, <2>2, <2>3 DEF OwnMaps
<1> QED
  BY <1>5, <1>6

LEMMA UseDisposals ==
  ASSUME TypedInv, DisposeInv, NEW d \in Dirs, UseState(d)
  PROVE  DisposeInv'
<1>1. UNCHANGED <<boots, pc, at, tasks>>
  BY UseDoes
<1>2. /\ \A i \in 1..Len(maps) :
           /\ i \in 1..Len(maps')
           /\ maps'[i].dir = maps[i].dir /\ maps'[i].runs = maps[i].runs
           /\ maps'[i].shared = maps[i].shared
      /\ \A i \in 1..Len(maps') : i \notin 1..Len(maps) =>
           \A k \in Kinds : maps'[i].runs[k] = 0
      /\ \A e \in Dirs : records[e] # 0 => records'[e] = records[e]
      /\ \A e \in Dirs : records'[e] # 0 => maps'[records'[e]].dir = e
      /\ \A e \in Dirs : records'[e] # 0 =>
           \A k \in maps'[records'[e]].made \ maps'[records'[e]].late :
             \/ records[e] # 0 /\ k \in maps[records[e]].made \ maps[records[e]].late
             \/ Disposing(e) = {}
  BY UseEffect DEF DisposeInv
<1>3. \A p \in Procs : Disposer(p) => at[p].map \in 1..Len(maps)
  BY DisposerTyped
<1>4. \A p \in Procs : Disposer(p)' <=> Disposer(p)
  BY <1>1 DEF Disposer
<1>5. OwnMaps'
  BY <1>1, <1>2, <1>3, <1>4 DEF DisposeInv, OwnMaps
<1>6. AllAreCalled'
  <2> SUFFICES ASSUME NEW p \in Procs, NEW e \in Dirs, Disposer(p), boots[at[p].boot].dir = e,
                      records'[e] # 0,
                      NEW k \in maps'[records'[e]].made \ maps'[records'[e]].late
               PROVE  /\ at[p].map = records'[e]
                      /\ k \in tasks[p] \/ maps'[records'[e]].runs[k] > 0
    BY <1>1, <1>4 DEF AllAreCalled
  <2>1. p \in Disposing(e)
    BY DisposingIs
  <2>2. records[e] # 0 /\ k \in maps[records[e]].made \ maps[records[e]].late
    BY <1>2, <2>1
  <2>3. records[e] \in 1..Len(maps) /\ records'[e] = records[e]
    BY <1>2, <2>2, RecordTyped
  <2>4. at[p].map = records[e] /\ (k \in tasks[p] \/ maps[records[e]].runs[k] > 0)
    BY <2>2 DEF DisposeInv, AllAreCalled
  <2>5. maps'[records[e]].runs = maps[records[e]].runs
    BY <1>2, <2>3
  <2> QED
    BY <2>3, <2>4, <2>5
<1>7. RunOnce'
  BY <1>2 DEF DisposeInv, RunOnce
<1>8. SharedIsMarked'
  BY <1>1, <1>2, <1>3, <1>4 DEF DisposeInv, SharedIsMarked
<1>9. PendingNotRun'
  BY <1>1, <1>2, <1>3, <1>4 DEF DisposeInv, PendingNotRun
<1>10. RestIsClean'
  BY <1>1, <1>2, <1>4 DEF DisposeInv, RestIsClean
<1> QED
  BY <1>5, <1>6, <1>7, <1>8, <1>9, <1>10 DEF DisposeInv

LEMMA EnterDisposals ==
  ASSUME TypedInv, DisposeInv, NEW p \in Procs, NEW d \in Dirs,
         NEW l \in {"dispose", "reload"}, Calls(p, d, l), records[d] # 0
  PROVE  DisposeInv'
<1>1. /\ StateDispose(p, d, l) /\ records' = records /\ ~Disposer(p)
      /\ d = boots[at[p].boot].dir
  BY DEF Calls, CallDispose, Disposer
<1> DEFINE i == records[d]
<1>2. /\ pc' = [pc EXCEPT ![p] = l]
      /\ at'[p].boot = at[p].boot /\ at'[p].map = i
      /\ \A q \in Procs : q # p => at'[q] = at[q]
      /\ tasks' = [tasks EXCEPT ![p] = maps[i].made]
      /\ Len(maps') = Len(maps) /\ boots' = boots
      /\ \A j \in 1..Len(maps) : j # i => maps'[j] = maps[j]
      /\ maps'[i].dir = maps[i].dir /\ maps'[i].made = maps[i].made
      /\ maps'[i].late = maps[i].late /\ maps'[i].runs = maps[i].runs
      /\ maps'[i].shared \/ maps'[i] = maps[i]
      /\ (\E q \in Disposing(d) : at[q].map = i) => maps'[i].shared
  <2>1. StateDispose(p, d, l)
    BY <1>1
  <2>2. \A j \in 1..Len(maps) : j # i => maps'[j] = maps[j]
    BY <2>1, EnterDoes
  <2>3. tasks' = [tasks EXCEPT ![p] = maps[i].made] /\ pc' = [pc EXCEPT ![p] = l]
    BY <2>1 DEF StateDispose, Goto
  <2>4. /\ at'[p].boot = at[p].boot /\ at'[p].map = i
        /\ \A q \in Procs : q # p => at'[q] = at[q]
        /\ Len(maps') = Len(maps) /\ boots' = boots
    BY <2>1, EnterDoes
  <2>5. /\ maps'[i].dir = maps[i].dir /\ maps'[i].made = maps[i].made
        /\ maps'[i].late = maps[i].late /\ maps'[i].runs = maps[i].runs
    BY <2>1, EnterDoes
  <2>6. /\ maps'[i].shared \/ maps'[i] = maps[i]
        /\ (\E q \in Disposing(d) : at[q].map = i) => maps'[i].shared
    BY <2>1, EnterDoes
  <2> QED
    BY <2>2, <2>3, <2>4, <2>5, <2>6
<1>3. pc \in [Procs -> {"new", "boot", "inside", "dispose", "reload", "reboot", "walk", "done"}]
      /\ tasks \in [Procs -> SUBSET Kinds]
  BY DEF TypedInv, TypeOK
<1>4. /\ Disposer(p)' /\ tasks'[p] = maps[i].made
      /\ \A q \in Procs : q # p => (Disposer(q)' <=> Disposer(q)) /\ tasks'[q] = tasks[q]
  BY <1>2, <1>3 DEF Disposer
<1>5. \A e \in Dirs : records[e] # 0 => records[e] \in 1..Len(maps)
  BY RecordTyped
<1>6. \A q \in Procs : Disposer(q) => at[q].map \in 1..Len(maps)
  BY DisposerTyped
<1>7. i \in 1..Len(maps) /\ maps[i].dir = d
  BY <1>5 DEF DisposeInv, OwnMaps
<1>8. \A j \in 1..Len(maps) :
        /\ maps'[j].dir = maps[j].dir /\ maps'[j].made = maps[j].made
        /\ maps'[j].late = maps[j].late /\ maps'[j].runs = maps[j].runs
        /\ maps[j].shared => maps'[j].shared
  BY <1>2
<1> HIDE DEF i
<1>9. \A q \in Procs : Disposer(q) /\ at[q].map = i => maps'[i].shared
  <2> SUFFICES ASSUME NEW q \in Procs, Disposer(q), at[q].map = i PROVE maps'[i].shared
    OBVIOUS
  <2>1. boots[at[q].boot].dir = d
    BY <1>7 DEF DisposeInv, OwnMaps
  <2>2. q \in Disposing(d)
    BY <2>1, DisposingIs
  <2> QED
    BY <1>2, <2>2
<1>10. OwnMaps'
  <2>1. ASSUME NEW e \in Dirs, records'[e] # 0 PROVE maps'[records'[e]].dir = e
    <3>1. records'[e] = records[e]
      BY <1>1
    <3>2. maps[records[e]].dir = e
      BY <2>1, <3>1 DEF DisposeInv, OwnMaps
    <3> QED
      BY <1>5, <1>8, <2>1, <3>1, <3>2
  <2>2. ASSUME NEW q \in Procs, Disposer(q)'
        PROVE  maps'[at'[q].map].dir = boots'[at'[q].boot].dir
    <3>1. CASE q = p
      BY <1>1, <1>2, <1>7, <1>8, <3>1
    <3>2. CASE q # p
      <4>1. Disposer(q) /\ at'[q] = at[q] /\ boots' = boots
        BY <1>2, <1>4, <2>2, <3>2
      <4>2. maps[at[q].map].dir = boots[at[q].boot].dir
        BY <4>1 DEF DisposeInv, OwnMaps
      <4> QED
        BY <1>6, <1>8, <4>1, <4>2
    <3> QED
      BY <3>1, <3>2
  <2> QED
    BY <2>1, <2>2 DEF OwnMaps
<1>11. AllAreCalled'
  <2> SUFFICES ASSUME NEW q \in Procs, NEW e \in Dirs, Disposer(q)',
                      boots[at'[q].boot].dir = e, records[e] # 0,
                      NEW k \in maps'[records[e]].made \ maps'[records[e]].late
               PROVE  /\ at'[q].map = records[e]
                      /\ k \in tasks'[q] \/ maps'[records[e]].runs[k] > 0
    BY <1>1, <1>2, ZenonT(40) DEF AllAreCalled
  <2>1. k \in maps[records[e]].made \ maps[records[e]].late
    BY <1>5, <1>8
  <2>2. CASE q = p
    <3>1. e = d /\ records[e] = i
      BY <1>1, <1>2, <2>2 DEF i
    <3> QED
      BY <1>2, <1>4, <2>1, <2>2, <3>1
  <2>3. CASE q # p
    <3>1. Disposer(q) /\ at'[q] = at[q] /\ tasks'[q] = tasks[q]
      BY <1>2, <1>4, <2>3
    <3>2. at[q].map = records[e] /\ (k \in tasks[q] \/ maps[records[e]].runs[k] > 0)
      BY <2>1, <3>1 DEF DisposeInv, AllAreCalled
    <3>3. maps'[records[e]].runs = maps[records[e]].runs
      BY <1>5, <1>8
    <3> QED
      BY <3>1, <3>2, <3>3
  <2> QED
    BY <2>2, <2>3
<1>12. RunOnce'
  BY <1>2, <1>8 DEF DisposeInv, RunOnce
<1>13. SharedIsMarked'
  BY <1>2, <1>4, <1>6, <1>7, <1>8, <1>9 DEF DisposeInv, SharedIsMarked
<1>14. PendingNotRun'
  <2> SUFFICES ASSUME NEW q \in Procs, Disposer(q)', ~maps'[at'[q].map].shared,
                      NEW k \in tasks'[q]
               PROVE  maps'[at'[q].map].runs[k] = 0
    BY DEF PendingNotRun
  <2>1. CASE q = p
    <3>1. \A r \in Procs : ~(Disposer(r) /\ at[r].map = i)
      BY <1>2, <1>9, <2>1
    <3>2. k \in Kinds /\ at'[q].map = i
      <4>1. maps[i] \in Map
        BY RecordTyped DEF i
      <4> QED
        BY <1>2, <1>4, <2>1, <4>1 DEF Map
    <3> QED
      BY <1>7, <1>8, <3>1, <3>2 DEF DisposeInv, RestIsClean
  <2>2. CASE q # p
    BY <1>2, <1>4, <1>6, <1>8, <2>2 DEF DisposeInv, PendingNotRun
  <2> QED
    BY <2>1, <2>2
<1>15. RestIsClean'
  <2> SUFFICES ASSUME NEW j \in 1..Len(maps), NEW k \in Kinds,
                      \A q \in Procs : ~(Disposer(q)' /\ at'[q].map = j)
               PROVE  maps'[j].runs[k] = 0
    BY <1>2 DEF RestIsClean
  <2>1. \A q \in Procs : ~(Disposer(q) /\ at[q].map = j)
    BY <1>1, <1>2, <1>4
  <2> QED
    BY <1>8, <2>1 DEF DisposeInv, RestIsClean
<1> QED
  BY <1>10, <1>11, <1>12, <1>13, <1>14, <1>15 DEF DisposeInv

LEMMA TaskDisposals ==
  ASSUME TypedInv, DisposeInv, NEW p \in Procs, Task(p)
  PROVE  DisposeInv'
<1> DEFINE i == at[p].map
<1>1. PICK k \in tasks[p] :
        /\ tasks' = [tasks EXCEPT ![p] = @ \ {k}]
        /\ maps'[i].dir = maps[i].dir /\ maps'[i].made = maps[i].made
        /\ maps'[i].late = maps[i].late /\ maps'[i].shared = maps[i].shared
        /\ maps'[i].runs[k] = maps[i].runs[k] + 1
        /\ \A j \in Kinds : j # k => maps'[i].runs[j] = maps[i].runs[j]
  BY TaskDoes
<1>2. /\ Disposer(p) /\ Len(maps') = Len(maps)
      /\ \A j \in 1..Len(maps) : j # i => maps'[j] = maps[j]
      /\ UNCHANGED <<boots, records, pc, at>>
  BY TaskDoes
<1>3. /\ tasks \in [Procs -> SUBSET Kinds] /\ k \in Kinds
      /\ i \in 1..Len(maps) /\ maps[i].runs \in [Kinds -> Nat]
  BY <1>2, DisposerTyped DEF TypedInv, TypeOK, Map
<1>4. /\ tasks'[p] = tasks[p] \ {k}
      /\ \A q \in Procs : q # p => tasks'[q] = tasks[q]
      /\ \A q \in Procs : tasks[q] \subseteq Kinds
  BY <1>1, <1>3
<1>5. \A q \in Procs : Disposer(q)' <=> Disposer(q)
  BY <1>2 DEF Disposer
<1>6. \A e \in Dirs : records[e] # 0 => records[e] \in 1..Len(maps) /\ maps[records[e]] \in Map
  BY RecordTyped
<1>7. \A q \in Procs : Disposer(q) => at[q].map \in 1..Len(maps)
  BY DisposerTyped
<1>8. \A j \in 1..Len(maps) :
        /\ maps'[j].dir = maps[j].dir /\ maps'[j].made = maps[j].made
        /\ maps'[j].late = maps[j].late /\ maps'[j].shared = maps[j].shared
  BY <1>1, <1>2
<1>9. maps'[i].runs[k] > 0
  BY <1>1, <1>3, SMTT(30)
<1> HIDE DEF i
<1>10. OwnMaps'
  BY <1>2, <1>5, <1>6, <1>7, <1>8 DEF DisposeInv, OwnMaps
<1>11. AllAreCalled'
  <2> SUFFICES ASSUME NEW q \in Procs, NEW e \in Dirs, Disposer(q),
                      boots[at[q].boot].dir = e, records[e] # 0,
                      NEW j \in maps'[records[e]].made \ maps'[records[e]].late
               PROVE  /\ at[q].map = records[e]
                      /\ j \in tasks'[q] \/ maps'[records[e]].runs[j] > 0
    BY <1>2, <1>5 DEF AllAreCalled
  <2>1. j \in maps[records[e]].made \ maps[records[e]].late /\ j \in Kinds
    BY <1>6, <1>8 DEF Map
  <2>2. at[q].map = records[e] /\ (j \in tasks[q] \/ maps[records[e]].runs[j] > 0)
    BY <2>1 DEF DisposeInv, AllAreCalled
  <2>3. CASE records[e] = i
    <3>1. CASE j = k
      BY <1>9, <2>2, <2>3, <3>1
    <3>2. CASE j # k
      <4>1. maps'[i].runs[j] = maps[i].runs[j]
        BY <1>1, <2>1, <3>2
      <4>2. j \in tasks[q] => j \in tasks'[q]
        BY <1>4, <3>2
      <4> QED
        BY <2>2, <2>3, <4>1, <4>2
    <3> QED
      BY <3>1, <3>2
  <2>4. CASE records[e] # i
    <3>1. maps'[records[e]] = maps[records[e]]
      BY <1>2, <1>6, <2>4
    <3>2. q # p
      BY <2>2, <2>4 DEF i
    <3> QED
      BY <1>4, <2>2, <3>1, <3>2
  <2> QED
    BY <2>3, <2>4
<1>12. RunOnce'
  <2> SUFFICES ASSUME NEW j \in 1..Len(maps), ~maps'[j].shared, NEW h \in Kinds
               PROVE  maps'[j].runs[h] <= 1
    BY <1>2 DEF RunOnce
  <2>1. ~maps[j].shared /\ maps[j].runs[h] <= 1
    BY <1>8 DEF DisposeInv, RunOnce
  <2>2. CASE j = i
    <3>1. maps[i].runs[k] = 0
      BY <1>2, <2>1, <2>2 DEF DisposeInv, PendingNotRun, i
    <3> QED
      BY <1>1, <2>1, <2>2, <3>1
  <2>3. CASE j # i
    BY <1>2, <2>1, <2>3
  <2> QED
    BY <2>2, <2>3
<1>13. SharedIsMarked'
  BY <1>2, <1>5, <1>7, <1>8 DEF DisposeInv, SharedIsMarked
<1>14. PendingNotRun'
  <2> SUFFICES ASSUME NEW q \in Procs, Disposer(q), ~maps[at[q].map].shared,
                      NEW j \in tasks'[q]
               PROVE  maps'[at[q].map].runs[j] = 0
    BY <1>2, <1>5, <1>7, <1>8 DEF PendingNotRun
  <2>1. CASE q = p
    <3>1. j \in tasks[p] /\ j # k /\ j \in Kinds
      BY <1>4, <2>1
    <3> QED
      BY <1>1, <2>1, <3>1 DEF DisposeInv, PendingNotRun, i
  <2>2. CASE q # p
    <3>1. at[q].map # i
      BY <1>2, <2>2 DEF DisposeInv, SharedIsMarked, i
    <3> QED
      BY <1>2, <1>4, <1>7, <2>2, <3>1 DEF DisposeInv, PendingNotRun
  <2> QED
    BY <2>1, <2>2
<1>15. RestIsClean'
  <2> SUFFICES ASSUME NEW j \in 1..Len(maps), NEW h \in Kinds,
                      \A q \in Procs : ~(Disposer(q) /\ at[q].map = j)
               PROVE  maps'[j].runs[h] = 0
    BY <1>2, <1>5 DEF RestIsClean
  <2>1. j # i
    BY <1>2 DEF i
  <2> QED
    BY <1>2, <2>1 DEF DisposeInv, RestIsClean
<1> QED
  BY <1>10, <1>11, <1>12, <1>13, <1>14, <1>15 DEF DisposeInv

\* p is out of the disposal, and nobody else moves.
LEMMA DisposedMoves ==
  ASSUME TypedInv, NEW p \in Procs, NEW d \in Dirs, NEW l, Disposed(p, d, l)
  PROVE  /\ ~Disposer(p)'
         /\ \A q \in Procs : q # p => (Disposer(q)' <=> Disposer(q)) /\ at'[q] = at[q]
         /\ \A i \in 1..Len(boots) : boots'[i] = boots[i]
<1>1. /\ pc \in [Procs -> {"new", "boot", "inside", "dispose", "reload", "reboot", "walk", "done"}]
      /\ at \in [Procs -> [boot : 0..Len(boots), map : 0..Len(maps)]]
  BY DEF TypedInv, TypeOK
<1>2. CASE l = "reload"
  <2>1. Track(p, d) /\ pc' = [pc EXCEPT ![p] = "reboot"]
    BY <1>2 DEF Disposed, Goto
  <2> QED
    BY <1>1, <2>1, TrackDoes DEF Disposer
<1>3. CASE l # "reload"
  <2>1. /\ pc' = [pc EXCEPT ![p] = IF p = Pass THEN "walk" ELSE "done"]
        /\ at' = [at EXCEPT ![p] = Nowhere]
        /\ boots' = boots
    BY <1>3 DEF Disposed, Done, Goto
  <2> QED
    BY <1>1, <2>1 DEF Disposer
<1> QED
  BY <1>2, <1>3

LEMMA EndDisposals ==
  ASSUME TypedInv, DisposeInv, NEW p \in Procs, EndDispose(p)
  PROVE  DisposeInv'
<1> DEFINE d == boots[at[p].boot].dir
           i == at[p].map
<1>1. /\ Disposer(p) /\ tasks[p] = {} /\ DropMap(p) /\ d \in Dirs
      /\ Disposed(p, d, pc[p])
  BY EndDisposeTyped
<1>2. /\ records'[d] = 0
      /\ \A e \in Dirs : e # d => records'[e] = records[e]
      /\ Len(maps') = Len(maps)
      /\ \A j \in 1..Len(maps) : j # i => maps'[j] = maps[j]
      /\ maps'[i].dir = d /\ \A k \in Kinds : maps'[i].runs[k] = 0
      /\ \A q \in Disposing(d) : q # p /\ at[q].map = i => maps'[i].shared
  BY <1>1, DropDoes
<1>3. /\ ~Disposer(p)'
      /\ \A q \in Procs : q # p => (Disposer(q)' <=> Disposer(q)) /\ at'[q] = at[q]
      /\ \A j \in 1..Len(boots) : boots'[j] = boots[j]
  BY <1>1, DisposedMoves
<1>4. tasks' = tasks
  BY DEF EndDispose
<1>5. \A e \in Dirs : records[e] # 0 => records[e] \in 1..Len(maps)
  BY RecordTyped
<1>6. \A q \in Procs : Disposer(q) => at[q].map \in 1..Len(maps) /\ at[q].boot \in 1..Len(boots)
  BY DisposerTyped, PlaceTyped DEF Disposer
<1>7. i \in 1..Len(maps) /\ maps[i].dir = d
  BY <1>1, <1>6 DEF DisposeInv, OwnMaps
<1>8. \A q \in Procs : q # p /\ Disposer(q) /\ at[q].map = i => maps'[i].shared
  <2> SUFFICES ASSUME NEW q \in Procs, q # p, Disposer(q), at[q].map = i
               PROVE  maps'[i].shared
    OBVIOUS
  <2>1. boots[at[q].boot].dir = d
    BY <1>7 DEF DisposeInv, OwnMaps
  <2>2. q \in Disposing(d)
    BY <1>1, <2>1, DisposingIs
  <2> QED
    BY <1>2, <2>2
<1>9. \A e \in Dirs : records'[e] # 0 => e # d /\ records[e] # i /\ records'[e] = records[e]
  BY <1>2, <1>7 DEF DisposeInv, OwnMaps
<1> HIDE DEF d, i
<1>10. OwnMaps'
  <2>1. \A j \in 1..Len(maps) : maps'[j].dir = maps[j].dir
    BY <1>2, <1>7
  <2>2. \A e \in Dirs : records'[e] # 0 => maps'[records'[e]].dir = e
    BY <1>5, <1>9, <2>1 DEF DisposeInv, OwnMaps
  <2>3. \A q \in Procs : Disposer(q)' => maps'[at'[q].map].dir = boots'[at'[q].boot].dir
    <3> SUFFICES ASSUME NEW q \in Procs, Disposer(q)'
                 PROVE  maps'[at'[q].map].dir = boots'[at'[q].boot].dir
      OBVIOUS
    <3>1. q # p /\ Disposer(q) /\ at'[q] = at[q]
      BY <1>3
    <3>2. at[q].map \in 1..Len(maps) /\ at[q].boot \in 1..Len(boots)
      BY <1>6, <3>1
    <3>3. maps[at[q].map].dir = boots[at[q].boot].dir
      BY <3>1 DEF DisposeInv, OwnMaps
    <3>4. maps'[at[q].map].dir = maps[at[q].map].dir
      BY <2>1, <3>2
    <3>5. boots'[at[q].boot] = boots[at[q].boot]
      BY <1>3, <3>2
    <3> QED
      BY <3>1, <3>3, <3>4, <3>5
  <2> QED
    BY <2>2, <2>3 DEF OwnMaps
<1>11. AllAreCalled'
  <2> SUFFICES ASSUME NEW q \in Procs, NEW e \in Dirs, Disposer(q)',
                      boots'[at'[q].boot].dir = e, records'[e] # 0,
                      NEW k \in maps'[records'[e]].made \ maps'[records'[e]].late
               PROVE  /\ at'[q].map = records'[e]
                      /\ k \in tasks'[q] \/ maps'[records'[e]].runs[k] > 0
    BY DEF AllAreCalled
  <2>1. q # p /\ Disposer(q) /\ at'[q] = at[q] /\ boots[at[q].boot].dir = e
    BY <1>3, <1>6
  <2>2. records'[e] = records[e] /\ maps'[records[e]] = maps[records[e]]
    BY <1>2, <1>5, <1>9
  <2>3. at[q].map = records[e] /\ (k \in tasks[q] \/ maps[records[e]].runs[k] > 0)
    BY <2>1, <2>2 DEF DisposeInv, AllAreCalled
  <2> QED
    BY <1>4, <2>1, <2>2, <2>3
<1>12. RunOnce'
  BY <1>2 DEF DisposeInv, RunOnce
<1>13. SharedIsMarked'
  BY <1>2, <1>3, <1>6, <1>8 DEF DisposeInv, SharedIsMarked
<1>14. PendingNotRun'
  <2> SUFFICES ASSUME NEW q \in Procs, Disposer(q)', ~maps'[at'[q].map].shared,
                      NEW k \in tasks[q]
               PROVE  maps'[at'[q].map].runs[k] = 0
    BY <1>4 DEF PendingNotRun
  <2>1. q # p /\ Disposer(q) /\ at'[q] = at[q] /\ at[q].map \in 1..Len(maps)
    BY <1>3, <1>6
  <2>2. at[q].map # i
    BY <1>8, <2>1
  <2> QED
    BY <1>2, <2>1, <2>2 DEF DisposeInv, PendingNotRun
<1>15. RestIsClean'
  <2> SUFFICES ASSUME NEW j \in 1..Len(maps), NEW k \in Kinds,
                      \A q \in Procs : ~(Disposer(q)' /\ at'[q].map = j)
               PROVE  maps'[j].runs[k] = 0
    BY <1>2 DEF RestIsClean
  <2>1. CASE j = i
    BY <1>2, <2>1
  <2>2. CASE j # i
    <3>1. \A q \in Procs : ~(Disposer(q) /\ at[q].map = j)
      BY <1>3, <2>2 DEF i
    <3> QED
      BY <1>2, <2>2, <3>1 DEF DisposeInv, RestIsClean
  <2> QED
    BY <2>1, <2>2
<1> QED
  BY <1>10, <1>11, <1>12, <1>13, <1>14, <1>15 DEF DisposeInv

\* Steps that neither begin nor end a disposal, and leave the maps alone.
LEMMA OtherDisposals ==
  ASSUME TypedInv, DisposeInv, SameDisposals, UNCHANGED <<records, maps, tasks>>
  PROVE  DisposeInv'
BY QuietDisposals DEF SameStates

LEMMA DisposeStep == TypedInv /\ DisposeInv /\ [Next]_vars => DisposeInv'
<1> SUFFICES ASSUME TypedInv, DisposeInv, [Next]_vars PROVE DisposeInv'
  OBVIOUS
<1>1. /\ pc \in [Procs -> {"new", "boot", "inside", "dispose", "reload", "reboot", "walk", "done"}]
      /\ at \in [Procs -> [boot : 0..Len(boots), map : 0..Len(maps)]]
  BY DEF TypedInv, TypeOK
<1>2. \A p \in Procs : Disposer(p) => at[p].boot \in 1..Len(boots)
  BY PlaceTyped DEF Disposer
<1>3. Pass \in Procs /\ Pass \notin Requests /\ Requests \subseteq Procs
  BY PassAssumption DEF Procs
<1>4. ASSUME UNCHANGED <<boots, pc, at, records, maps, tasks>> PROVE DisposeInv'
  <2>1. SameDisposals
    BY <1>4 DEF SameDisposals, Disposer
  <2> QED
    BY <1>4, <2>1, OtherDisposals
<1>5. CASE \E d \in Dirs : UseState(d)
  BY <1>5, UseDisposals
<1>6. ASSUME NEW g \in 1..Len(boots), Booted(g) \/ BootFails(g) PROVE DisposeInv'
  <2>1. PICK ok \in BOOLEAN : Settled(g, ok)
    BY <1>6 DEF Booted, BootFails
  <2>2. \A i \in 1..Len(boots) : boots'[i].dir = boots[i].dir
    BY <2>1, SettledDoes
  <2>3. SameDisposals
    BY <1>2, <2>1, <2>2, SettledMoves DEF SameDisposals, Disposer
  <2> QED
    BY <2>1, <2>3, OtherDisposals DEF Settled
<1>7. ASSUME NEW r \in Requests, NEW d \in Dirs, Provide(r, d) PROVE DisposeInv'
  <2>1. UNCHANGED <<records, maps, tasks>> /\ pc[r] = "new"
    BY <1>7 DEF Provide
  <2>2. CASE cache[d] = 0
    <3>1. Track(r, d) /\ pc' = [pc EXCEPT ![r] = "boot"]
      BY <1>7, <2>2 DEF Provide, Goto
    <3>2. /\ \A q \in Procs : q # r => at'[q] = at[q]
          /\ \A i \in 1..Len(boots) : boots'[i] = boots[i]
      BY <1>3, <3>1, TrackDoes
    <3>3. SameDisposals
      BY <1>1, <1>2, <1>3, <2>1, <3>1, <3>2 DEF SameDisposals, Disposer
    <3> QED
      BY <2>1, <3>3, OtherDisposals
  <2>3. CASE cache[d] # 0
    <3>1. /\ at' = [at EXCEPT ![r].boot = cache[d]] /\ boots' = boots
          /\ \E l \in {"boot", "inside"} : pc' = [pc EXCEPT ![r] = l]
      BY <1>7, <2>3 DEF Provide, Goto
    <3>2. SameDisposals
      BY <1>1, <1>3, <2>1, <3>1 DEF SameDisposals, Disposer
    <3> QED
      BY <2>1, <3>2, OtherDisposals
  <2> QED
    BY <2>2, <2>3
<1>8. ASSUME NEW p \in Procs, NEW d \in Dirs, NEW l \in {"dispose", "reload"}, Calls(p, d, l)
      PROVE  DisposeInv'
  <2>1. CASE records[d] = 0
    <3>1. /\ Disposed(p, d, l) /\ UNCHANGED <<records, maps, tasks>> /\ ~Disposer(p)
      BY <1>8, <2>1 DEF Calls, CallDispose, Disposer
    <3>2. SameDisposals
      BY <1>2, <3>1, DisposedMoves DEF SameDisposals
    <3> QED
      BY <3>1, <3>2, OtherDisposals
  <2>2. CASE records[d] # 0
    BY <1>8, <2>2, EnterDisposals
  <2> QED
    BY <2>1, <2>2
<1>9. CASE \E p \in Procs : Task(p) \/ EndDispose(p)
  BY <1>9, TaskDisposals, EndDisposals
<1>10. ASSUME NEW r \in Requests, Leave(r) PROVE DisposeInv'
  <2>1. /\ pc[r] = "inside" /\ pc' = [pc EXCEPT ![r] = "done"]
        /\ at' = [at EXCEPT ![r] = Nowhere]
        /\ UNCHANGED <<boots, records, maps, tasks>>
    BY <1>3, <1>10 DEF Leave, Done, Goto
  <2>2. SameDisposals
    BY <1>1, <2>1 DEF SameDisposals, Disposer
  <2> QED
    BY <2>1, <2>2, OtherDisposals
<1>11. CASE Walk
  <2>1. /\ pc[Pass] = "walk"
        /\ \/ /\ pc' = [pc EXCEPT ![Pass] = "boot"]
              /\ \A q \in Procs : q # Pass => at'[q] = at[q]
           \/ UNCHANGED <<at, pc>>
        /\ UNCHANGED <<boots, records, maps, tasks>>
    BY <1>1, <1>11, WalkDoes
  <2>2. SameDisposals
    BY <1>1, <1>3, <2>1 DEF SameDisposals, Disposer
  <2> QED
    BY <2>1, <2>2, OtherDisposals
<1>12. CASE PassesOver
  <2>1. /\ pc[Pass] = "boot" /\ pc' = [pc EXCEPT ![Pass] = "walk"]
        /\ at' = [at EXCEPT ![Pass] = Nowhere]
        /\ UNCHANGED <<boots, records, maps, tasks>>
    BY <1>12 DEF PassesOver
  <2>2. SameDisposals
    BY <1>1, <1>3, <2>1 DEF SameDisposals, Disposer
  <2> QED
    BY <2>1, <2>2, OtherDisposals
<1>13. CASE EndPass \/ DisposeForConfig
  <2>1. /\ \/ pc' = pc
           \/ /\ pc[Pass] \in {"new", "walk"}
              /\ \E l \in {"new", "walk"} : pc' = [pc EXCEPT ![Pass] = l]
        /\ UNCHANGED <<boots, at, records, maps, tasks>>
    BY <1>13 DEF EndPass, DisposeForConfig, BeginPass, Goto
  <2>2. SameDisposals
    BY <1>1, <1>3, <2>1 DEF SameDisposals, Disposer
  <2> QED
    BY <2>1, <2>2, OtherDisposals
<1>14. CASE WriteConfig \/ UNCHANGED vars
  BY <1>4, <1>14 DEF WriteConfig, vars
<1>15. CASE ResetStateEntry
  <2>1. /\ Len(maps') = Len(maps)
        /\ \A i \in 1..Len(maps) : SameStates(maps[i], maps'[i])
        /\ UNCHANGED <<boots, records, pc, at, tasks>>
    BY <1>15, ResetDoes DEF SameStates
  <2>2. SameDisposals
    BY <2>1 DEF SameDisposals, Disposer
  <2> QED
    BY <2>1, <2>2, QuietDisposals
<1> QED
  BY <1>5, <1>6, <1>7, <1>8, <1>9, <1>10, <1>11, <1>12, <1>13, <1>14, <1>15, NextCases

\* Only the end of a disposal takes a map away from its directory.
LEMMA OnlyEndDrops ==
  ASSUME TypedInv, [Next]_vars, NEW d \in Dirs, records[d] # 0, records'[d] # records[d]
  PROVE  \E p \in Procs : EndDispose(p) /\ boots[at[p].boot].dir = d
<1>1. ASSUME NEW e \in Dirs, UseState(e) PROVE records'[d] = records[d]
  <2>1. PICK m \in Map : Store(e, m)
    BY <1>1, UseDoes
  <2> QED
    BY <2>1, StoreDoes
<1>2. ASSUME NEW p \in Procs, EndDispose(p), boots[at[p].boot].dir # d
      PROVE  records'[d] = records[d]
  BY <1>2, EndDisposeTyped, DropDoes
<1>3. ~UNCHANGED records
  OBVIOUS
<1> QED
  BY <1>1, <1>2, <1>3, NextCases
     DEF Booted, BootFails, Settled, Leave, Provide, Calls, CallDispose, Task, Walk,
         PassesOver, EndPass, WriteConfig, ResetStateEntry, DisposeForConfig, vars

\* The dispose function of a state that was made before its directory began to be
\* disposed of has run when the map is dropped, and ran once where no two
\* disposals overlapped.
THEOREM StatesAreDisposedOnce == Spec => EachIsDisposedOnce
<1> DEFINE A ==
      /\ \A d \in Dirs : records[d] # 0 /\ records'[d] # records[d] =>
           LET m == maps[records[d]] IN \A k \in m.made \ m.late : m.runs[k] > 0
      /\ \A m \in DOMAIN maps' : ~maps'[m].shared =>
           \A k \in Kinds : maps'[m].runs[k] <= 1
<1>1. Init => DisposeInv
  BY DEF Init, DisposeInv, OwnMaps, AllAreCalled, RunOnce, SharedIsMarked, PendingNotRun,
         RestIsClean, Disposer
<1>2. TypedInv /\ DisposeInv /\ TypedInv' /\ DisposeInv' /\ [Next]_vars => [A]_vars
  <2> SUFFICES ASSUME TypedInv, DisposeInv, TypedInv', DisposeInv', [Next]_vars PROVE A
    OBVIOUS
  <2>1. ASSUME NEW d \in Dirs, records[d] # 0, records'[d] # records[d],
               NEW k \in maps[records[d]].made \ maps[records[d]].late
        PROVE  maps[records[d]].runs[k] > 0
    <3>1. PICK p \in Procs : EndDispose(p) /\ boots[at[p].boot].dir = d
      BY <2>1, OnlyEndDrops
    <3>2. Disposer(p) /\ tasks[p] = {}
      BY <3>1, EndDisposeTyped
    <3> QED
      BY <2>1, <3>1, <3>2 DEF DisposeInv, AllAreCalled
  <2>2. DOMAIN maps' = 1..Len(maps')
    BY DEF TypedInv, TypeOK
  <2>3. \A m \in DOMAIN maps' : ~maps'[m].shared => \A k \in Kinds : maps'[m].runs[k] <= 1
    BY <2>2 DEF DisposeInv, RunOnce
  <2> QED
    BY <2>1, <2>3
<1> QED
  BY <1>1, <1>2, TypedInit, TypedStep, DisposeStep, PTL DEF Spec, EachIsDisposedOnce

(***************************************************************************)
(* The pass.  Once a directory has lost the map it had, or its instance    *)
(* failed, it cannot hold a configuration from before the pass; and the    *)
(* pass is through with an instance only when that is so.                  *)
(***************************************************************************)
Fresh(d) ==
  records[d] # 0 => \/ maps[records[d]].config = 0
                    \/ cover.config <= maps[records[d]].config

InHand(g) == at[Pass].boot = g /\ pc[Pass] \in {"boot", "dispose"}

Settles(g) == boots[g].status = "failed" \/ Fresh(boots[g].dir)

PassInv ==
  /\ cover.config <= config
  /\ \A g \in cover.boots :
       /\ cache[boots[g].dir] # g => Settles(g)
       /\ g \in todo \/ InHand(g) \/ Settles(g)

\* The configuration a directory holds is the one it held, none, or the newest.
LEMMA ConfigMoves ==
  ASSUME TypedInv, [Next]_vars, NEW d \in Dirs, records'[d] # 0
  PROVE  \/ maps'[records'[d]].config \in {0, config}
         \/ /\ records[d] # 0
            /\ maps'[records'[d]].config = maps[records[d]].config
<1> DEFINE Goal == \/ maps'[records'[d]].config \in {0, config}
                   \/ /\ records[d] # 0
                      /\ maps'[records'[d]].config = maps[records[d]].config
<1>1. records[d] # 0 => records[d] \in 1..Len(maps)
  BY RecordTyped
<1>2. ASSUME NEW e \in Dirs, UseState(e) PROVE Goal
  <2>1. PICK m \in Map : Store(e, m) /\ Uses(e, m)
    BY <1>2, UseDoes
  <2>2. /\ maps'[records'[e]] = m
        /\ \A f \in Dirs : f # e => records'[f] = records[f]
        /\ \A i \in 1..Len(maps) : i # records[e] => maps'[i] = maps[i]
        /\ records[e] # 0 => records'[e] = records[e]
    BY <2>1, StoreDoes
  <2>3. m.config \in {Current(e).config, config}
    BY <2>1 DEF Uses
  <2>4. CASE records[e] = 0
    <3>1. Current(e).config = 0
      BY <2>4 DEF Current, NewMap
    <3> QED
      BY <1>1, <2>2, <2>3, <2>4, <3>1
  <2>5. CASE records[e] # 0
    <3>1. Current(e).config = maps[records[e]].config
      BY <2>5 DEF Current
    <3> QED
      BY <1>1, <2>2, <2>3, <2>5, <3>1
  <2> QED
    BY <2>4, <2>5
<1>3. ASSUME NEW p \in Procs, NEW e \in Dirs, NEW l \in {"dispose", "reload"}, Calls(p, e, l)
      PROVE  Goal
  <2>1. records' = records
    BY <1>3 DEF Calls, CallDispose
  <2>2. CASE records[e] = 0
    BY <1>3, <2>1, <2>2 DEF Calls, CallDispose
  <2>3. CASE records[e] # 0
    <3>1. StateDispose(p, e, l)
      BY <1>3, <2>3 DEF Calls, CallDispose
    <3>2. \A i \in 1..Len(maps) : maps'[i].config = maps[i].config
      <4>1. /\ \A i \in 1..Len(maps) : i # records[e] => maps'[i] = maps[i]
            /\ maps'[records[e]].config = maps[records[e]].config
        BY <2>3, <3>1, EnterDoes, SMTT(30)
      <4> QED
        BY <4>1
    <3> QED
      BY <1>1, <2>1, <3>2
  <2> QED
    BY <2>2, <2>3
<1>4. ASSUME NEW p \in Procs, Task(p) PROVE Goal
  <2>1. records' = records /\ \A i \in 1..Len(maps) : maps'[i].config = maps[i].config
    BY <1>4, TaskDoes
  <2> QED
    BY <1>1, <2>1
<1>5. ASSUME NEW p \in Procs, EndDispose(p) PROVE Goal
  <2>1. DropMap(p) /\ Disposer(p)
    BY <1>5, EndDisposeTyped
  <2>2. /\ records'[boots[at[p].boot].dir] = 0
        /\ \A e \in Dirs : e # boots[at[p].boot].dir => records'[e] = records[e]
        /\ \A i \in 1..Len(maps) : i # at[p].map => maps'[i] = maps[i]
        /\ maps'[at[p].map].config = 0
    BY <2>1, DropDoes
  <2> QED
    BY <1>1, <2>2
<1>6. CASE ResetStateEntry
  <2>1. /\ records' = records
        /\ \A i \in 1..Len(maps) : maps'[i].config \in {maps[i].config, 0}
    BY <1>6, ResetDoes
  <2> QED
    BY <1>1, <2>1
<1>7. ASSUME UNCHANGED <<records, maps>> PROVE Goal
  BY <1>7
<1>8. ASSUME NEW g \in 1..Len(boots), Booted(g) \/ BootFails(g) PROVE Goal
  BY <1>7, <1>8 DEF Booted, BootFails, Settled
<1>9. ASSUME NEW r \in Requests, Leave(r) \/ \E e \in Dirs : Provide(r, e) PROVE Goal
  BY <1>7, <1>9 DEF Leave, Provide
<1>10. CASE Walk \/ PassesOver \/ EndPass \/ WriteConfig \/ DisposeForConfig \/ UNCHANGED vars
  BY <1>7, <1>10 DEF Walk, PassesOver, EndPass, WriteConfig, DisposeForConfig, vars
<1>11. CASE \E e \in Dirs : UseState(e)
  BY <1>2, <1>11
<1>12. CASE \E p \in Procs, e \in Dirs, l \in {"dispose", "reload"} : Calls(p, e, l)
  BY <1>3, <1>12
<1>13. CASE \E p \in Procs : Task(p) \/ EndDispose(p)
  BY <1>4, <1>5, <1>13
<1>14. CASE \E g \in 1..Len(boots) : Booted(g) \/ BootFails(g)
  BY <1>8, <1>14
<1>15. CASE \E r \in Requests : Leave(r) \/ \E e \in Dirs : Provide(r, e)
  BY <1>9, <1>15
<1> QED
  BY <1>6, <1>10, <1>11, <1>12, <1>13, <1>14, <1>15, NextCases

LEMMA FreshStays ==
  ASSUME TypedInv, [Next]_vars, cover' = cover, cover.config <= config,
         NEW d \in Dirs, Fresh(d)
  PROVE  Fresh(d)'
<1>1. cover.config \in Nat /\ config \in Nat
  BY BoundAssumption DEF TypedInv, TypeOK
<1> QED
  BY <1>1, ConfigMoves DEF Fresh

\* An instance stays what it is; one that failed has done so for good.
LEMMA BootStays ==
  ASSUME TypedInv, [Next]_vars, NEW g \in 1..Len(boots)
  PROVE  /\ boots'[g].dir = boots[g].dir
         /\ boots[g].status = "failed" => boots'[g].status = "failed"
<1>1. ASSUME NEW h \in 1..Len(boots), Booted(h) \/ BootFails(h)
      PROVE  /\ boots'[g].dir = boots[g].dir
             /\ boots[g].status = "failed" => boots'[g].status = "failed"
  <2>1. PICK ok \in BOOLEAN : Settled(h, ok)
    BY <1>1 DEF Booted, BootFails
  <2>2. /\ boots[h].status = "booting"
        /\ \A i \in 1..Len(boots) : i # h => boots'[i] = boots[i]
        /\ \A i \in 1..Len(boots) : boots'[i].dir = boots[i].dir
    BY <2>1, SettledDoes
  <2> QED
    BY <2>2
<1>2. ASSUME NEW r \in Requests, NEW d \in Dirs, Provide(r, d) PROVE boots'[g] = boots[g]
  <2>1. CASE cache[d] = 0
    <3>1. Track(r, d) /\ r \in Procs
      BY <1>2, <2>1 DEF Provide, Procs
    <3> QED
      BY <3>1, TrackDoes
  <2>2. CASE cache[d] # 0
    BY <1>2, <2>2 DEF Provide
  <2> QED
    BY <2>1, <2>2
<1>3. ASSUME NEW p \in Procs, NEW d \in Dirs, NEW l \in {"dispose", "reload"}, Calls(p, d, l)
      PROVE  boots'[g] = boots[g]
  <2>1. CASE records[d] = 0
    BY <1>3, <2>1, DisposedMoves DEF Calls, CallDispose
  <2>2. CASE records[d] # 0
    BY <1>3, <2>2 DEF Calls, CallDispose, StateDispose
  <2> QED
    BY <2>1, <2>2
<1>4. ASSUME NEW p \in Procs, EndDispose(p) PROVE boots'[g] = boots[g]
  BY <1>4, EndDisposeTyped, DisposedMoves
<1>5. ASSUME NEW d \in Dirs, UseState(d) PROVE boots' = boots
  BY <1>5, UseDoes
<1> QED
  BY <1>1, <1>2, <1>3, <1>4, <1>5, NextCases
     DEF Task, Leave, Walk, PassesOver, EndPass, WriteConfig, ResetStateEntry,
         DisposeForConfig, vars

\* An instance leaves the cache with its map, or because it failed.
LEMMA CacheMoves ==
  ASSUME TypedInv, HoldsNewest, [Next]_vars, NEW d \in Dirs,
         cache[d] # 0, cache'[d] # cache[d]
  PROVE  records'[d] = 0 \/ boots'[cache[d]].status = "failed"
<1>1. cache \in [Dirs -> 0..Len(boots)]
  BY DEF TypedInv, TypeOK
<1>2. ASSUME NEW g \in 1..Len(boots), BootFails(g)
      PROVE  boots'[cache[d]].status = "failed"
  <2>1. /\ Settled(g, FALSE)
        /\ \A e \in Dirs : e # boots[g].dir => cache'[e] = cache[e]
        /\ cache'[boots[g].dir] = IF cache[boots[g].dir] = g THEN 0
                                  ELSE cache[boots[g].dir]
    BY <1>2, FailsTyped
  <2>2. boots'[g].status = "failed"
    BY <2>1, SettledDoes
  <2> QED
    BY <2>1, <2>2
<1>3. ASSUME NEW p \in Procs, NEW e \in Dirs, NEW l, Disposed(p, e, l), e # d
      PROVE  cache'[d] = cache[d]
  <2>1. CASE l = "reload"
    BY <1>3, <2>1, TrackDoes DEF Disposed
  <2>2. CASE l # "reload"
    BY <1>1, <1>3, <2>2 DEF Disposed
  <2> QED
    BY <2>1, <2>2
<1>4. ASSUME NEW p \in Procs, NEW e \in Dirs, NEW l \in {"dispose", "reload"}, Calls(p, e, l)
      PROVE  records'[d] = 0
  <2>1. records[e] = 0
    BY <1>4 DEF Calls, CallDispose, StateDispose
  <2>2. Disposed(p, e, l) /\ records' = records
    BY <1>4, <2>1 DEF Calls, CallDispose
  <2> QED
    BY <1>3, <2>1, <2>2
<1>5. ASSUME NEW p \in Procs, EndDispose(p) PROVE records'[d] = 0
  <2>1. /\ Disposer(p) /\ DropMap(p) /\ boots[at[p].boot].dir \in Dirs
        /\ Disposed(p, boots[at[p].boot].dir, pc[p])
    BY <1>5, EndDisposeTyped
  <2>2. boots[at[p].boot].dir = d
    BY <1>3, <2>1
  <2> QED
    BY <2>1, <2>2, DropDoes
<1>6. ASSUME NEW r \in Requests, NEW e \in Dirs, Provide(r, e) PROVE cache'[d] = cache[d]
  <2>1. CASE cache[e] = 0
    <3>1. Track(r, e) /\ r \in Procs /\ e # d
      BY <1>6, <2>1 DEF Provide, Procs
    <3> QED
      BY <3>1, TrackDoes
  <2>2. CASE cache[e] # 0
    BY <1>6, <2>2 DEF Provide
  <2> QED
    BY <2>1, <2>2
<1>7. ASSUME NEW e \in Dirs, UseState(e) PROVE cache' = cache
  BY <1>7, UseDoes
<1> QED
  BY <1>2, <1>4, <1>5, <1>6, <1>7, NextCases
     DEF Booted, Task, Leave, Walk, PassesOver, EndPass, WriteConfig, ResetStateEntry,
         DisposeForConfig, vars

\* What is settled about an instance stays so while the pass lasts.
LEMMA SettlesStays ==
  ASSUME TypedInv, [Next]_vars, cover' = cover, cover.config <= config,
         NEW g \in 1..Len(boots), Settles(g)
  PROVE  Settles(g)'
<1>1. boots'[g].dir = boots[g].dir /\ boots[g].dir \in Dirs
  BY BootStays, BootTyped
<1>2. CASE boots[g].status = "failed"
  BY <1>2, BootStays DEF Settles
<1>3. CASE Fresh(boots[g].dir)
  <2> DEFINE d == boots[g].dir
  <2>1. Fresh(d)'
    <3>1. d \in Dirs /\ Fresh(d)
      BY <1>1, <1>3
    <3>2. \A e \in Dirs : Fresh(e) => (records'[e] # 0 => \/ maps'[records'[e]].config = 0
                                        \/ cover'.config <= maps'[records'[e]].config)
      BY FreshStays DEF Fresh
    <3> QED
      BY <1>1, <3>1, <3>2 DEF Fresh
  <2> QED
    BY <1>1, <2>1 DEF Settles, Fresh
<1> QED
  BY <1>2, <1>3 DEF Settles

\* A directory without a map settles its instances.
LEMMA NoMapSettles ==
  ASSUME TypedInv, [Next]_vars, NEW g \in 1..Len(boots), records'[boots[g].dir] = 0
  PROVE  Settles(g)'
BY BootStays DEF Settles, Fresh

\* What the pass does: only at the ends of its own calls does it change place.
LEMMA PassMoves ==
  ASSUME TypedInv, [Next]_vars
  PROVE  \/ /\ pc'[Pass] = pc[Pass]
            /\ at'[Pass].boot = at[Pass].boot
            /\ UNCHANGED <<todo, cover>>
         \/ Walk
         \/ PassesOver
         \/ EndPass
         \/ DisposeForConfig /\ pc[Pass] = "new"
         \/ \E d \in Dirs, l \in {"dispose", "reload"} : Calls(Pass, d, l)
         \/ EndDispose(Pass)
<1> DEFINE Still == /\ pc'[Pass] = pc[Pass]
                    /\ at'[Pass].boot = at[Pass].boot
                    /\ UNCHANGED <<todo, cover>>
<1>1. /\ Pass \in Procs /\ Pass \notin Requests /\ Requests \subseteq Procs
      /\ pc \in [Procs -> {"new", "boot", "inside", "dispose", "reload", "reboot", "walk", "done"}]
      /\ at \in [Procs -> [boot : 0..Len(boots), map : 0..Len(maps)]]
  BY PassAssumption DEF Procs, TypedInv, TypeOK
<1>2. ASSUME NEW d \in Dirs, UseState(d) PROVE Still
  BY <1>2, UseDoes
<1>3. ASSUME NEW g \in 1..Len(boots), Booted(g) \/ BootFails(g) PROVE Still
  <2>1. PICK ok \in BOOLEAN : Settled(g, ok)
    BY <1>3 DEF Booted, BootFails
  <2>2. pc'[Pass] = pc[Pass] /\ at'[Pass] = at[Pass]
    BY <1>1, <2>1, SettledMoves
  <2> QED
    BY <2>1, <2>2 DEF Settled
<1>4. ASSUME NEW r \in Requests, NEW d \in Dirs, Provide(r, d) PROVE Still
  <2>1. UNCHANGED <<todo, cover>> /\ r # Pass /\ r \in Procs
    BY <1>1, <1>4 DEF Provide
  <2>2. \E l : pc' = [pc EXCEPT ![r] = l]
    BY <1>4 DEF Provide, Goto
  <2>3. at'[Pass] = at[Pass]
    <3>1. CASE cache[d] = 0
      <4>1. Track(r, d)
        BY <1>4, <3>1 DEF Provide
      <4> QED
        BY <1>1, <2>1, <4>1, TrackDoes
    <3>2. CASE cache[d] # 0
      BY <1>1, <1>4, <2>1, <3>2 DEF Provide
    <3> QED
      BY <3>1, <3>2
  <2> QED
    BY <1>1, <2>1, <2>2, <2>3
<1>5. ASSUME NEW r \in Requests, Leave(r) PROVE Still
  BY <1>1, <1>5 DEF Leave, Done, Goto
<1>6. ASSUME NEW p \in Procs, p # Pass, NEW d \in Dirs, NEW l, Disposed(p, d, l) PROVE
             pc'[Pass] = pc[Pass] /\ at'[Pass] = at[Pass]
  <2>1. \E k : pc' = [pc EXCEPT ![p] = k]
    BY <1>6 DEF Disposed, Done, Goto
  <2>2. at'[Pass] = at[Pass]
    BY <1>1, <1>6, DisposedMoves
  <2> QED
    BY <1>1, <1>6, <2>1, <2>2
<1>7. ASSUME NEW p \in Procs, p # Pass, NEW d \in Dirs, NEW l \in {"dispose", "reload"},
             Calls(p, d, l)
      PROVE  Still
  <2>1. UNCHANGED <<todo, cover>>
    BY <1>7 DEF Calls
  <2>2. CASE records[d] = 0
    BY <1>6, <1>7, <2>1, <2>2 DEF Calls, CallDispose
  <2>3. CASE records[d] # 0
    <3>1. /\ pc' = [pc EXCEPT ![p] = l]
          /\ at' = [at EXCEPT ![p].map = records[d]]
      BY <1>7, <2>3 DEF Calls, CallDispose, StateDispose, Goto
    <3> QED
      BY <1>1, <1>7, <2>1, <3>1
  <2> QED
    BY <2>2, <2>3
<1>8. ASSUME NEW p \in Procs, p # Pass, EndDispose(p) PROVE Still
  <2>1. boots[at[p].boot].dir \in Dirs /\ Disposed(p, boots[at[p].boot].dir, pc[p])
    BY <1>8, EndDisposeTyped
  <2> QED
    BY <1>6, <1>8, <2>1 DEF EndDispose
<1>9. ASSUME NEW p \in Procs, Task(p) PROVE Still
  BY <1>9 DEF Task
<1>10. CASE WriteConfig \/ ResetStateEntry \/ UNCHANGED vars
  BY <1>10 DEF WriteConfig, ResetStateEntry, vars
<1>11. CASE DisposeForConfig /\ pc[Pass] # "new"
  BY <1>11 DEF DisposeForConfig
<1>12. CASE \E d \in Dirs : UseState(d)
  BY <1>2, <1>12
<1>13. CASE \E g \in 1..Len(boots) : Booted(g) \/ BootFails(g)
  BY <1>3, <1>13
<1>14. CASE \E r \in Requests : Leave(r) \/ \E d \in Dirs : Provide(r, d)
  BY <1>4, <1>5, <1>14
<1>15. CASE \E p \in Procs, d \in Dirs, l \in {"dispose", "reload"} : Calls(p, d, l)
  BY <1>7, <1>15
<1>16. CASE \E p \in Procs : Task(p) \/ EndDispose(p)
  BY <1>8, <1>9, <1>16
<1> QED
  BY <1>10, <1>11, <1>12, <1>13, <1>14, <1>15, <1>16, NextCases

\* One instance of the pass, over a step that keeps what the pass began with.
LEMMA CoverStep ==
  ASSUME TypedInv, HoldsNewest, PassInv, [Next]_vars, cover' = cover, ~EndPass,
         ~(DisposeForConfig /\ pc[Pass] = "new"), NEW g \in cover.boots
  PROVE  /\ cache'[boots'[g].dir] # g => Settles(g)'
         /\ g \in todo' \/ InHand(g)' \/ Settles(g)'
<1>1. /\ g \in 1..Len(boots) /\ boots[g].dir \in Dirs /\ cover.config <= config
      /\ boots'[g].dir = boots[g].dir
  <2>1. g \in 1..Len(boots)
    BY DEF TypedInv, TypeOK
  <2> QED
    BY <2>1, BootTyped, BootStays DEF PassInv
<1>2. /\ cache[boots[g].dir] # g => Settles(g)
      /\ g \in todo \/ InHand(g) \/ Settles(g)
  BY DEF PassInv
<1>3. Settles(g) => Settles(g)'
  BY <1>1, SettlesStays
<1>4. ASSUME cache'[boots[g].dir] # g PROVE Settles(g)'
  <2>1. CASE cache[boots[g].dir] = g
    <3>1. cache[boots[g].dir] # 0 /\ cache'[boots[g].dir] # cache[boots[g].dir]
      BY <1>1, <1>4, <2>1
    <3>2. records'[boots[g].dir] = 0 \/ boots'[g].status = "failed"
      BY <1>1, <2>1, <3>1, CacheMoves
    <3>3. CASE records'[boots[g].dir] = 0
      BY <1>1, <3>3, NoMapSettles
    <3>4. CASE boots'[g].status = "failed"
      BY <3>4 DEF Settles
    <3> QED
      BY <3>2, <3>3, <3>4
  <2>2. CASE cache[boots[g].dir] # g
    BY <1>2, <1>3, <2>2
  <2> QED
    BY <2>1, <2>2
<1>5. ASSUME ~Settles(g)' PROVE g \in todo' \/ InHand(g)'
  <2>1. cache[boots[g].dir] = g /\ cache'[boots[g].dir] = g /\ (g \in todo \/ InHand(g))
    BY <1>2, <1>3, <1>4, <1>5
  <2>2. CASE Walk
    <3>1. Pass \in Procs /\ pc[Pass] = "walk" /\ DOMAIN pc = Procs /\ DOMAIN at = Procs
      BY <2>2 DEF Walk, Procs, TypedInv, TypeOK
    <3>2. PICK h \in todo :
            /\ todo' = todo \ {h}
            /\ \/ /\ at' = [at EXCEPT ![Pass] = [boot |-> h, map |-> 0]]
                  /\ pc' = [pc EXCEPT ![Pass] = "boot"]
               \/ cache[boots[h].dir] # h
      BY <2>2, WalkDoes
    <3>3. g \in todo
      BY <2>1, <3>1 DEF InHand
    <3>4. CASE h = g
      <4>1. at'[Pass].boot = g /\ pc'[Pass] = "boot"
        BY <2>1, <3>1, <3>2, <3>4
      <4> QED
        BY <4>1 DEF InHand
    <3>5. CASE h # g
      BY <3>2, <3>3, <3>5
    <3> QED
      BY <3>4, <3>5
  <2>3. CASE PassesOver
    <3>1. InHand(g) => Settles(g)
      BY <1>2, <2>3 DEF PassesOver, InHand, Settles
    <3>2. todo' = todo
      BY <2>3 DEF PassesOver
    <3> QED
      BY <1>3, <1>5, <2>1, <3>1, <3>2
  <2>4. ASSUME NEW d \in Dirs, NEW l \in {"dispose", "reload"}, Calls(Pass, d, l)
        PROVE  g \in todo' \/ InHand(g)'
    <3>1. /\ d = boots[at[Pass].boot].dir /\ todo' = todo /\ l = "dispose"
          /\ CallDispose(Pass, d, l) /\ records' = records /\ Pass \in Procs
      BY <2>4 DEF Calls, InRole, CallDispose, Procs
    <3>2. CASE records[d] = 0
      <4>1. InHand(g) => records'[boots[g].dir] = 0
        BY <3>1, <3>2 DEF InHand
      <4> QED
        BY <1>1, <1>5, <2>1, <3>1, <4>1, NoMapSettles
    <3>3. CASE records[d] # 0
      <4>1. pc' = [pc EXCEPT ![Pass] = l] /\ at' = [at EXCEPT ![Pass].map = records[d]]
        BY <3>1, <3>3 DEF CallDispose, StateDispose, Goto
      <4>2. /\ pc \in [Procs -> {"new", "boot", "inside", "dispose", "reload", "reboot", "walk", "done"}]
            /\ at \in [Procs -> [boot : 0..Len(boots), map : 0..Len(maps)]]
        BY DEF TypedInv, TypeOK
      <4>3. pc'[Pass] = "dispose" /\ at'[Pass].boot = at[Pass].boot
        BY <3>1, <4>1, <4>2
      <4> QED
        BY <2>1, <3>1, <4>3 DEF InHand
    <3> QED
      BY <3>2, <3>3
  <2>5. CASE EndDispose(Pass)
    <3>1. Disposer(Pass) /\ DropMap(Pass) /\ Pass \in Procs /\ todo' = todo
      BY <2>5, EndDisposeTyped DEF Procs, EndDispose
    <3>2. records'[boots[at[Pass].boot].dir] = 0
      BY <3>1, DropDoes
    <3>3. InHand(g) => records'[boots[g].dir] = 0
      BY <3>2 DEF InHand
    <3> QED
      BY <1>1, <1>5, <2>1, <3>1, <3>3, NoMapSettles
  <2>6. CASE /\ pc'[Pass] = pc[Pass]
             /\ at'[Pass].boot = at[Pass].boot
             /\ UNCHANGED <<todo, cover>>
    BY <2>1, <2>6 DEF InHand
  <2> QED
    BY <2>2, <2>3, <2>4, <2>5, <2>6, PassMoves
<1> QED
  BY <1>1, <1>4, <1>5

LEMMA PassInvStep == TypedInv /\ HoldsNewest /\ PassInv /\ [Next]_vars => PassInv'
<1> SUFFICES ASSUME TypedInv, HoldsNewest, PassInv, [Next]_vars PROVE PassInv'
  OBVIOUS
<1>1. config \in Nat /\ cover.config \in Nat /\ cover.config <= config
  BY BoundAssumption DEF TypedInv, TypeOK, PassInv
<1>2. config' \in {config, config + 1}
  <2>1. ASSUME NEW d \in Dirs, UseState(d) PROVE config' = config
    BY <2>1, UseDoes
  <2> QED
    BY <2>1, NextCases
       DEF Booted, BootFails, Settled, Leave, Provide, Calls, Task, EndDispose, Walk,
           PassesOver, EndPass, WriteConfig, ResetStateEntry, DisposeForConfig, vars
<1>3. CASE EndPass
  <2>1. cover'.boots = {} /\ cover'.config = 0 /\ config' = config
    BY <1>3 DEF EndPass
  <2> QED
    BY <1>1, <2>1 DEF PassInv
<1>4. CASE DisposeForConfig /\ pc[Pass] = "new"
  <2>1. /\ todo' = {cache[d] : d \in Dirs} \ {0}
        /\ cover'.boots = todo' /\ cover'.config = config
        /\ UNCHANGED <<cache, boots, config>>
    BY <1>4 DEF DisposeForConfig, BeginPass
  <2>2. ASSUME NEW g \in todo' PROVE cache'[boots'[g].dir] = g
    <3>1. PICK d \in Dirs : g = cache[d] /\ cache[d] # 0
      BY <2>1, <2>2
    <3> QED
      BY <2>1, <3>1 DEF HoldsNewest
  <2> QED
    BY <1>1, <2>1, <2>2 DEF PassInv
<1>5. CASE ~EndPass /\ ~(DisposeForConfig /\ pc[Pass] = "new")
  <2>1. cover' = cover
    BY <1>5, PassMoves DEF Walk, PassesOver, Calls, EndDispose
  <2>2. cover'.config <= config'
    BY <1>1, <1>2, <2>1
  <2> QED
    BY <1>5, <2>1, <2>2, CoverStep DEF PassInv
<1> QED
  BY <1>3, <1>4, <1>5

\* When a pass ends, what it began with has failed, or its directory holds no
\* configuration older than the pass.
THEOREM NothingStaleIsLeft == Spec => PassLeavesNothingStale
<1> DEFINE A ==
      EndPass => \A g \in cover.boots :
        boots[g].status = "ready" /\ records[DirOf(g)] # 0
          => maps[records[DirOf(g)]].config \in {0} \cup cover.config..MaxConfig
<1>1. Init => PassInv
  BY DEF Init, PassInv
<1>2. TypedInv /\ PassInv /\ [Next]_vars => [A]_vars
  <2> SUFFICES ASSUME TypedInv, PassInv, EndPass, NEW g \in cover.boots,
                      boots[g].status = "ready", records[DirOf(g)] # 0
               PROVE  maps[records[DirOf(g)]].config \in {0} \cup cover.config..MaxConfig
    OBVIOUS
  <2>1. g \in 1..Len(boots)
    BY DEF TypedInv, TypeOK
  <2>2. DirOf(g) = boots[g].dir /\ boots[g].dir \in Dirs
    BY <2>1, BootTyped
  <2>3. g \notin todo /\ ~InHand(g)
    BY DEF EndPass, InHand
  <2>4. Fresh(boots[g].dir)
    BY <2>3 DEF PassInv, Settles
  <2>5. maps[records[boots[g].dir]].config \in 0..MaxConfig
    BY <2>2, RecordTyped DEF Map
  <2>6. cover.config \in Nat /\ MaxConfig \in Nat
    BY BoundAssumption DEF TypedInv, TypeOK
  <2> QED
    BY <2>2, <2>4, <2>5, <2>6 DEF Fresh
<1> QED
  BY <1>1, <1>2, TypedInit, TypedStep, PassInvStep, NewestHolds, PTL
     DEF Spec, PassLeavesNothingStale
===============================================================================
