-------------------------- MODULE CallFramesProofs --------------------------
(***************************************************************************)
(* Proofs about CallFrames for every set of contracts, every distribution  *)
(* of funds, every depth limit and every amount of gas.                    *)
(*                                                                         *)
(* The inductive invariant CallInv adds to the checked properties what     *)
(* they rest on: how the frames share the gas of the transaction, which    *)
(* frame has made the interpreter read-only, and what the snapshots of the *)
(* frames above a static call hold.                                        *)
(***************************************************************************)
EXTENDS CallFrames, SequenceTheorems, WellFoundedInduction, TLAPS

Keys == {BalanceKey, SubBalanceKey, NonceKey, CreatAccountKey, SetCodeKey, Slot}
Maps == UNION {[K -> Int] : K \in SUBSET Keys}
Caches == UNION {[S -> Maps] : S \in SUBSET Account}
WriteSets == [cache : Caches, addressCount : Nat, detailKeyCount : Nat]
States == [balance : [Account -> Nat], exist : SUBSET Account, dead : SUBSET Account]
FrameSet == [self : Account, gas : Nat, creates : SUBSET Account, snapshot : States,
             asked : BOOLEAN, set : BOOLEAN,
             before : [cache : Caches, logs : Nat, db : States]]

\* Every variable has its type.
EffectTypes ==
    /\ writeSet \in WriteSets /\ reads \subseteq Account \X {BalanceKey, NonceKey}
    /\ logs \in Nat /\ db \in States
FrameTypes ==
    /\ frames \in Seq(FrameSet) /\ frames # <<>>
    /\ readOnly \in BOOLEAN /\ hasData \in BOOLEAN
    /\ stage \in {"ready", "running", "done", "panic"}

\* How deep the frames are at each stage.
Depths ==
    /\ Len(frames) <= CallCreateDepth + 2
    /\ stage = "ready" => Len(frames) = 1 /\ frames[1].gas = Gas /\ ~readOnly
    /\ stage = "running" => Len(frames) >= 2

\* Each frame has a budget, at most the gas of the transaction, from which the
\* budget of its callee is taken.
Within(fs, budget) ==
    \A i \in 1 .. Len(fs) :
        /\ fs[i].gas <= budget[i]
        /\ i < Len(fs) => fs[i].gas + budget[i + 1] <= budget[i]
Budgets == \E budget \in [1 .. Len(frames) -> 0 .. Gas] : Within(frames, budget)

\* The interpreter is read-only exactly when one frame, a static call or one
\* below it, has made it so; nothing is created above a static call.
StaticMarks ==
    /\ readOnly => \E i \in 1 .. Len(frames) : frames[i].set
    /\ \A i \in 1 .. Len(frames) : frames[i].set => readOnly
    /\ \A i, j \in 1 .. Len(frames) : frames[i].set /\ frames[j].set => i = j
    /\ \A i \in 1 .. Len(frames) : frames[i].asked => \E j \in 1 .. i : frames[j].set
    /\ \A i, j \in 1 .. Len(frames) : frames[i].asked /\ i <= j => frames[j].creates = {}

\* Nothing has changed since b, but for a precompiled contract; and a frame
\* above a static call has a snapshot of which that is true.
Still(b, cache, l, d) ==
    /\ Entries(cache) = Entries(b.cache) \cup (Entries(cache) \cap {<<Precompile, CreatAccountKey>>})
    /\ l = b.logs /\ d.balance = b.db.balance /\ d.dead = b.db.dead
StillSince ==
    \A i \in 1 .. Len(frames) : frames[i].asked => Still(frames[i].before, writeSet.cache, logs, db)
SnapshotsStill ==
    \A i, j \in 1 .. Len(frames) : frames[i].asked /\ i <= j =>
        /\ frames[j].snapshot.balance = frames[i].before.db.balance
        /\ frames[j].snapshot.dead = frames[i].before.db.dead

FramesInv == FrameTypes /\ Depths /\ Budgets /\ StaticMarks
CallInv ==
    FramesInv /\ EffectTypes /\ StillSince /\ SnapshotsStill /\ CreditsRestOnReads
-----------------------------------------------------------------------------
(* Lemmas about the sets.                                                    *)

\* An entry is a key of an account's map.
LEMMA HasEntry ==
    ASSUME NEW set, NEW a, NEW k
    PROVE  Has(set, a, k) <=> <<a, k>> \in Entries(set.cache)
  BY DEF Has, Entries

\* A cache, spelled out.
LEMMA CacheLemma ==
    ASSUME NEW cache \in Caches
    PROVE  /\ DOMAIN cache \in SUBSET Account /\ cache = [a \in DOMAIN cache |-> cache[a]]
           /\ \A a \in DOMAIN cache : /\ cache[a] \in Maps /\ DOMAIN cache[a] \in SUBSET Keys
                                      /\ \A k \in DOMAIN cache[a] : cache[a][k] \in Int
<1>1. PICK S \in SUBSET Account : cache \in [S -> Maps]
  BY DEF Caches
<1>2. ASSUME NEW a \in S
      PROVE  DOMAIN cache[a] \in SUBSET Keys /\ \A k \in DOMAIN cache[a] : cache[a][k] \in Int
  <2>1. cache[a] \in Maps
    BY <1>1
  <2>2. PICK K \in SUBSET Keys : cache[a] \in [K -> Int]
    BY <2>1 DEF Maps
  <2>. QED
    BY <2>2
<1>. QED
  BY <1>1, <1>2

\* Putting a value into the map of an account gives such a map.
LEMMA PutMap ==
    ASSUME NEW m, DOMAIN m \in SUBSET Keys, \A k \in DOMAIN m : m[k] \in Int,
           NEW k \in Keys, NEW v \in Int
    PROVE  Put(m, k, v) \in Maps /\ DOMAIN Put(m, k, v) = DOMAIN m \cup {k}
<1>1. Put(m, k, v) \in [DOMAIN m \cup {k} -> Int]
  BY DEF Put
<1>2. DOMAIN m \cup {k} \in SUBSET Keys
  OBVIOUS
<1>. QED
  BY <1>1, <1>2 DEF Maps

\* An update adds its entry and no other.
LEMMA StoredLemma ==
    ASSUME NEW set \in WriteSets, NEW a \in Account, NEW k \in Keys, NEW v \in Int
    PROVE  /\ Stored(set, a, k, v) \in WriteSets
           /\ Entries(Stored(set, a, k, v).cache) = Entries(set.cache) \cup {<<a, k>>}
<1>. DEFINE cache == set.cache
            m == At(cache, a)
            new == Put(cache, a, Put(m, k, v))
<1>1. set.cache \in Caches /\ set.addressCount \in Nat /\ set.detailKeyCount \in Nat
  BY DEF WriteSets
<1>2. DOMAIN m \in SUBSET Keys /\ \A x \in DOMAIN m : m[x] \in Int
  BY <1>1, CacheLemma DEF At, NoEntries
<1>3. Put(m, k, v) \in Maps /\ DOMAIN Put(m, k, v) = DOMAIN m \cup {k}
  BY <1>2, PutMap
<1>4. new = [b \in DOMAIN cache \cup {a} |-> IF b = a THEN Put(m, k, v) ELSE cache[b]]
  BY Zenon DEF Put
<1>5. new \in Caches
  <2>1. new \in [DOMAIN cache \cup {a} -> Maps]
    BY <1>1, <1>3, <1>4, CacheLemma
  <2>2. DOMAIN cache \cup {a} \in SUBSET Account
    BY <1>1, CacheLemma
  <2>. QED
    BY <2>1, <2>2 DEF Caches
<1>6. Entries(new) = Entries(cache) \cup {<<a, k>>}
  <2>1. a \notin DOMAIN cache => DOMAIN m = {}
    BY DEF At, NoEntries
  <2>2. a \in DOMAIN cache => DOMAIN m = DOMAIN cache[a]
    BY DEF At
  <2>3. DOMAIN new = DOMAIN cache \cup {a} /\ DOMAIN new[a] = DOMAIN m \cup {k}
    BY <1>3, <1>4
  <2>4. \A b \in DOMAIN cache \ {a} : new[b] = cache[b]
    BY <1>4
  <2>. HIDE DEF new, cache, m
  <2>5. ASSUME NEW e PROVE e \in Entries(new) <=> e \in Entries(cache) \cup {<<a, k>>}
    <3>1. CASE \E b \in DOMAIN new : \E x : e = <<b, x>>
      BY <3>1, <2>1, <2>2, <2>3, <2>4 DEF Entries
    <3>2. CASE ~\E b \in DOMAIN new : \E x : e = <<b, x>>
      BY <3>2, <2>3 DEF Entries
    <3>. QED
      BY <3>1, <3>2
  <2>. QED
    BY <2>5
<1>7. Stored(set, a, k, v).cache = new
  BY DEF Stored
<1>8. Stored(set, a, k, v) = [cache |-> new, addressCount |-> Stored(set, a, k, v).addressCount,
                              detailKeyCount |-> Stored(set, a, k, v).detailKeyCount]
  BY DEF Stored
<1>9. Stored(set, a, k, v).addressCount \in Nat /\ Stored(set, a, k, v).detailKeyCount \in Nat
  BY <1>1 DEF Stored
<1>. QED
  BY <1>5, <1>6, <1>7, <1>8, <1>9 DEF WriteSets

\* WriteSet.UpdateCache adds its entry and no other (ethvm.go:300).
LEMMA WriteUpdateLemma ==
    ASSUME NEW set \in WriteSets, NEW a \in Account, NEW k \in Keys, NEW v \in Int, NEW base \in Int
    PROVE  /\ WriteUpdate(set, a, k, v, base) \in WriteSets
           /\ Entries(WriteUpdate(set, a, k, v, base).cache) = Entries(set.cache) \cup {<<a, k>>}
<1>. DEFINE sum == CASE k = BalanceKey    -> (IF Has(set, a, k) THEN ValueOf(set, a, k) ELSE base) + v
                     [] k = SubBalanceKey -> (IF Has(set, a, k) THEN ValueOf(set, a, k) ELSE 0) + v
                     [] OTHER             -> v
<1>1. Has(set, a, k) => ValueOf(set, a, k) \in Int
  <2>1. set.cache \in Caches
    BY DEF WriteSets
  <2>. QED
    BY <2>1, CacheLemma DEF Has, ValueOf
<1>2. sum \in Int
  <2>1. CASE k = BalanceKey
    BY <2>1, <1>1, FramesAssumption
  <2>2. CASE k = SubBalanceKey /\ k # BalanceKey
    BY <2>2, <1>1
  <2>3. CASE k # SubBalanceKey /\ k # BalanceKey
    BY <2>3
  <2>. QED
    BY <2>1, <2>2, <2>3
<1>3. WriteUpdate(set, a, k, v, base) = Stored(set, a, k, sum)
  BY DEF WriteUpdate
<1>. HIDE DEF sum
<1>. QED
  BY <1>2, <1>3, StoredLemma
-----------------------------------------------------------------------------
(* Lemmas about the frames.  A step gives the top frame less gas, pushes a   *)
(* frame, or pops one.                                                       *)

\* What the types say of the frames and of the one on top.
LEMMA FramesLemma ==
    ASSUME FrameTypes
    PROVE  /\ Len(frames) \in Nat \ {0} /\ DOMAIN frames = 1 .. Len(frames)
           /\ \A i \in 1 .. Len(frames) :
                /\ frames[i] \in FrameSet /\ frames[i].gas \in Nat
                /\ frames[i].self \in Account /\ frames[i].snapshot \in States
           /\ top = frames[Len(frames)]
           /\ top \in FrameSet /\ top.gas \in Nat /\ top.self \in Account /\ top.snapshot \in States
<1>1. frames \in Seq(FrameSet) /\ frames # <<>>
  BY DEF FrameTypes
<1>2. Len(frames) \in Nat /\ DOMAIN frames = 1 .. Len(frames)
  BY <1>1
<1>3. Len(frames) # 0
  BY <1>1, EmptySeq
<1>4. \A f \in FrameSet : f.gas \in Nat /\ f.self \in Account /\ f.snapshot \in States
  BY DEF FrameSet
<1>. QED
  BY <1>1, <1>2, <1>3, <1>4 DEF top

\* The frames fs when the last one is left with rest.
Left(fs, rest) == [fs EXCEPT ![Len(fs)].gas = rest]
\* Spending gas changes the gas of the last frame only.
LEMMA LeftLemma ==
    ASSUME NEW fs \in Seq(FrameSet), Len(fs) > 0, NEW rest \in Nat
    PROVE  LET left == Left(fs, rest) IN
           /\ left \in Seq(FrameSet) /\ Len(left) = Len(fs)
           /\ left[Len(fs)].gas = rest
           /\ \A i \in 1 .. Len(fs) :
                /\ i # Len(fs) => left[i].gas = fs[i].gas
                /\ left[i].self = fs[i].self /\ left[i].creates = fs[i].creates
                /\ left[i].snapshot = fs[i].snapshot /\ left[i].before = fs[i].before
                /\ left[i].asked = fs[i].asked /\ left[i].set = fs[i].set
<1>. DEFINE f == fs[Len(fs)]
            g == [f EXCEPT !.gas = rest]
            left == Left(fs, rest)
<1>1. DOMAIN fs = 1 .. Len(fs) /\ Len(fs) \in DOMAIN fs
  OBVIOUS
<1>2. f \in FrameSet
  BY <1>1
<1>3. /\ g \in FrameSet /\ g.gas = rest /\ g.self = f.self /\ g.creates = f.creates
      /\ g.snapshot = f.snapshot /\ g.before = f.before /\ g.asked = f.asked /\ g.set = f.set
  BY <1>2 DEF FrameSet
<1>4. left = [fs EXCEPT ![Len(fs)] = g]
  BY DEF Left
<1>. HIDE DEF g, left
<1>5. left \in Seq(FrameSet) /\ Len(left) = Len(fs)
  BY <1>1, <1>3, <1>4, ExceptSeq
<1>6. left[Len(fs)] = g /\ \A i \in 1 .. Len(fs) : i # Len(fs) => left[i] = fs[i]
  BY <1>1, <1>4
<1>7. /\ left \in Seq(FrameSet) /\ Len(left) = Len(fs)
      /\ left[Len(fs)].gas = rest
      /\ \A i \in 1 .. Len(fs) :
                /\ i # Len(fs) => left[i].gas = fs[i].gas
                /\ left[i].self = fs[i].self /\ left[i].creates = fs[i].creates
                /\ left[i].snapshot = fs[i].snapshot /\ left[i].before = fs[i].before
                /\ left[i].asked = fs[i].asked /\ left[i].set = fs[i].set
  BY <1>3, <1>5, <1>6
<1>. QED
  BY <1>7 DEF left

\* A budget for the top frame remains one when it has less.
LEMMA Continued ==
    ASSUME FramesInv, NEW rest \in 0 .. top.gas, Continue(rest)
    PROVE  FramesInv' /\ Len(frames') = Len(frames)
<1>. DEFINE n == Len(frames)
<1>1. FrameTypes /\ n \in Nat \ {0} /\ top = frames[n] /\ \A i \in 1 .. n : frames[i].gas \in Nat
  BY FramesLemma DEF FramesInv
<1>2. top.gas \in Nat /\ rest \in Nat /\ rest <= top.gas
  BY <1>1
<1>3. /\ frames' = [frames EXCEPT ![n].gas = rest]
      /\ stage' = (IF n = 1 THEN "done" ELSE "running")
      /\ readOnly' = readOnly /\ hasData' = hasData
  BY DEF Continue
<1>4. /\ frames' \in Seq(FrameSet) /\ Len(frames') = n
      /\ frames'[n].gas = rest
      /\ \A i \in 1 .. n :
                /\ i # n => frames'[i].gas = frames[i].gas
                /\ frames'[i].creates = frames[i].creates
                /\ frames'[i].asked = frames[i].asked /\ frames'[i].set = frames[i].set
  <2>1. frames' = Left(frames, rest)
    BY <1>3 DEF Left
  <2>. QED
    BY <1>1, <1>2, <2>1, LeftLemma DEF FrameTypes
<1>. HIDE DEF n
<1>5. FrameTypes'
  <2>1. frames' # <<>>
    BY <1>1, <1>4, EmptySeq
  <2>2. stage' \in {"ready", "running", "done", "panic"}
    BY <1>3
  <2>3. readOnly' \in BOOLEAN /\ hasData' \in BOOLEAN
    BY <1>3 DEF FramesInv, FrameTypes
  <2>. QED
    BY <1>4, <2>1, <2>2, <2>3 DEF FrameTypes
<1>6. Depths'
  BY <1>1, <1>3, <1>4 DEF FramesInv, Depths, n
<1>7. Budgets'
  <2>1. PICK budget \in [1 .. n -> 0 .. Gas] : Within(frames, budget)
    BY DEF FramesInv, Budgets, n
  <2>2. \A i \in 1 .. n : frames'[i].gas <= frames[i].gas
    BY <1>1, <1>2, <1>4
  <2>3. \A i \in 1 .. n : frames'[i].gas \in Nat /\ frames[i].gas \in Nat /\ budget[i] \in Nat
    BY <1>1, <1>2, <1>4, FramesAssumption
  <2>4. Within(frames', budget)
    <3>. SUFFICES ASSUME NEW i \in 1 .. n
                  PROVE  /\ frames'[i].gas <= budget[i]
                         /\ i < n => frames'[i].gas + budget[i + 1] <= budget[i]
      BY <1>4 DEF Within
    <3>1. frames[i].gas <= budget[i] /\ (i < n => frames[i].gas + budget[i + 1] <= budget[i])
      BY <2>1 DEF Within, n
    <3>2. i < n => i + 1 \in 1 .. n
      BY <1>1
    <3>. QED
      BY <2>2, <2>3, <3>1, <3>2
  <2>. QED
    BY <1>4, <2>4 DEF Budgets
<1>8. StaticMarks'
  BY <1>1, <1>3, <1>4 DEF FramesInv, StaticMarks, n
<1>. QED
  BY <1>4, <1>5, <1>6, <1>7, <1>8 DEF FramesInv, n

\* What the top frame gives a callee is the callee's budget.
LEMMA Pushed ==
    ASSUME FramesInv, stage \in {"ready", "running"}, Depth <= CallCreateDepth,
           NEW f \in FrameSet, NEW rest \in Nat, rest + f.gas <= top.gas,
           f.set = (f.asked /\ ~readOnly), readOnly \/ f.asked => f.creates = {},
           Run(f, rest)
    PROVE  /\ FramesInv'
           /\ hasData => frames' = Append(Left(frames, rest), f)
           /\ ~hasData => frames' = frames
<1>. DEFINE n == Len(frames)
            fs == Left(frames, rest)
<1>1. FrameTypes /\ n \in Nat \ {0} /\ top = frames[n] /\ \A i \in 1 .. n : frames[i].gas \in Nat
  BY FramesLemma DEF FramesInv
<1>2. CASE ~hasData
  <2>1. stage' = "panic" /\ UNCHANGED <<frames, readOnly, hasData>>
    BY <1>2 DEF Run
  <2>2. FrameTypes' /\ Depths'
    BY <2>1 DEF FramesInv, FrameTypes, Depths
  <2>3. Budgets'
    BY <2>1 DEF FramesInv, Budgets
  <2>4. StaticMarks'
    BY <2>1 DEF FramesInv, StaticMarks
  <2>. QED
    BY <1>2, <2>1, <2>2, <2>3, <2>4 DEF FramesInv
<1>3. CASE hasData
  <2>1. frames' = Append(fs, f)
    BY <1>3 DEF Run, Left
  <2>2. readOnly' = (readOnly \/ f.asked)
    BY <1>3 DEF Run
  <2>3. stage' = "running" /\ hasData' = hasData
    BY <1>3 DEF Run
  <2>4. /\ fs \in Seq(FrameSet) /\ Len(fs) = n /\ fs[n].gas = rest
        /\ \A i \in 1 .. n : /\ i # n => fs[i].gas = frames[i].gas
                             /\ fs[i].creates = frames[i].creates
                             /\ fs[i].asked = frames[i].asked /\ fs[i].set = frames[i].set
    BY <1>1, LeftLemma DEF FrameTypes
  <2>. HIDE DEF n, fs
  <2>5. /\ frames' \in Seq(FrameSet) /\ Len(frames') = n + 1 /\ frames'[n + 1] = f
        /\ \A i \in 1 .. n : frames'[i] = fs[i]
    BY <1>1, <2>1, <2>4, AppendProperties
  <2>6. FrameTypes'
    <3>1. frames' # <<>>
      BY <1>1, <2>5, EmptySeq
    <3>2. readOnly' \in BOOLEAN
      BY <2>2
    <3>3. hasData' \in BOOLEAN
      BY <1>1, <2>3 DEF FrameTypes
    <3>. QED
      BY <2>3, <2>5, <3>1, <3>2, <3>3 DEF FrameTypes
  <2>7. Depths'
    <3>1. Len(frames') <= CallCreateDepth + 2
      BY <1>1, <2>5, FramesAssumption DEF Depth, n
    <3>. QED
      BY <1>1, <2>3, <2>5, <3>1 DEF Depths
  <2>8. Budgets'
    <3>1. PICK budget \in [1 .. n -> 0 .. Gas] : Within(frames, budget)
      BY DEF FramesInv, Budgets, n
    <3>. DEFINE more == [i \in 1 .. n + 1 |-> IF i = n + 1 THEN f.gas ELSE budget[i]]
    <3>2. f.gas \in Nat /\ f.gas <= top.gas /\ top.gas <= budget[n] /\ budget[n] \in 0 .. Gas
      BY <1>1, <3>1 DEF Within, FrameSet, n
    <3>3. more \in [1 .. n + 1 -> 0 .. Gas]
      BY <1>1, <3>2, FramesAssumption
    <3>4. \A i \in 1 .. n + 1 : more[i] = IF i = n + 1 THEN f.gas ELSE budget[i]
      OBVIOUS
    <3>. HIDE DEF more
    <3>5. Within(frames', more)
      <4>. SUFFICES ASSUME NEW i \in 1 .. n + 1
                    PROVE  /\ frames'[i].gas <= more[i]
                           /\ i < n + 1 => frames'[i].gas + more[i + 1] <= more[i]
        BY <2>5 DEF Within
      <4>1. CASE i = n + 1
        BY <1>1, <2>5, <3>2, <3>4, <4>1
      <4>2. CASE i = n
        <5>1. frames'[i].gas = rest /\ more[i + 1] = f.gas /\ more[i] = budget[n]
          BY <1>1, <2>4, <2>5, <3>4, <4>2
        <5>. QED
          BY <1>1, <3>2, <4>2, <5>1
      <4>3. CASE i \in 1 .. n /\ i < n
        <5>1. frames'[i].gas = frames[i].gas /\ more[i + 1] = budget[i + 1] /\ more[i] = budget[i]
          BY <1>1, <2>4, <2>5, <3>4, <4>3
        <5>2. frames[i].gas <= budget[i] /\ frames[i].gas + budget[i + 1] <= budget[i]
          BY <3>1, <4>3 DEF Within, n
        <5>. QED
          BY <4>3, <5>1, <5>2
      <4>. QED
        BY <1>1, <4>1, <4>2, <4>3
    <3>. QED
      BY <2>5, <3>3, <3>5 DEF Budgets
  <2>9. StaticMarks'
    <3>1. StaticMarks
      BY DEF FramesInv
    <3>2. \A i \in 1 .. n : /\ frames'[i].creates = frames[i].creates
                            /\ frames'[i].asked = frames[i].asked /\ frames'[i].set = frames[i].set
      BY <2>4, <2>5
    <3>3. readOnly' => \E i \in 1 .. n + 1 : frames'[i].set
      <4>1. CASE readOnly
        BY <1>1, <3>1, <3>2, <4>1 DEF StaticMarks, n
      <4>2. CASE ~readOnly
        BY <1>1, <2>2, <2>5, <4>2
      <4>. QED
        BY <4>1, <4>2
    <3>4. ASSUME NEW i \in 1 .. n + 1, frames'[i].set PROVE readOnly'
      <4>1. CASE i = n + 1
        BY <2>2, <2>5, <3>4, <4>1
      <4>2. CASE i \in 1 .. n
        BY <2>2, <3>1, <3>2, <3>4, <4>2 DEF StaticMarks, n
      <4>. QED
        BY <1>1, <4>1, <4>2
    <3>5. ASSUME NEW i \in 1 .. n + 1, NEW j \in 1 .. n + 1, frames'[i].set, frames'[j].set PROVE i = j
      <4>1. f.set => \A k \in 1 .. n : ~frames'[k].set
        BY <3>1, <3>2 DEF StaticMarks, n
      <4>. QED
        BY <1>1, <2>5, <3>1, <3>2, <3>5, <4>1 DEF StaticMarks, n
    <3>6. ASSUME NEW i \in 1 .. n + 1, frames'[i].asked PROVE \E j \in 1 .. i : frames'[j].set
      <4>1. CASE i \in 1 .. n
        BY <1>1, <3>1, <3>2, <3>6, <4>1 DEF StaticMarks, n
      <4>2. CASE i = n + 1 /\ ~readOnly
        BY <1>1, <2>5, <3>6, <4>2
      <4>3. CASE i = n + 1 /\ readOnly
        BY <1>1, <3>1, <3>2, <4>3 DEF StaticMarks, n
      <4>. QED
        BY <1>1, <4>1, <4>2, <4>3
    <3>7. ASSUME NEW i \in 1 .. n + 1, NEW j \in 1 .. n + 1, frames'[i].asked, i <= j
          PROVE  frames'[j].creates = {}
      <4>1. CASE j \in 1 .. n
        BY <1>1, <3>1, <3>2, <3>7, <4>1 DEF StaticMarks, n
      <4>2. CASE j = n + 1 /\ i = n + 1
        BY <2>5, <3>7, <4>2
      <4>3. CASE j = n + 1 /\ i \in 1 .. n
        <5>1. readOnly
          BY <1>1, <3>1, <3>2, <3>7, <4>3 DEF StaticMarks, n
        <5>. QED
          BY <2>5, <4>3, <5>1
      <4>. QED
        BY <1>1, <4>1, <4>2, <4>3
    <3>. QED
      BY <2>5, <3>3, <3>4, <3>5, <3>6, <3>7 DEF StaticMarks
  <2>. QED
    BY <1>3, <2>1, <2>6, <2>7, <2>8, <2>9 DEF FramesInv, fs
<1>. QED
  BY <1>2, <1>3

\* What a frame gives back fits the budget of its caller.
LEMMA Popped ==
    ASSUME FramesInv, stage = "running", NEW how \in {"ok", "reverted", "failed"}, Leave(how)
    PROVE  /\ FramesInv' /\ Len(frames) >= 2 /\ Len(frames') = Len(frames) - 1
           /\ \A i \in 1 .. Len(frames) - 1 :
                /\ frames'[i].snapshot = frames[i].snapshot /\ frames'[i].before = frames[i].before
                /\ frames'[i].asked = frames[i].asked
                /\ i < Len(frames) - 1 => frames'[i].gas = frames[i].gas
           /\ frames'[Len(frames) - 1].gas <= frames[Len(frames) - 1].gas + top.gas
<1>. DEFINE n == Len(frames)
            callers == SubSeq(frames, 1, n - 1)
            stored == how = "ok" /\ top.creates # {} /\ top.gas >= StepCost
            back == CASE how = "failed" -> 0 [] stored -> top.gas - StepCost [] OTHER -> top.gas
            m == n - 1
<1>1. /\ FrameTypes /\ n \in Nat \ {0} /\ top = frames[n]
      /\ top.gas \in Nat /\ \A i \in 1 .. n : frames[i].gas \in Nat
  BY FramesLemma DEF FramesInv
<1>2. n >= 2 /\ m \in Nat \ {0} /\ n = m + 1
  BY <1>1 DEF FramesInv, Depths
<1>3. back \in 0 .. top.gas
  <2>1. CASE how = "failed"
    BY <1>1, <2>1
  <2>2. CASE how # "failed" /\ stored
    BY <1>1, <2>2 DEF StepCost
  <2>3. CASE how # "failed" /\ ~stored
    BY <1>1, <2>3
  <2>. QED
    BY <2>1, <2>2, <2>3
<1>4. frames' = [callers EXCEPT ![Len(callers)].gas = @ + back]
  BY Zenon DEF Leave
<1>5. readOnly' = (readOnly /\ ~top.set)
  BY DEF Leave
<1>6. stage' = (IF n = 2 THEN "done" ELSE "running") /\ hasData' = hasData
  BY DEF Leave
<1>7. /\ callers \in Seq(FrameSet) /\ Len(callers) = m
      /\ \A i \in 1 .. m : callers[i] = frames[i]
  BY <1>1, <1>2, SubSeqProperties DEF FrameTypes
<1>. HIDE DEF callers, back, n, m
<1>8. frames' = Left(callers, callers[m].gas + back)
  BY <1>4, <1>7 DEF Left
<1>9. callers[m].gas + back \in Nat /\ callers[m].gas = frames[m].gas
  BY <1>1, <1>2, <1>3, <1>7
<1>10. /\ frames' \in Seq(FrameSet) /\ Len(frames') = m
       /\ frames'[m].gas = frames[m].gas + back
       /\ \A i \in 1 .. m :
                /\ i # m => frames'[i].gas = frames[i].gas
                /\ frames'[i].creates = frames[i].creates
                /\ frames'[i].snapshot = frames[i].snapshot /\ frames'[i].before = frames[i].before
                /\ frames'[i].asked = frames[i].asked /\ frames'[i].set = frames[i].set
  BY <1>2, <1>7, <1>8, <1>9, LeftLemma
<1>11. FrameTypes'
  <2>1. frames' # <<>>
    BY <1>2, <1>10, EmptySeq
  <2>2. readOnly' \in BOOLEAN
    BY <1>5
  <2>3. hasData' \in BOOLEAN
    BY <1>1, <1>6 DEF FrameTypes
  <2>. QED
    BY <1>6, <1>10, <2>1, <2>2, <2>3 DEF FrameTypes
<1>12. Depths'
  BY <1>1, <1>2, <1>6, <1>10, FramesAssumption DEF FramesInv, Depths, n
<1>13. Budgets'
  <2>1. PICK budget \in [1 .. n -> 0 .. Gas] : Within(frames, budget)
    BY DEF FramesInv, Budgets, n
  <2>. DEFINE fewer == [i \in 1 .. m |-> budget[i]]
  <2>2. fewer \in [1 .. m -> 0 .. Gas] /\ \A i \in 1 .. m : fewer[i] = budget[i] /\ budget[i] \in Nat
    BY <1>2, FramesAssumption
  <2>. HIDE DEF fewer
  <2>3. back <= budget[n] /\ budget[n] \in Nat /\ frames[m].gas + budget[n] <= budget[m]
    <3>1. top.gas <= budget[n] /\ budget[n] \in 0 .. Gas
      BY <1>1, <2>1 DEF Within, n
    <3>2. frames[m].gas + budget[m + 1] <= budget[m]
      BY <1>2, <2>1 DEF Within, n
    <3>. QED
      BY <1>1, <1>2, <1>3, <3>1, <3>2, FramesAssumption
  <2>4. Within(frames', fewer)
    <3>. SUFFICES ASSUME NEW i \in 1 .. m
                  PROVE  /\ frames'[i].gas <= fewer[i]
                         /\ i < m => frames'[i].gas + fewer[i + 1] <= fewer[i]
      BY <1>10 DEF Within
    <3>1. CASE i = m
      BY <1>1, <1>2, <1>3, <1>10, <2>2, <2>3, <3>1
    <3>2. CASE i < m
      <4>1. frames[i].gas <= budget[i] /\ frames[i].gas + budget[i + 1] <= budget[i]
        BY <1>2, <2>1, <3>2 DEF Within, n
      <4>2. frames'[i].gas = frames[i].gas /\ fewer[i] = budget[i] /\ fewer[i + 1] = budget[i + 1]
        BY <1>2, <1>10, <2>2, <3>2
      <4>. QED
        BY <3>2, <4>1, <4>2
    <3>. QED
      BY <1>2, <3>1, <3>2
  <2>. QED
    BY <1>10, <2>2, <2>4 DEF Budgets
<1>14. StaticMarks'
  <2>1. StaticMarks
    BY DEF FramesInv
  <2>2. \A i, j \in 1 .. n : frames[i].set /\ frames[j].set => i = j
    BY <2>1 DEF StaticMarks, n
  <2>3. readOnly' => \E i \in 1 .. m : frames'[i].set
    <3>. SUFFICES ASSUME readOnly, ~top.set PROVE \E i \in 1 .. m : frames[i].set
      BY <1>5, <1>10
    <3>1. PICK i \in 1 .. n : frames[i].set
      BY <2>1 DEF StaticMarks, n
    <3>2. i # n
      BY <1>1, <3>1
    <3>. QED
      BY <1>2, <3>1, <3>2
  <2>4. ASSUME NEW i \in 1 .. m, frames'[i].set PROVE readOnly'
    <3>1. i \in 1 .. n /\ i # n /\ n \in 1 .. n /\ frames[i].set
      BY <1>2, <1>10, <2>4
    <3>2. ~top.set
      BY <1>1, <2>2, <3>1
    <3>3. readOnly
      BY <2>1, <3>1 DEF StaticMarks, n
    <3>. QED
      BY <1>5, <3>2, <3>3
  <2>5. ASSUME NEW i \in 1 .. m, NEW j \in 1 .. m, frames'[i].set, frames'[j].set PROVE i = j
    BY <1>2, <1>10, <2>2, <2>5
  <2>6. ASSUME NEW i \in 1 .. m, frames'[i].asked PROVE \E j \in 1 .. i : frames'[j].set
    BY <1>2, <1>10, <2>1, <2>6 DEF StaticMarks, n
  <2>7. ASSUME NEW i \in 1 .. m, NEW j \in 1 .. m, frames'[i].asked, i <= j PROVE frames'[j].creates = {}
    BY <1>2, <1>10, <2>1, <2>7 DEF StaticMarks, n
  <2>. QED
    BY <1>10, <2>3, <2>4, <2>5, <2>6, <2>7 DEF StaticMarks
<1>15. frames'[m].gas <= frames[m].gas + top.gas
  BY <1>1, <1>2, <1>3, <1>10
<1>16. Len(frames) - 1 = m /\ Len(frames) >= 2
  BY <1>2 DEF n, m
<1>17. \A i \in 1 .. m : i < m => frames'[i].gas = frames[i].gas
  BY <1>2, <1>10
<1>. QED
  BY <1>10, <1>11, <1>12, <1>13, <1>14, <1>15, <1>16, <1>17 DEF FramesInv
-----------------------------------------------------------------------------
(* Lemmas about the effects.                                                 *)

\* What a step inside a static call may change.
Sealed ==
    /\ Entries(writeSet.cache) \subseteq Entries(writeSet'.cache)
    /\ Entries(writeSet'.cache) \subseteq Entries(writeSet.cache) \cup {<<Precompile, CreatAccountKey>>}
    /\ logs' = logs /\ db'.balance = db.balance /\ db'.dead = db.dead

\* What every step keeps of the effects, but for the return of a frame.
EffectsGo == EffectTypes' /\ CreditsRestOnReads' /\ (readOnly => Sealed)

\* How every step but the return of a frame moves, with all the gas it may use.
Enters(f, rest, all) ==
    /\ f \in FrameSet /\ rest \in Nat /\ rest + f.gas <= all
    /\ Depth <= CallCreateDepth
    /\ f.set = (f.asked /\ ~readOnly)
    /\ readOnly \/ f.asked => f.creates = {}
    /\ f.before.cache = writeSet.cache /\ f.before.logs = logs /\ f.before.db = db
    /\ f.snapshot = db
    /\ f.asked => Sealed
Moved(all) ==
    \/ \E rest \in 0 .. all : Continue(rest)
    \/ \E f, rest : Enters(f, rest, all) /\ Run(f, rest)

\* A sealed step changes nothing a still frame looks at.
LEMMA StillStays ==
    ASSUME NEW b, Still(b, writeSet.cache, logs, db), Sealed
    PROVE  Still(b, writeSet'.cache, logs', db')
  BY DEF Still, Sealed

\* A frame of a step that keeps to Moved finds all still that should be.
LEMMA MovedKeeps ==
    ASSUME CallInv, stage \in {"ready", "running"}, Moved(top.gas), EffectsGo
    PROVE  CallInv'
<1>1. FrameTypes /\ Len(frames) \in Nat \ {0} /\ top.gas \in Nat
  BY FramesLemma DEF CallInv, FramesInv
<1>2. ASSUME NEW i \in 1 .. Len(frames), frames[i].asked
      PROVE  readOnly
  BY <1>2 DEF CallInv, FramesInv, StaticMarks
<1>3. ASSUME NEW i \in 1 .. Len(frames), frames[i].asked
      PROVE  Still(frames[i].before, writeSet'.cache, logs', db')
  <2>1. Still(frames[i].before, writeSet.cache, logs, db)
    BY <1>3 DEF CallInv, StillSince
  <2>2. Sealed
    BY <1>2, <1>3 DEF EffectsGo
  <2>. QED
    BY <2>1, <2>2, StillStays
<1>4. CASE \E rest \in 0 .. top.gas : Continue(rest)
  <2>1. PICK rest \in 0 .. top.gas : Continue(rest)
    BY <1>4
  <2>2. FramesInv' /\ Len(frames') = Len(frames)
    BY <2>1, Continued DEF CallInv
  <2>3. \A i \in 1 .. Len(frames) :
           /\ frames'[i].snapshot = frames[i].snapshot /\ frames'[i].before = frames[i].before
           /\ frames'[i].asked = frames[i].asked
    <3>1. frames' = Left(frames, rest)
      BY <2>1 DEF Continue, Left
    <3>. QED
      BY <1>1, <2>1, <3>1, LeftLemma DEF FrameTypes
  <2>4. StillSince'
    BY <1>3, <2>2, <2>3 DEF StillSince
  <2>5. SnapshotsStill'
    BY <2>2, <2>3 DEF CallInv, SnapshotsStill
  <2>. QED
    BY <2>2, <2>4, <2>5 DEF CallInv, EffectsGo
<1>5. CASE \E f, rest : Enters(f, rest, top.gas) /\ Run(f, rest)
  <2>1. PICK f, rest : Enters(f, rest, top.gas) /\ Run(f, rest)
    BY <1>5
  <2>2. /\ f \in FrameSet /\ rest \in Nat /\ rest + f.gas <= top.gas /\ Depth <= CallCreateDepth
        /\ f.set = (f.asked /\ ~readOnly)
    BY <2>1 DEF Enters
  <2>3. readOnly \/ f.asked => f.creates = {}
    BY <2>1 DEF Enters
  <2>4. /\ FramesInv'
        /\ hasData => frames' = Append(Left(frames, rest), f)
        /\ ~hasData => frames' = frames
    BY <2>1, <2>2, <2>3, Pushed DEF CallInv
  <2>5. CASE ~hasData
    <3>1. StillSince' /\ SnapshotsStill'
      BY <1>3, <2>4, <2>5 DEF CallInv, StillSince, SnapshotsStill
    <3>. QED
      BY <2>4, <3>1 DEF CallInv, EffectsGo
  <2>6. CASE hasData
    <3>. DEFINE n == Len(frames)
    <3>1. /\ Left(frames, rest) \in Seq(FrameSet) /\ Len(Left(frames, rest)) = n
          /\ \A i \in 1 .. n :
                /\ Left(frames, rest)[i].snapshot = frames[i].snapshot
                /\ Left(frames, rest)[i].before = frames[i].before
                /\ Left(frames, rest)[i].asked = frames[i].asked
      BY <1>1, <2>2, LeftLemma DEF FrameTypes
    <3>2. /\ Len(frames') = n + 1 /\ frames'[n + 1] = f
          /\ \A i \in 1 .. n :
                /\ frames'[i].snapshot = frames[i].snapshot /\ frames'[i].before = frames[i].before
                /\ frames'[i].asked = frames[i].asked
      BY <1>1, <2>2, <2>4, <2>6, <3>1, AppendProperties
    <3>3. f.asked => Still(f.before, writeSet'.cache, logs', db')
      BY <2>1 DEF Enters, Sealed, Still
    <3>4. StillSince'
      <4>. SUFFICES ASSUME NEW i \in 1 .. n + 1, frames'[i].asked
                    PROVE  Still(frames'[i].before, writeSet'.cache, logs', db')
        BY <3>2 DEF StillSince
      <4>1. CASE i = n + 1
        BY <3>2, <3>3, <4>1
      <4>2. CASE i \in 1 .. n
        BY <1>3, <3>2, <4>2
      <4>. QED
        BY <1>1, <4>1, <4>2
    <3>5. SnapshotsStill'
      <4>. SUFFICES ASSUME NEW i \in 1 .. n + 1, NEW j \in 1 .. n + 1, frames'[i].asked, i <= j
                    PROVE  /\ frames'[j].snapshot.balance = frames'[i].before.db.balance
                           /\ frames'[j].snapshot.dead = frames'[i].before.db.dead
        BY <3>2 DEF SnapshotsStill
      <4>1. f.before.db = db /\ f.snapshot = db
        BY <2>1 DEF Enters
      <4>2. CASE j \in 1 .. n
        BY <1>1, <3>2, <4>2 DEF CallInv, SnapshotsStill
      <4>3. CASE j = n + 1 /\ i = n + 1
        BY <3>2, <4>1, <4>3
      <4>4. CASE j = n + 1 /\ i \in 1 .. n
        BY <3>2, <4>1, <4>4 DEF CallInv, StillSince, Still
      <4>. QED
        BY <1>1, <4>2, <4>3, <4>4
    <3>. QED
      BY <2>4, <3>4, <3>5 DEF CallInv, EffectsGo
  <2>. QED
    BY <2>5, <2>6
<1>. QED
  BY <1>4, <1>5 DEF Moved

\* A step that changes no effect.
LEMMA NoEffect ==
    ASSUME CallInv, UNCHANGED effects
    PROVE  EffectsGo /\ Sealed
<1>1. UNCHANGED <<writeSet, reads, logs, db>>
  BY DEF effects
<1>2. EffectTypes'
  BY <1>1 DEF CallInv, EffectTypes
<1>3. CreditsRestOnReads'
  BY <1>1 DEF CallInv, CreditsRestOnReads
<1>. QED
  BY <1>1, <1>2, <1>3 DEF EffectsGo, Sealed

\* A credit is new only with the read it was computed from, or in an account
\* that is created.
LEMMA CreditsLemma ==
    ASSUME CreditsRestOnReads, reads \subseteq reads',
           Entries(writeSet.cache) \subseteq Entries(writeSet'.cache),
           \A a : <<a, BalanceKey>> \in Entries(writeSet'.cache) =>
                    \/ <<a, BalanceKey>> \in Entries(writeSet.cache)
                    \/ <<a, CreatAccountKey>> \in Entries(writeSet'.cache)
                    \/ <<a, BalanceKey>> \in reads'
    PROVE  CreditsRestOnReads'
<1>1. \A a \in Account : /\ Has(writeSet, a, BalanceKey) <=> <<a, BalanceKey>> \in Entries(writeSet.cache)
                         /\ Has(writeSet, a, CreatAccountKey) <=> <<a, CreatAccountKey>> \in Entries(writeSet.cache)
  BY HasEntry
<1>2. \A a \in Account : /\ Has(writeSet', a, BalanceKey) <=> <<a, BalanceKey>> \in Entries(writeSet'.cache)
                         /\ Has(writeSet', a, CreatAccountKey) <=> <<a, CreatAccountKey>> \in Entries(writeSet'.cache)
  BY HasEntry
<1>. QED
  BY <1>1, <1>2 DEF CreditsRestOnReads

-----------------------------------------------------------------------------
(* The steps.                                                                *)

\* The frame of a callee is entered as Enters asks.
LEMMA FrameLemma ==
    ASSUME CallInv, NEW self \in Account, NEW asked \in BOOLEAN, NEW given \in Nat,
           NEW creates \in SUBSET Account
    PROVE  LET f == Frame(self, asked, given, creates) IN
           /\ f \in FrameSet /\ f.gas = given /\ f.creates = creates /\ f.asked = asked
           /\ f.set = (asked /\ ~readOnly)
           /\ f.before.cache = writeSet.cache /\ f.before.logs = logs /\ f.before.db = db
           /\ f.snapshot = db
<1>1. writeSet.cache \in Caches /\ logs \in Nat /\ db \in States
  BY DEF CallInv, EffectTypes, WriteSets
<1>2. (asked /\ ~readOnly) \in BOOLEAN
  OBVIOUS
<1>3. [cache |-> writeSet.cache, logs |-> logs, db |-> db] \in [cache : Caches, logs : Nat, db : States]
  BY <1>1
<1>. QED
  BY <1>1, <1>2, <1>3 DEF Frame, FrameSet

\* Running a callee with what its caller gave up keeps to Moved.
LEMMA Given ==
    ASSUME CallInv, NEW self \in Account, NEW asked \in BOOLEAN, NEW given \in Nat, NEW rest \in Nat,
           NEW creates \in SUBSET Account, rest + given <= top.gas, ~TooDeep,
           readOnly \/ asked => creates = {}, asked => Sealed,
           Run(Frame(self, asked, given, creates), rest)
    PROVE  Moved(top.gas)
<1>1. Depth <= CallCreateDepth
  BY FramesLemma, FramesAssumption DEF CallInv, FramesInv, TooDeep, Depth
<1>. DEFINE f == Frame(self, asked, given, creates)
<1>2. /\ f \in FrameSet /\ f.gas = given /\ f.creates = creates /\ f.asked = asked
      /\ f.set = (asked /\ ~readOnly)
      /\ f.before.cache = writeSet.cache /\ f.before.logs = logs /\ f.before.db = db
      /\ f.snapshot = db
  BY FrameLemma
<1>3. f.set = (f.asked /\ ~readOnly)
  BY <1>2
<1>4. readOnly \/ f.asked => f.creates = {}
  BY <1>2
<1>5. f.asked => Sealed
  BY <1>2
<1>. HIDE DEF f
<1>6. Enters(f, rest, top.gas)
  BY <1>1, <1>2, <1>3, <1>4, <1>5 DEF Enters
<1>. QED
  BY <1>6 DEF Moved, f

\* What a call may keep, or be given by a precompiled contract.
LEMMA Kept ==
    ASSUME CallInv, NEW rest \in Nat, rest <= top.gas, Continue(rest)
    PROVE  Moved(top.gas)
<1>1. rest \in 0 .. top.gas
  BY FramesLemma DEF CallInv, FramesInv
<1>. QED
  BY <1>1 DEF Moved

\* The effects of Call before any code runs.
LEMMA TransferLemma ==
    ASSUME CallInv, NEW addr \in Account, NEW value \in 0 .. 1,
           writeSet' = Transferred(addr, value), reads' = ReadBy(addr, value), UNCHANGED <<logs, db>>,
           readOnly => value = 0 /\ (Exist(addr) \/ addr = Precompile)
    PROVE  EffectsGo
<1>. DEFINE from == top.self
            created == IF Exist(addr) THEN writeSet ELSE WriteUpdate(writeSet, addr, CreatAccountKey, 0, 0)
            paid == WriteUpdate(created, from, SubBalanceKey, value, 0)
            all == WriteUpdate(paid, addr, BalanceKey, value, db.balance[addr])
            E == Entries(writeSet.cache)
            new == IF Exist(addr) THEN {} ELSE {<<addr, CreatAccountKey>>}
<1>1. from \in Account /\ writeSet \in WriteSets /\ {0, value, db.balance[addr]} \subseteq Int
  BY FramesLemma DEF CallInv, FramesInv, EffectTypes, States
<1>2. {CreatAccountKey, SubBalanceKey, BalanceKey} \subseteq Keys
  BY DEF Keys
<1>3. created \in WriteSets /\ Entries(created.cache) = E \cup new
  BY <1>1, <1>2, WriteUpdateLemma
<1>. HIDE DEF created, E, new, from
<1>4. paid \in WriteSets /\ Entries(paid.cache) = E \cup new \cup {<<from, SubBalanceKey>>}
  BY <1>1, <1>2, <1>3, WriteUpdateLemma
<1>. HIDE DEF paid
<1>5. /\ all \in WriteSets
      /\ Entries(all.cache) = E \cup new \cup {<<from, SubBalanceKey>>, <<addr, BalanceKey>>}
  BY <1>1, <1>2, <1>4, WriteUpdateLemma
<1>6. writeSet' = IF value = 0 THEN created ELSE all
  BY DEF Transferred, created, paid, from
<1>. HIDE DEF all
<1>7. writeSet' \in WriteSets
  BY <1>3, <1>5, <1>6
<1>8. reads' = reads \cup {<<from, BalanceKey>>} \cup (IF value > 0 THEN {<<addr, BalanceKey>>} ELSE {})
  BY DEF ReadBy, from
<1>9. EffectTypes'
  BY <1>1, <1>7, <1>8 DEF CallInv, EffectTypes
<1>10. CreditsRestOnReads'
  <2>1. CreditsRestOnReads
    BY DEF CallInv
  <2>2. reads \subseteq reads' /\ E \subseteq Entries(writeSet'.cache)
    BY <1>3, <1>5, <1>6, <1>8 DEF E
  <2>3. ASSUME NEW a, <<a, BalanceKey>> \in Entries(writeSet'.cache)
        PROVE  <<a, BalanceKey>> \in E \/ <<a, BalanceKey>> \in reads'
    <3>1. BalanceKey # SubBalanceKey /\ BalanceKey # CreatAccountKey
      BY FramesAssumption
    <3>2. CASE value = 0
      BY <1>3, <1>6, <2>3, <3>1, <3>2 DEF new
    <3>3. CASE value = 1
      BY <1>5, <1>6, <1>8, <2>3, <3>1, <3>3 DEF new
    <3>. QED
      BY <3>2, <3>3
  <2>. QED
    BY <2>1, <2>2, <2>3, CreditsLemma DEF E
<1>11. readOnly => Sealed
  BY <1>3, <1>6 DEF Sealed, E, new
<1>. QED
  BY <1>9, <1>10, <1>11 DEF EffectsGo

\* Code inside a static call makes no call with a value.
LEMMA CallKeeps ==
    ASSUME CallInv, NEW addr \in Account, NEW value \in 0 .. 1, NEW given \in Nat, NEW rest \in Nat,
           rest + given <= top.gas, readOnly => value = 0, Call(addr, value, given, rest)
    PROVE  Moved(top.gas) /\ EffectsGo
<1>. DEFINE absent == ~Exist(addr) /\ addr # Precompile /\ value = 0
            moves == writeSet' = Transferred(addr, value) /\ reads' = ReadBy(addr, value) /\ UNCHANGED <<logs, db>>
            refused == TooDeep \/ (value > 0 /\ ~CanPay(top.self, value))
<1>1. top.gas \in Nat /\ top.self \in Account
  BY FramesLemma DEF CallInv, FramesInv
<1>2. rest + given \in Nat /\ rest \in Nat /\ rest <= top.gas
  BY <1>1
<1>3. CASE refused
  <2>1. Continue(rest + given) /\ UNCHANGED effects
    BY <1>3 DEF Call, Refused
  <2>. QED
    BY <1>2, <2>1, Kept, NoEffect
<1>4. CASE ~refused /\ absent
  <2>1. /\ Continue(rest + given) /\ reads' = reads \cup {<<top.self, BalanceKey>>}
        /\ UNCHANGED <<writeSet, logs, db>>
    BY <1>4 DEF Call
  <2>2. EffectTypes' /\ CreditsRestOnReads' /\ Sealed
    BY <1>1, <2>1 DEF CallInv, EffectTypes, CreditsRestOnReads, Sealed
  <2>. QED
    BY <1>2, <2>1, <2>2, Kept DEF EffectsGo
<1>5. ASSUME ~refused, ~absent, moves
      PROVE  EffectsGo
  BY <1>5, TransferLemma
<1>6. CASE ~refused /\ ~absent /\ addr = Precompile
  <2>1. RunPrecompiled(rest, given, moves, moves)
    BY <1>6, Zenon DEF Call
  <2>2. moves /\ \E left \in 0 .. given : Continue(rest + left)
    <3>1. CASE \E left \in 0 .. given : Continue(rest + left) /\ moves
      BY <3>1
    <3>2. CASE Continue(rest) /\ moves
      BY <3>2, <1>2, 0 \in 0 .. given, rest + 0 = rest
    <3>. QED
      BY <2>1, <3>1, <3>2, Zenon DEF RunPrecompiled
  <2>3. PICK left \in 0 .. given : Continue(rest + left)
    BY <2>2
  <2>4. rest + left \in Nat /\ rest + left <= top.gas
    BY <1>1
  <2>. QED
    BY <1>5, <1>6, <2>2, <2>3, <2>4, Kept
<1>7. CASE ~refused /\ ~absent /\ addr # Precompile
  <2>1. moves /\ IF Code(addr) THEN Run(Frame(addr, FALSE, given, {}), rest) ELSE Continue(rest + given)
    BY <1>7, Zenon DEF Call
  <2>2. Moved(top.gas)
    <3>1. CASE Code(addr)
      <4>1. FALSE \in BOOLEAN /\ {} \in SUBSET Account /\ ~TooDeep
        BY <1>7
      <4>2. Run(Frame(addr, FALSE, given, {}), rest)
        BY <2>1, <3>1
      <4>. QED
        BY <4>1, <4>2, Given
    <3>2. CASE ~Code(addr)
      BY <1>2, <2>1, <3>2, Kept
    <3>. QED
      BY <3>1, <3>2
  <2>. QED
    BY <1>5, <1>7, <2>1, <2>2
<1>. QED
  BY <1>3, <1>4, <1>6, <1>7

\* CallCode runs a frame for its caller, without a transfer (ethvm.go:619).
LEMMA CallCodeKeeps ==
    ASSUME CallInv, NEW addr \in Account, NEW value \in 0 .. 1, NEW given \in Nat, NEW rest \in Nat,
           rest + given <= top.gas, CallCode(addr, value, given, rest)
    PROVE  Moved(top.gas) /\ EffectsGo
<1>1. top.gas \in Nat /\ top.self \in Account
  BY FramesLemma DEF CallInv, FramesInv
<1>2. rest + given \in Nat /\ rest <= top.gas /\ \A left \in 0 .. given : rest + left \in Nat /\ rest + left <= top.gas
  BY <1>1
<1>3. EffectsGo
  BY NoEffect DEF CallCode
<1>4. CASE \E kept \in Nat : kept <= top.gas /\ Continue(kept)
  BY <1>3, <1>4, Kept
<1>5. CASE ~TooDeep /\ Run(Frame(top.self, FALSE, given, {}), rest)
  <2>1. FALSE \in BOOLEAN /\ {} \in SUBSET Account
    OBVIOUS
  <2>. QED
    BY <1>1, <1>3, <1>5, <2>1, Given
<1>6. \/ Continue(rest + given) \/ Continue(rest) \/ (\E left \in 0 .. given : Continue(rest + left))
      \/ ~TooDeep /\ Run(Frame(top.self, FALSE, given, {}), rest)
  BY Zenon DEF CallCode, RunPrecompiled
<1>. QED
  BY <1>2, <1>4, <1>5, <1>6

\* The account of a static call exists afterwards, which is all that changes.
LEMMA StaticCallKeeps ==
    ASSUME CallInv, NEW addr \in Account, NEW given \in Nat, NEW rest \in Nat,
           rest + given <= top.gas, StaticCall(addr, given, rest)
    PROVE  Moved(top.gas) /\ EffectsGo
<1>1. top.gas \in Nat /\ top.self \in Account
  BY FramesLemma DEF CallInv, FramesInv
<1>2. rest + given \in Nat /\ rest <= top.gas /\ \A left \in 0 .. given : rest + left \in Nat /\ rest + left <= top.gas
  BY <1>1
<1>3. UNCHANGED <<writeSet, reads, logs>> /\ (db' = db \/ db' = Touched(addr))
  BY Zenon DEF StaticCall, RunPrecompiled
<1>4. db' \in States /\ db'.balance = db.balance /\ db'.dead = db.dead
  <2>1. db \in States
    BY DEF CallInv, EffectTypes
  <2>2. Touched(addr) \in States /\ Touched(addr).balance = db.balance /\ Touched(addr).dead = db.dead
    BY <2>1 DEF States, Touched
  <2>. QED
    BY <1>3, <2>1, <2>2
<1>5. EffectsGo /\ Sealed
  BY <1>3, <1>4 DEF CallInv, EffectsGo, EffectTypes, CreditsRestOnReads, Sealed
<1>6. CASE \E kept \in Nat : kept <= top.gas /\ Continue(kept)
  BY <1>5, <1>6, Kept
<1>7. CASE ~TooDeep /\ Run(Frame(addr, TRUE, given, {}), rest)
  <2>1. TRUE \in BOOLEAN /\ {} \in SUBSET Account
    OBVIOUS
  <2>. QED
    BY <1>5, <1>7, <2>1, Given
<1>8. \/ Continue(rest + given) \/ Continue(rest) \/ (\E left \in 0 .. given : Continue(rest + left))
      \/ ~TooDeep /\ Run(Frame(addr, TRUE, given, {}), rest)
  BY Zenon DEF StaticCall, RunPrecompiled
<1>. QED
  BY <1>2, <1>6, <1>7, <1>8

\* Code inside a static call creates nothing.
LEMMA CreateKeeps ==
    ASSUME CallInv, NEW addr \in Account, NEW taken \in BOOLEAN, NEW value \in 0 .. 1,
           NEW given \in Nat, NEW rest \in Nat, rest + given <= top.gas, ~readOnly,
           Create(addr, taken, value, given, rest)
    PROVE  Moved(top.gas) /\ EffectsGo
<1>. DEFINE from == top.self
            counted == WriteUpdate(writeSet, from, NonceKey, 0, 0)
            made == WriteUpdate(counted, addr, CreatAccountKey, 0, 0)
            paid == WriteUpdate(made, from, SubBalanceKey, value, 0)
            all == WriteUpdate(paid, addr, BalanceKey, value, db.balance[addr])
            E == Entries(writeSet.cache)
<1>1. top.gas \in Nat /\ from \in Account
  BY FramesLemma DEF CallInv, FramesInv
<1>2. rest + given \in Nat /\ rest <= top.gas
  BY <1>1
<1>3. CASE TooDeep \/ ~CanPay(from, value)
  <2>1. Continue(rest + given) /\ UNCHANGED effects
    BY <1>3 DEF Create, Refused
  <2>. QED
    BY <1>2, <2>1, Kept, NoEffect
<1>4. CASE ~TooDeep /\ CanPay(from, value)
  <2>1. reads' = reads \cup {<<from, NonceKey>>} /\ UNCHANGED <<logs, db>>
    BY <1>4 DEF Create
  <2>2. \/ writeSet' = counted /\ Continue(rest)
        \/ /\ writeSet' = IF value > 0 THEN all ELSE made
           /\ Run(Frame(addr, FALSE, given, {addr}), rest)
    BY <1>4 DEF Create
  <2>3. writeSet \in WriteSets /\ {0, value, db.balance[addr]} \subseteq Int
    BY DEF CallInv, EffectTypes, States
  <2>4. {NonceKey, CreatAccountKey, SubBalanceKey, BalanceKey} \subseteq Keys
    BY DEF Keys
  <2>. HIDE DEF from
  <2>5. counted \in WriteSets /\ Entries(counted.cache) = E \cup {<<from, NonceKey>>}
    <3>1. writeSet \in WriteSets /\ from \in Account /\ NonceKey \in Keys /\ 0 \in Int
      BY <1>1, <2>3, <2>4
    <3>. QED
      BY <3>1, WriteUpdateLemma
  <2>. HIDE DEF counted, E
  <2>6. /\ made \in WriteSets
        /\ Entries(made.cache) = E \cup {<<from, NonceKey>>, <<addr, CreatAccountKey>>}
    BY <1>1, <2>3, <2>4, <2>5, WriteUpdateLemma
  <2>. HIDE DEF made
  <2>7. /\ paid \in WriteSets
        /\ Entries(paid.cache) = E \cup {<<from, NonceKey>>, <<addr, CreatAccountKey>>, <<from, SubBalanceKey>>}
    BY <1>1, <2>3, <2>4, <2>6, WriteUpdateLemma
  <2>. HIDE DEF paid
  <2>8. /\ all \in WriteSets
        /\ Entries(all.cache) = E \cup {<<from, NonceKey>>, <<addr, CreatAccountKey>>,
                                       <<from, SubBalanceKey>>, <<addr, BalanceKey>>}
    BY <1>1, <2>3, <2>4, <2>7, WriteUpdateLemma
  <2>. HIDE DEF all
  <2>9. writeSet' \in WriteSets /\ writeSet' \in {counted, made, all}
    BY <2>2, <2>5, <2>6, <2>8
  <2>10. EffectTypes'
    BY <1>1, <2>1, <2>9 DEF CallInv, EffectTypes
  <2>11. CreditsRestOnReads'
    <3>1. BalanceKey \notin {SubBalanceKey, NonceKey, CreatAccountKey}
      BY FramesAssumption
    <3>2. E \subseteq Entries(writeSet'.cache) /\ reads \subseteq reads'
      BY <2>1, <2>5, <2>6, <2>8, <2>9
    <3>3. ASSUME NEW a, <<a, BalanceKey>> \in Entries(writeSet'.cache)
          PROVE  <<a, BalanceKey>> \in E \/ <<a, CreatAccountKey>> \in Entries(writeSet'.cache)
      BY <2>5, <2>6, <2>8, <2>9, <3>1, <3>3
    <3>. QED
      BY <3>2, <3>3, CreditsLemma DEF CallInv, E
  <2>12. Moved(top.gas)
    <3>1. FALSE \in BOOLEAN /\ {addr} \in SUBSET Account
      OBVIOUS
    <3>2. CASE Continue(rest)
      BY <1>2, <3>2, Kept
    <3>3. CASE Run(Frame(addr, FALSE, given, {addr}), rest)
      BY <1>4, <3>1, <3>3, Given
    <3>. QED
      BY <2>2, <3>2, <3>3
  <2>. QED
    BY <2>10, <2>11, <2>12 DEF EffectsGo
<1>. QED
  BY <1>3, <1>4

\* A frame that returns leaves the frames below as still as they should be:
\* only a creation stores code, and none is above a static call.
LEMMA LeaveKeeps ==
    ASSUME CallInv, stage = "running", NEW how \in {"ok", "reverted", "failed"}, Leave(how),
           UNCHANGED <<reads, logs>>, db' \in States,
           readOnly => \/ db'.balance = db.balance /\ db'.dead = db.dead
                       \/ db' = top.snapshot
    PROVE  CallInv'
<1>. DEFINE n == Len(frames)
            code == WriteUpdate(writeSet, top.self, SetCodeKey, 0, 0)
            E == Entries(writeSet.cache)
<1>1. /\ top.self \in Account /\ top = frames[n] /\ n \in Nat \ {0}
      /\ writeSet \in WriteSets /\ SetCodeKey \in Keys /\ 0 \in Int
  BY FramesLemma DEF CallInv, FramesInv, EffectTypes, Keys
<1>2. /\ FramesInv' /\ n >= 2 /\ Len(frames') = n - 1
      /\ \A i \in 1 .. n - 1 :
                /\ frames'[i].snapshot = frames[i].snapshot /\ frames'[i].before = frames[i].before
                /\ frames'[i].asked = frames[i].asked
  BY Popped DEF CallInv
<1>3. writeSet' = writeSet \/ (top.creates # {} /\ writeSet' = code)
  <2>1. writeSet' = IF how = "ok" /\ top.creates # {} /\ top.gas >= StepCost THEN code ELSE writeSet
    BY DEF Leave
  <2>. QED
    BY <2>1
<1>4. code \in WriteSets /\ Entries(code.cache) = E \cup {<<top.self, SetCodeKey>>}
  <2>1. writeSet \in WriteSets /\ top.self \in Account /\ SetCodeKey \in Keys /\ 0 \in Int
    BY <1>1
  <2>. QED
    BY <2>1, WriteUpdateLemma
<1>. HIDE DEF code, E, n
<1>5. EffectTypes'
  BY <1>1, <1>3, <1>4 DEF CallInv, EffectTypes
<1>6. CreditsRestOnReads'
  <2>1. BalanceKey # SetCodeKey
    BY FramesAssumption
  <2>2. /\ E \subseteq Entries(writeSet'.cache)
        /\ \A a : <<a, BalanceKey>> \in Entries(writeSet'.cache) => <<a, BalanceKey>> \in E
    BY <1>3, <1>4, <2>1 DEF E
  <2>. QED
    BY <2>2, CreditsLemma DEF CallInv, E
<1>7. ASSUME NEW i \in 1 .. n - 1, frames[i].asked
      PROVE  Still(frames[i].before, writeSet'.cache, logs', db')
  <2>1. i \in 1 .. n /\ n \in 1 .. n /\ i <= n
    BY <1>1
  <2>2. readOnly /\ top.creates = {}
    BY <1>1, <1>7, <2>1 DEF CallInv, FramesInv, StaticMarks, n
  <2>3. Still(frames[i].before, writeSet.cache, logs, db)
    BY <1>7, <2>1 DEF CallInv, StillSince, n
  <2>4. /\ top.snapshot.balance = frames[i].before.db.balance
        /\ top.snapshot.dead = frames[i].before.db.dead
    BY <1>1, <1>7, <2>1 DEF CallInv, SnapshotsStill, n
  <2>5. writeSet' = writeSet /\ logs' = logs
    BY <1>3, <2>2
  <2>. QED
    BY <2>2, <2>3, <2>4, <2>5 DEF Still
<1>8. StillSince'
  BY <1>2, <1>7 DEF StillSince
<1>9. SnapshotsStill'
  <2>1. \A i \in 1 .. n - 1 : i \in 1 .. n
    BY <1>1
  <2>. QED
    BY <1>2, <2>1 DEF CallInv, SnapshotsStill, n
<1>. QED
  BY <1>2, <1>5, <1>6, <1>8, <1>9 DEF CallInv

\* The transaction begins with one frame, or ends at once.
LEMMA BeginKeeps ==
    ASSUME CallInv, Begin
    PROVE  Moved(top.gas) /\ EffectsGo
<1>1. /\ top.gas = Gas /\ Gas \in Nat /\ 0 + Gas <= top.gas /\ 0 \in Nat
  BY FramesLemma, FramesAssumption DEF CallInv, FramesInv, Depths, Begin
<1>2. ~readOnly
  BY DEF CallInv, FramesInv, Depths, Begin
<1>3. User \in Account
  BY FramesAssumption
<1>4. PICK value \in 0 .. 1 :
          \/ \E addr \in Account \ {User} : Call(addr, value, Gas, 0)
          \/ \E taken \in BOOLEAN : Create(User, taken, value, Gas, 0)
  BY DEF Begin
<1>5. ASSUME NEW addr \in Account \ {User}, Call(addr, value, Gas, 0)
      PROVE  Moved(top.gas) /\ EffectsGo
  BY <1>1, <1>2, <1>5, CallKeeps
<1>6. ASSUME NEW taken \in BOOLEAN, Create(User, taken, value, Gas, 0)
      PROVE  Moved(top.gas) /\ EffectsGo
  BY <1>1, <1>2, <1>3, <1>6, CreateKeeps
<1>. QED
  BY <1>4, <1>5, <1>6

\* The gas of a call is divided between the caller and the callee.
LEMMA Divided ==
    ASSUME NEW left \in Nat
    PROVE  /\ left \div 2 \in Nat /\ left - left \div 2 \in Nat
           /\ left \div 2 + (left - left \div 2) = left
  OBVIOUS

\* The six ways of calling keep to Moved and change only what EffectsGo lets them.
LEMMA CallsKeep ==
    ASSUME CallInv, Calls
    PROVE  Moved(top.gas) /\ EffectsGo
<1>1. top.gas \in Nat /\ top.self \in Account
  BY FramesLemma DEF CallInv, FramesInv
<1>2. PICK value \in 0 .. 1, addr \in Account \ {User} :
        LET left == top.gas - CallCost(value)
        IN  /\ left >= 0
            /\ \E given \in {left - left \div 2} :
                  LET rest == left - given
                      all == given + Stipend(value)
                  IN  \/ Allowed(value) /\ Call(addr, value, all, rest)
                      \/ CallCode(addr, value, all, rest)
                      \/ value = 0 /\ DelegateCall(addr, given, rest)
                      \/ value = 0 /\ StaticCall(addr, given, rest)
                      \/ Protected /\ addr = Fresh /\ \E at \in {Fresh, top.self} : Create(at, StoredCode(at), value, given, rest)
  BY DEF Calls
<1>. DEFINE left == top.gas - CallCost(value)
            given == left - left \div 2
            rest == left - given
            all == given + Stipend(value)
<1>3. /\ left \in Nat /\ left + Stipend(value) <= top.gas /\ Stipend(value) \in Nat
  BY <1>1, <1>2 DEF CallCost, Stipend
<1>. HIDE DEF left
<1>4. /\ given \in Nat /\ rest \in Nat /\ all \in Nat
      /\ rest + given <= top.gas /\ rest + all <= top.gas
  BY <1>1, <1>3, Divided
<1>5. \/ Allowed(value) /\ Call(addr, value, all, rest)
      \/ CallCode(addr, value, all, rest)
      \/ CallCode(addr, 0, given, rest)
      \/ StaticCall(addr, given, rest)
      \/ Protected /\ \E at \in {Fresh, top.self} : Create(at, StoredCode(at), value, given, rest)
  BY <1>2, Zenon DEF left, DelegateCall
<1>. HIDE DEF given, rest, all
<1>6. CASE Allowed(value) /\ Call(addr, value, all, rest)
  BY <1>4, <1>6, CallKeeps DEF Allowed
<1>7. CASE CallCode(addr, value, all, rest)
  BY <1>4, <1>7, CallCodeKeeps
<1>8. CASE CallCode(addr, 0, given, rest)
  BY <1>4, <1>8, CallCodeKeeps, 0 \in 0 .. 1
<1>9. CASE StaticCall(addr, given, rest)
  BY <1>4, <1>9, StaticCallKeeps
<1>10. CASE Protected /\ \E at \in {Fresh, top.self} : Create(at, StoredCode(at), value, given, rest)
  <2>1. ~readOnly
    BY <1>10 DEF Protected
  <2>2. PICK at \in {Fresh, top.self} : Create(at, StoredCode(at), value, given, rest)
    BY <1>10
  <2>3. at \in Account /\ StoredCode(at) \in BOOLEAN
    BY <1>1, FramesAssumption DEF StoredCode
  <2>. QED
    BY <1>4, <2>1, <2>2, <2>3, CreateKeeps
<1>. QED
  BY <1>5, <1>6, <1>7, <1>8, <1>9, <1>10

\* SSTORE and LOG spend gas and write, unless the interpreter is read-only.
LEMMA StoreKeeps ==
    ASSUME CallInv, Store \/ MakeLog
    PROVE  Moved(top.gas) /\ EffectsGo
<1>1. top.gas \in Nat /\ top.self \in Account
  BY FramesLemma DEF CallInv, FramesInv
<1>2. ~readOnly /\ top.gas >= StepCost /\ Continue(top.gas - StepCost)
  BY DEF Store, MakeLog, Protected, Spend
<1>3. Moved(top.gas)
  BY <1>1, <1>2, Kept DEF StepCost
<1>4. CASE Store
  <2>. DEFINE stored == WriteUpdate(writeSet, top.self, Slot, 0, 0)
  <2>1. writeSet' = stored /\ UNCHANGED <<reads, logs, db>>
    BY <1>4 DEF Store
  <2>2. writeSet \in WriteSets /\ Slot \in Keys /\ 0 \in Int /\ top.self \in Account
    BY <1>1 DEF CallInv, EffectTypes, Keys
  <2>3. stored \in WriteSets /\ Entries(stored.cache) = Entries(writeSet.cache) \cup {<<top.self, Slot>>}
    BY <2>2, WriteUpdateLemma
  <2>. HIDE DEF stored
  <2>4. EffectTypes'
    BY <2>1, <2>3 DEF CallInv, EffectTypes
  <2>5. CreditsRestOnReads'
    <3>1. BalanceKey # Slot
      BY FramesAssumption
    <3>. QED
      BY <2>1, <2>3, <3>1, CreditsLemma DEF CallInv
  <2>. QED
    BY <1>2, <1>3, <2>4, <2>5 DEF EffectsGo
<1>5. CASE MakeLog
  <2>1. logs' = logs + 1 /\ UNCHANGED <<writeSet, reads, db>>
    BY <1>5 DEF MakeLog
  <2>2. EffectTypes' /\ CreditsRestOnReads'
    BY <2>1 DEF CallInv, EffectTypes, CreditsRestOnReads
  <2>. QED
    BY <1>2, <1>3, <2>2 DEF EffectsGo
<1>. QED
  BY <1>4, <1>5

\* A frame that fails restores its snapshot: what is still for its callers stays so.
LEMMA ReturnKeeps ==
    ASSUME CallInv, Running, Return
    PROVE  CallInv'
<1>1. stage = "running" /\ db \in States /\ top.snapshot \in States
  BY FramesLemma DEF Running, CallInv, FramesInv, EffectTypes
<1>2. PICK how \in {"ok", "reverted", "failed"} :
          Leave(how) /\ UNCHANGED <<reads, logs>> /\ (db' = db \/ db' = top.snapshot)
  BY Zenon DEF Return
<1>. QED
  BY <1>1, <1>2, LeaveKeeps

\* SELFDESTRUCT empties an account, unless the interpreter is read-only.
LEMMA SelfdestructKeeps ==
    ASSUME CallInv, Running, Selfdestruct
    PROVE  CallInv'
<1>1. stage = "running" /\ db \in States /\ top.self \in Account
  BY FramesLemma DEF Running, CallInv, FramesInv, EffectTypes
<1>2. Leave("ok") /\ UNCHANGED <<reads, logs>> /\ ~readOnly
  BY DEF Selfdestruct, Protected
<1>3. PICK heir \in Account \ {Precompile} :
          db' = [balance |-> [[db.balance EXCEPT ![heir] = @ + db.balance[top.self]] EXCEPT ![top.self] = 0],
                 exist |-> db.exist \cup {heir}, dead |-> db.dead \cup {top.self}]
  BY DEF Selfdestruct
<1>4. db' \in States
  <2>1. db.balance \in [Account -> Nat] /\ db.exist \subseteq Account /\ db.dead \subseteq Account
    BY <1>1 DEF States
  <2>2. [db.balance EXCEPT ![heir] = @ + db.balance[top.self]] \in [Account -> Nat]
    BY <1>1, <2>1
  <2>3. [[db.balance EXCEPT ![heir] = @ + db.balance[top.self]] EXCEPT ![top.self] = 0] \in [Account -> Nat]
    BY <1>1, <2>2
  <2>. QED
    BY <1>1, <1>3, <2>1, <2>3 DEF States
<1>. QED
  BY <1>1, <1>2, <1>4, LeaveKeeps

\* Initially there is one frame with all the gas, and nothing has changed.
LEMMA FramesInit ==
    ASSUME Init
    PROVE  CallInv
<1>. DEFINE f == Frame(User, FALSE, Gas, {})
<1>1. /\ frames = <<f>> /\ readOnly = FALSE /\ stage = "ready" /\ hasData \in BOOLEAN
      /\ writeSet = NewSet /\ logs = 0 /\ reads = {<<User, BalanceKey>>}
  BY DEF Init
<1>2. db \in States
  BY FramesAssumption DEF Init, States
<1>3. writeSet \in WriteSets
  <2>1. NoEntries \in [{} -> Maps]
    BY DEF NoEntries
  <2>2. NoEntries \in Caches
    BY <2>1 DEF Caches
  <2>. QED
    BY <1>1, <2>2 DEF NewSet, WriteSets
<1>4. EffectTypes
  BY <1>1, <1>2, <1>3, FramesAssumption DEF EffectTypes
<1>5. f \in FrameSet /\ f.gas = Gas /\ ~f.asked /\ ~f.set /\ f.creates = {}
  <2>1. User \in Account /\ Gas \in Nat /\ writeSet.cache \in Caches
    BY <1>3, FramesAssumption DEF WriteSets
  <2>2. [cache |-> writeSet.cache, logs |-> logs, db |-> db] \in [cache : Caches, logs : Nat, db : States]
    BY <1>1, <1>2, <2>1
  <2>3. (FALSE /\ ~readOnly) \in BOOLEAN /\ {} \in SUBSET Account
    OBVIOUS
  <2>. QED
    BY <1>2, <2>1, <2>2, <2>3 DEF Frame, FrameSet
<1>. HIDE DEF f
<1>6. frames \in Seq(FrameSet) /\ Len(frames) = 1 /\ frames[1] = f /\ frames # <<>>
  BY <1>1, <1>5
<1>7. FramesInv
  <2>1. FrameTypes
    <3>1. readOnly \in BOOLEAN /\ hasData \in BOOLEAN
      BY <1>1
    <3>. QED
      BY <1>1, <1>6, <3>1 DEF FrameTypes
  <2>2. Depths
    BY <1>1, <1>5, <1>6, FramesAssumption DEF Depths
  <2>3. Budgets
    <3>1. [i \in 1 .. 1 |-> Gas] \in [1 .. 1 -> 0 .. Gas] /\ Within(frames, [i \in 1 .. 1 |-> Gas])
      BY <1>5, <1>6, FramesAssumption DEF Within
    <3>. QED
      BY <1>6, <3>1 DEF Budgets
  <2>4. StaticMarks
    BY <1>1, <1>5, <1>6 DEF StaticMarks
  <2>. QED
    BY <2>1, <2>2, <2>3, <2>4 DEF FramesInv
<1>8. StillSince /\ SnapshotsStill
  BY <1>5, <1>6 DEF StillSince, SnapshotsStill
<1>9. CreditsRestOnReads
  BY <1>1 DEF CreditsRestOnReads, Has, NewSet, NoEntries
<1>. QED
  BY <1>4, <1>7, <1>8, <1>9 DEF CallInv

\* Every step keeps the budgets, the marks of static calls and the snapshots.
LEMMA FramesStep ==
    ASSUME CallInv, [Next]_vars
    PROVE  CallInv'
<1>1. CASE Begin
  BY <1>1, BeginKeeps, MovedKeeps DEF Begin
<1>2. CASE Running /\ (Store \/ MakeLog)
  BY <1>2, StoreKeeps, MovedKeeps DEF Running
<1>3. CASE Running /\ Calls
  BY <1>3, CallsKeep, MovedKeeps DEF Running
<1>4. CASE Running /\ Selfdestruct
  BY <1>4, SelfdestructKeeps
<1>5. CASE Running /\ Return
  BY <1>5, ReturnKeeps
<1>6. CASE UNCHANGED vars
  <2>1. UNCHANGED <<frames, writeSet, reads, logs, db, readOnly, hasData, stage>>
    BY <1>6 DEF vars
  <2>2. FramesInv'
    BY <2>1 DEF CallInv, FramesInv, FrameTypes, Depths, Budgets, StaticMarks
  <2>3. EffectTypes' /\ StillSince' /\ SnapshotsStill' /\ CreditsRestOnReads'
    BY <2>1 DEF CallInv, EffectTypes, StillSince, SnapshotsStill, CreditsRestOnReads
  <2>. QED
    BY <2>2, <2>3 DEF CallInv
<1>. QED
  BY <1>1, <1>2, <1>3, <1>4, <1>5, <1>6, Zenon DEF Next, Execute

\* CallInv holds in every reachable state.
THEOREM FramesInvariance == Spec => []CallInv
<1>1. Init => CallInv
  BY FramesInit
<1>2. CallInv /\ [Next]_vars => CallInv'
  BY FramesStep
<1>. QED
  BY <1>1, <1>2, PTL DEF Spec

\* Every variable has its type, the depth of the frames stays within its limit
\* and no frame has more gas than the transaction.
THEOREM FramesTypeCorrect == Spec => []TypeOK
<1>1. CallInv => TypeOK
  <2>. SUFFICES ASSUME CallInv PROVE TypeOK
    OBVIOUS
  <2>1. Depth \in 0 .. CallCreateDepth + 1
    BY FramesLemma, FramesAssumption DEF CallInv, FramesInv, Depths, Depth
  <2>2. ASSUME NEW i \in DOMAIN frames PROVE frames[i].gas \in 0 .. Gas + Stipend(1)
    <3>1. PICK budget \in [1 .. Len(frames) -> 0 .. Gas] : Within(frames, budget)
      BY DEF CallInv, FramesInv, Budgets
    <3>2. i \in 1 .. Len(frames) /\ frames[i].gas \in Nat
      BY FramesLemma DEF CallInv, FramesInv
    <3>3. frames[i].gas <= budget[i] /\ budget[i] \in 0 .. Gas
      BY <3>1, <3>2 DEF Within
    <3>. QED
      BY <3>2, <3>3, FramesAssumption DEF Stipend
  <2>3. logs \in Nat /\ reads \subseteq Account \X {BalanceKey, NonceKey} /\ DOMAIN writeSet.cache \subseteq Account
    BY CacheLemma DEF CallInv, EffectTypes, WriteSets
  <2>4. db.exist \subseteq Account /\ db.dead \subseteq Account /\ \A a \in Account : db.balance[a] \in Nat
    BY DEF CallInv, EffectTypes, States
  <2>5. readOnly \in BOOLEAN /\ hasData \in BOOLEAN /\ stage \in {"ready", "running", "done", "panic"}
    BY DEF CallInv, FramesInv, FrameTypes
  <2>. QED
    BY <2>1, <2>2, <2>3, <2>4, <2>5 DEF TypeOK
<1>. QED
  BY <1>1, FramesInvariance, PTL

\* What a static call began with is unchanged as long as it runs, however many
\* frames are above it and however they end (ethvm.go:750).
THEOREM StaticCallsAreStatic == Spec => []StaticChangesNothing
<1>1. CallInv => StaticChangesNothing
  <2>. SUFFICES ASSUME CallInv, NEW i \in DOMAIN frames, frames[i].asked
                PROVE  LET b == frames[i].before
                       IN  /\ Entries(writeSet.cache) = Entries(b.cache) \cup (Entries(writeSet.cache) \cap {<<Precompile, CreatAccountKey>>})
                           /\ logs = b.logs /\ db.balance = b.db.balance /\ db.dead = b.db.dead
    BY DEF StaticChangesNothing
  <2>1. i \in 1 .. Len(frames)
    BY FramesLemma DEF CallInv, FramesInv
  <2>. QED
    BY <2>1 DEF CallInv, StillSince, Still
<1>. QED
  BY <1>1, FramesInvariance, PTL

\* A credit the transaction writes rests on a balance its read set names, or on
\* the creation of the account (ethvm.go:534-559).
THEOREM CreditsAreRead == Spec => []CreditsRestOnReads
<1>1. CallInv => CreditsRestOnReads
  BY DEF CallInv
<1>. QED
  BY <1>1, FramesInvariance, PTL
-----------------------------------------------------------------------------
(* The gas of all frames.  What TotalGas adds up is a recursive function; it *)
(* is shown to exist by induction, with the induction over a set of numbers. *)

\* A set with 0 and the successor of each of its members is Nat.
LEMMA Induction ==
    ASSUME NEW S \in SUBSET Nat, 0 \in S, \A n \in S : n + 1 \in S
    PROVE  S = Nat
<1>. DEFINE R == {ss \in Nat \X Nat : ss[1] < ss[2]}
<1>1. IsWellFoundedOn(R, Nat)
  BY NatLessThanWellFounded DEF OpToRel
<1>. SUFFICES ASSUME Nat \ S # {} PROVE FALSE
  OBVIOUS
<1>. HIDE DEF R
<1>2. PICK x \in Nat \ S : \A y \in Nat \ S : ~(<<y, x>> \in R)
  BY <1>1, WFMin
<1>3. x # 0 /\ x - 1 \in Nat /\ x - 1 < x
  BY <1>2
<1>4. x - 1 \in S
  BY <1>2, <1>3 DEF R
<1>. QED
  BY <1>2, <1>3, <1>4

\* s[n] is the gas of the first n frames of fs.
Sums(s, fs, k) ==
    /\ s \in [0 .. k -> Nat] /\ s[0] = 0
    /\ \A n \in 1 .. k : s[n] = s[n - 1] + fs[n].gas

\* The gas of the frames of any stack can be added up.
LEMMA SumsExist ==
    ASSUME NEW fs \in Seq(FrameSet)
    PROVE  \E s : Sums(s, fs, Len(fs))
<1>. DEFINE S == {k \in Nat : k <= Len(fs) => \E s : Sums(s, fs, k)}
<1>1. \A n \in 1 .. Len(fs) : fs[n].gas \in Nat
  <2>1. \A f \in FrameSet : f.gas \in Nat
    BY DEF FrameSet
  <2>. QED
    BY <2>1
<1>2. 0 \in S
  <2>1. Sums([n \in 0 .. 0 |-> 0], fs, 0)
    BY DEF Sums
  <2>. QED
    BY <2>1
<1>3. ASSUME NEW k \in S PROVE k + 1 \in S
  <2>. SUFFICES ASSUME k + 1 <= Len(fs) PROVE \E s : Sums(s, fs, k + 1)
    BY <1>3
  <2>1. k \in Nat /\ k <= Len(fs) /\ Len(fs) \in Nat
    OBVIOUS
  <2>2. PICK s : Sums(s, fs, k)
    BY <2>1
  <2>. DEFINE t == [n \in 0 .. k + 1 |-> IF n = k + 1 THEN s[k] + fs[k + 1].gas ELSE s[n]]
  <2>3. s[k] \in Nat /\ fs[k + 1].gas \in Nat /\ \A n \in 0 .. k : s[n] \in Nat
    BY <1>1, <2>1, <2>2 DEF Sums
  <2>4. t \in [0 .. k + 1 -> Nat]
    BY <2>1, <2>3
  <2>5. \A n \in 0 .. k + 1 : t[n] = IF n = k + 1 THEN s[k] + fs[k + 1].gas ELSE s[n]
    OBVIOUS
  <2>. HIDE DEF t
  <2>6. \A n \in 1 .. k + 1 : t[n] = t[n - 1] + fs[n].gas
    <3>. TAKE n \in 1 .. k + 1
    <3>1. CASE n = k + 1
      BY <2>1, <2>5, <3>1
    <3>2. CASE n \in 1 .. k
      BY <2>1, <2>2, <2>5, <3>2 DEF Sums
    <3>. QED
      BY <2>1, <3>1, <3>2
  <2>7. t[0] = 0
    BY <2>1, <2>2, <2>5 DEF Sums
  <2>. QED
    BY <2>4, <2>6, <2>7 DEF Sums
<1>. HIDE DEF S
<1>4. S = Nat
  <2>1. S \in SUBSET Nat
    BY DEF S
  <2>. QED
    BY <1>2, <1>3, <2>1, Induction
<1>5. Len(fs) \in S
  BY <1>4
<1>. QED
  BY <1>5 DEF S

\* Sums of frames with the same gas are the same.
LEMMA SumsAgree ==
    ASSUME NEW a \in Nat, NEW b \in Nat, NEW fs, NEW gs, NEW s, NEW t,
           Sums(s, fs, a), Sums(t, gs, b), NEW k \in Nat, k <= a, k <= b,
           \A n \in 1 .. k : fs[n].gas = gs[n].gas
    PROVE  s[k] = t[k]
<1>. DEFINE S == {n \in Nat : n <= k => s[n] = t[n]}
<1>1. 0 \in S
  BY DEF Sums
<1>2. ASSUME NEW n \in S PROVE n + 1 \in S
  <2>. SUFFICES ASSUME n + 1 <= k PROVE s[n + 1] = t[n + 1]
    OBVIOUS
  <2>1. n \in Nat /\ s[n] = t[n] /\ n + 1 \in 1 .. k /\ n + 1 \in 1 .. a /\ n + 1 \in 1 .. b
    OBVIOUS
  <2>2. s[n + 1] = s[(n + 1) - 1] + fs[n + 1].gas /\ t[n + 1] = t[(n + 1) - 1] + gs[n + 1].gas
    BY <2>1 DEF Sums
  <2>. QED
    BY <2>1, <2>2
<1>. HIDE DEF S
<1>3. S = Nat
  <2>1. S \in SUBSET Nat
    BY DEF S
  <2>. QED
    BY <1>1, <1>2, <2>1, Induction
<1>4. k \in S
  BY <1>3
<1>. QED
  BY <1>4 DEF S

\* TotalGas is that sum.
LEMMA TotalGasIsSum ==
    ASSUME NEW fs \in Seq(FrameSet), NEW s, Sums(s, fs, Len(fs))
    PROVE  TotalGas(fs) = s[Len(fs)]
<1>. DEFINE IsSum(t) == t = [n \in 0 .. Len(fs) |-> IF n = 0 THEN 0 ELSE t[n - 1] + fs[n].gas]
            sum == CHOOSE t : IsSum(t)
            k == Len(fs)
<1>1. k \in Nat
  OBVIOUS
<1>2. IsSum(s)
  <2>1. \A n \in 0 .. k : s[n] = IF n = 0 THEN 0 ELSE s[n - 1] + fs[n].gas
    BY <1>1 DEF Sums
  <2>2. DOMAIN s = 0 .. k /\ s = [n \in 0 .. k |-> s[n]]
    BY DEF Sums
  <2>. QED
    BY <2>1, <2>2, Zenon
<1>3. IsSum(sum)
  BY <1>2, Zenon
<1>4. TotalGas(fs) = sum[k]
  BY Zenon DEF TotalGas
<1>5. /\ DOMAIN sum = 0 .. k
      /\ \A n \in 0 .. k : sum[n] = IF n = 0 THEN 0 ELSE sum[n - 1] + fs[n].gas
  BY <1>3, Zenon
<1>. HIDE DEF sum, IsSum, k
<1>. DEFINE S == {n \in Nat : n <= k => sum[n] = s[n]}
<1>6. 0 \in S
  BY <1>1, <1>5 DEF Sums
<1>7. ASSUME NEW n \in S PROVE n + 1 \in S
  <2>. SUFFICES ASSUME n + 1 <= k PROVE sum[n + 1] = s[n + 1]
    OBVIOUS
  <2>1. n \in Nat /\ sum[n] = s[n] /\ n + 1 \in 1 .. k /\ n + 1 \in 0 .. k /\ n + 1 # 0 /\ (n + 1) - 1 = n
    BY <1>1
  <2>2. sum[n + 1] = sum[n] + fs[n + 1].gas
    BY <1>5, <2>1
  <2>3. s[n + 1] = s[n] + fs[n + 1].gas
    <3>1. s[n + 1] = s[(n + 1) - 1] + fs[n + 1].gas
      BY <2>1 DEF Sums, k
    <3>. QED
      BY <2>1, <3>1
  <2>. QED
    BY <2>1, <2>2, <2>3
<1>. HIDE DEF S
<1>8. S = Nat
  <2>1. S \in SUBSET Nat
    BY DEF S
  <2>. QED
    BY <1>6, <1>7, <2>1, Induction
<1>9. k \in S
  BY <1>1, <1>8
<1>. QED
  BY <1>4, <1>9 DEF S, k

\* Frames that agree on the gas of the first k have the same sum up to there,
\* from which the total of each is one or two frames away.
LEMMA Totals ==
    ASSUME NEW fs \in Seq(FrameSet), NEW gs \in Seq(FrameSet), NEW k \in Nat,
           k <= Len(fs), k <= Len(gs), \A n \in 1 .. k : fs[n].gas = gs[n].gas
    PROVE  \E c \in Nat :
              /\ Len(fs) = k => TotalGas(fs) = c
              /\ Len(fs) = k + 1 => TotalGas(fs) = c + fs[k + 1].gas
              /\ Len(fs) = k + 2 => TotalGas(fs) = (c + fs[k + 1].gas) + fs[k + 2].gas
              /\ Len(gs) = k => TotalGas(gs) = c
              /\ Len(gs) = k + 1 => TotalGas(gs) = c + gs[k + 1].gas
              /\ Len(gs) = k + 2 => TotalGas(gs) = (c + gs[k + 1].gas) + gs[k + 2].gas
<1>1. PICK s : Sums(s, fs, Len(fs))
  BY SumsExist
<1>2. PICK t : Sums(t, gs, Len(gs))
  BY SumsExist
<1>3. TotalGas(fs) = s[Len(fs)] /\ TotalGas(gs) = t[Len(gs)]
  BY <1>1, <1>2, TotalGasIsSum
<1>4. Len(fs) \in Nat /\ Len(gs) \in Nat
  OBVIOUS
<1>5. s[k] = t[k]
  BY <1>1, <1>2, <1>4, SumsAgree
<1>6. s[k] \in Nat
  BY <1>1, <1>4 DEF Sums
<1>7. ASSUME NEW u, NEW hs, NEW m \in Nat, Sums(u, hs, m), k <= m
      PROVE  /\ m = k + 1 => u[m] = u[k] + hs[k + 1].gas
             /\ m = k + 2 => u[m] = (u[k] + hs[k + 1].gas) + hs[k + 2].gas
  <2>1. \A n \in 1 .. m : u[n] = u[n - 1] + hs[n].gas
    BY <1>7 DEF Sums
  <2>2. m >= k + 1 => u[k + 1] = u[k] + hs[k + 1].gas
    BY <2>1, k + 1 \in Nat, (k + 1) - 1 = k
  <2>3. m = k + 2 => u[k + 2] = u[k + 1] + hs[k + 2].gas
    BY <2>1, k + 2 \in Nat, (k + 2) - 1 = k + 1
  <2>. QED
    BY <2>2, <2>3
<1>8. /\ Len(fs) = k + 1 => s[Len(fs)] = s[k] + fs[k + 1].gas
      /\ Len(fs) = k + 2 => s[Len(fs)] = (s[k] + fs[k + 1].gas) + fs[k + 2].gas
  BY <1>1, <1>4, <1>7
<1>9. /\ Len(gs) = k + 1 => t[Len(gs)] = t[k] + gs[k + 1].gas
      /\ Len(gs) = k + 2 => t[Len(gs)] = (t[k] + gs[k + 1].gas) + gs[k + 2].gas
  BY <1>2, <1>4, <1>7
<1>. QED
  BY <1>3, <1>5, <1>6, <1>8, <1>9

\* A step that keeps to Moved makes no gas.
LEMMA MovedGas ==
    ASSUME CallInv, CallInv', stage \in {"ready", "running"}, Moved(top.gas)
    PROVE  TotalGas(frames') <= TotalGas(frames)
<1>. DEFINE n == Len(frames)
            k == n - 1
<1>1. /\ FrameTypes /\ k \in Nat /\ n = k + 1 /\ frames \in Seq(FrameSet) /\ frames' \in Seq(FrameSet)
      /\ top = frames[n] /\ top.gas \in Nat
  BY FramesLemma DEF CallInv, FramesInv, FrameTypes
<1>2. CASE \E rest \in 0 .. top.gas : Continue(rest)
  <2>1. PICK rest \in 0 .. top.gas : Continue(rest)
    BY <1>2
  <2>2. frames' = Left(frames, rest)
    BY <2>1 DEF Continue, Left
  <2>. HIDE DEF n, k
  <2>3. /\ Len(frames') = n /\ frames'[n].gas = rest
        /\ \A i \in 1 .. k : frames'[i].gas = frames[i].gas
    BY <1>1, <2>1, <2>2, LeftLemma DEF n
  <2>4. PICK c \in Nat : /\ TotalGas(frames) = c + frames[k + 1].gas
                        /\ TotalGas(frames') = c + frames'[k + 1].gas
    <3>1. /\ k <= Len(frames) /\ k <= Len(frames') /\ Len(frames) = k + 1 /\ Len(frames') = k + 1
          /\ \A i \in 1 .. k : frames[i].gas = frames'[i].gas
      BY <1>1, <2>3 DEF n
    <3>. QED
      BY <1>1, <3>1, Totals
  <2>. QED
    BY <1>1, <2>1, <2>3, <2>4
<1>3. CASE \E f, rest : Enters(f, rest, top.gas) /\ Run(f, rest)
  <2>1. PICK f, rest : Enters(f, rest, top.gas) /\ Run(f, rest)
    BY <1>3
  <2>2. f \in FrameSet /\ rest \in Nat /\ rest + f.gas <= top.gas /\ f.gas \in Nat
    BY <2>1 DEF Enters, FrameSet
  <2>3. CASE ~hasData
    <3>1. frames' = frames
      BY <2>1, <2>3 DEF Run
    <3>2. TotalGas(frames) \in Nat
      <4>1. PICK s : Sums(s, frames, Len(frames))
        BY <1>1, SumsExist
      <4>2. TotalGas(frames) = s[Len(frames)]
        BY <1>1, <4>1, TotalGasIsSum
      <4>3. Len(frames) \in 0 .. Len(frames)
        BY <1>1
      <4>. QED
        BY <4>1, <4>2, <4>3 DEF Sums
    <3>. QED
      BY <3>1, <3>2
  <2>4. CASE hasData
    <3>. DEFINE fs == Left(frames, rest)
    <3>1. frames' = Append(fs, f)
      BY <2>1, <2>4 DEF Run, Left
    <3>. HIDE DEF n, k
    <3>2. /\ fs \in Seq(FrameSet) /\ Len(fs) = n /\ fs[n].gas = rest
          /\ \A i \in 1 .. k : fs[i].gas = frames[i].gas
      BY <1>1, <2>2, LeftLemma DEF n
    <3>. HIDE DEF fs
    <3>3. /\ Len(frames') = k + 2 /\ frames'[k + 2].gas = f.gas /\ frames'[k + 1].gas = rest
          /\ \A i \in 1 .. k : frames'[i].gas = frames[i].gas
      BY <1>1, <2>2, <3>1, <3>2, AppendProperties
    <3>4. PICK c \in Nat : /\ TotalGas(frames) = c + frames[k + 1].gas
                          /\ TotalGas(frames') = (c + frames'[k + 1].gas) + frames'[k + 2].gas
      <4>1. /\ k <= Len(frames) /\ k <= Len(frames') /\ Len(frames) = k + 1 /\ Len(frames') = k + 2
            /\ \A i \in 1 .. k : frames[i].gas = frames'[i].gas
        BY <1>1, <3>3 DEF n
      <4>. QED
        BY <1>1, <4>1, Totals
    <3>. QED
      BY <1>1, <2>2, <3>3, <3>4
  <2>. QED
    BY <2>3, <2>4
<1>. QED
  BY <1>2, <1>3 DEF Moved

\* A frame that ends gives back at most what it has.
LEMMA LeaveGas ==
    ASSUME CallInv, CallInv', stage = "running", NEW how \in {"ok", "reverted", "failed"}, Leave(how)
    PROVE  TotalGas(frames') <= TotalGas(frames)
<1>. DEFINE n == Len(frames)
            k == n - 2
<1>1. /\ frames \in Seq(FrameSet) /\ frames' \in Seq(FrameSet)
      /\ top = frames[n] /\ n \in Nat /\ \A i \in 1 .. n : frames[i].gas \in Nat
  BY FramesLemma DEF CallInv, FramesInv, FrameTypes
<1>2. /\ n >= 2 /\ Len(frames') = n - 1
      /\ \A i \in 1 .. n - 1 : i < n - 1 => frames'[i].gas = frames[i].gas
      /\ frames'[n - 1].gas <= frames[n - 1].gas + top.gas
  BY Popped DEF CallInv
<1>3. k \in Nat /\ n = k + 2 /\ n - 1 = k + 1
  BY <1>1, <1>2
<1>. HIDE DEF n, k
<1>4. /\ Len(frames') = k + 1 /\ \A i \in 1 .. k : frames'[i].gas = frames[i].gas
      /\ frames'[k + 1].gas <= frames[k + 1].gas + frames[k + 2].gas
  BY <1>1, <1>2, <1>3
<1>5. PICK c \in Nat : /\ TotalGas(frames) = (c + frames[k + 1].gas) + frames[k + 2].gas
                      /\ TotalGas(frames') = c + frames'[k + 1].gas
  <2>1. /\ k <= Len(frames) /\ k <= Len(frames') /\ Len(frames) = k + 2 /\ Len(frames') = k + 1
        /\ \A i \in 1 .. k : frames[i].gas = frames'[i].gas
    BY <1>3, <1>4 DEF n
  <2>. QED
    BY <1>1, <1>3, <2>1, Totals
<1>6. frames[k + 1].gas \in Nat /\ frames[k + 2].gas \in Nat
  BY <1>1, <1>3
<1>7. frames'[k + 1].gas \in Nat
  <2>1. k + 1 \in 1 .. Len(frames')
    BY <1>3, <1>4
  <2>2. \A f \in FrameSet : f.gas \in Nat
    BY DEF FrameSet
  <2>. QED
    BY <1>1, <2>1, <2>2
<1>8. \A old, callee, new \in Nat : new <= old + callee => c + new <= (c + old) + callee
  OBVIOUS
<1>9. c + frames'[k + 1].gas <= (c + frames[k + 1].gas) + frames[k + 2].gas
  BY <1>4, <1>6, <1>7, <1>8
<1>. QED
  BY <1>5, <1>9

\* No step makes gas: a callee has what its caller gave up, and gives back at
\* most that (gas_table.go:351, instructions.go:699).
THEOREM GasIsNeverMade == Spec => GasNeverMade
<1>1. ASSUME CallInv, CallInv', [Next]_vars
      PROVE  [stage # "ready" => TotalGas(frames') <= TotalGas(frames)]_vars
  <2>1. CASE Begin \/ (Running /\ (Store \/ MakeLog \/ Calls))
    BY <1>1, <2>1, BeginKeeps, StoreKeeps, CallsKeep, MovedGas DEF Begin, Running
  <2>2. CASE Running /\ Selfdestruct
    BY <1>1, <2>2, LeaveGas DEF Selfdestruct, Running
  <2>3. CASE Running /\ Return
    BY <1>1, <2>3, LeaveGas DEF Return, Running
  <2>. QED
    BY <1>1, <2>1, <2>2, <2>3, Zenon DEF Next, Execute
<1>. QED
  BY <1>1, FramesInvariance, PTL DEF Spec, GasNeverMade
=============================================================================
