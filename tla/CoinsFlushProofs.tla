-------------------------- MODULE CoinsFlushProofs --------------------------
(***************************************************************************)
(* Proofs for CoinsView and CoinsFlush: for any tree of valid blocks, any  *)
(* number of outpoints, flushes, crashes and lost batches, the cache over  *)
(* the database holds the coins of the tip, and start-up always recovers   *)
(* the coins of one tip.                                                   *)
(***************************************************************************)
EXTENDS CoinsFlush, WellFoundedInduction, TLAPS

-----------------------------------------------------------------------------
(* Caches.                                                                 *)

\* An entry is in a state that coins.h allows over a view that holds base: a clean
\* entry repeats it, and a FRESH one covers no coin.
Sound(e, base) ==
  \/ e = Absent
  \/ /\ e \in CacheEntry
     /\ ~e.dirty => e.coin = base /\ ~e.fresh
     /\ e.fresh => base = NoCoin
     /\ e.coin = NoCoin => e.dirty /\ ~e.fresh

\* What the proofs use of the entries of a cache: none is a marker.
LEMMA EntryFacts ==
  ASSUME NEW coin \in Nat, NEW dirty \in BOOLEAN, NEW fresh \in BOOLEAN
  PROVE  /\ Entry(coin, dirty, fresh) \in CacheEntry
         /\ Entry(coin, dirty, fresh) \notin {Absent, Thrown}
         /\ Entry(coin, dirty, fresh).coin = coin
         /\ Entry(coin, dirty, fresh).dirty = dirty
         /\ Entry(coin, dirty, fresh).fresh = fresh
BY CoinsViewAssumption DEF Entry, CacheEntry

\* An entry that an operation left is not the mark of one that threw.
LEMMA SoundNotThrown ==
  ASSUME NEW base, NEW e, Sound(e, base)
  PROVE  e # Thrown
BY CoinsViewAssumption, Zenon DEF Sound

\* The states of a sound entry, one by one.
LEMMA SoundCases ==
  ASSUME NEW base \in Nat, NEW e, Sound(e, base)
  PROVE  \/ e = Absent
         \/ base # NoCoin /\ e = Entry(base, FALSE, FALSE)
         \/ \E coin \in Nat : e = Entry(coin, TRUE, FALSE)
         \/ base = NoCoin /\ \E coin \in Nat \ {NoCoin} : e = Entry(coin, TRUE, TRUE)
<1>0. SUFFICES ASSUME e # Absent
               PROVE  \/ base # NoCoin /\ e = Entry(base, FALSE, FALSE)
                      \/ \E coin \in Nat : e = Entry(coin, TRUE, FALSE)
                      \/ base = NoCoin /\ \E coin \in Nat \ {NoCoin} : e = Entry(coin, TRUE, TRUE)
  BY Zenon
<1>1. /\ e \in CacheEntry
      /\ ~e.dirty => e.coin = base /\ ~e.fresh
      /\ e.fresh => base = NoCoin
      /\ e.coin = NoCoin => e.dirty /\ ~e.fresh
  BY <1>0, Zenon DEF Sound
<1>2. e = Entry(e.coin, e.dirty, e.fresh)
  BY <1>1, Zenon DEF CacheEntry, Entry
<1>3. e.coin \in Nat /\ e.dirty \in BOOLEAN /\ e.fresh \in BOOLEAN
  BY <1>1, Zenon DEF CacheEntry
<1>4. CASE e.dirty /\ ~e.fresh
  <2>1. e.dirty = TRUE /\ e.fresh = FALSE
    BY <1>3, <1>4, Zenon
  <2> QED BY <1>2, <1>3, <2>1, Zenon
<1>5. CASE e.dirty /\ e.fresh
  <2>1. e.dirty = TRUE /\ e.fresh = TRUE
    BY <1>3, <1>5, Zenon
  <2>2. e.coin \in Nat \ {NoCoin}
    BY <1>1, <1>3, <1>5, Zenon
  <2>3. e = Entry(e.coin, TRUE, TRUE)
    BY <1>2, <2>1, Zenon
  <2> QED BY <1>1, <1>5, <2>2, <2>3, Zenon
<1>6. CASE ~e.dirty
  <2>1. e.dirty = FALSE /\ e.fresh = FALSE /\ e.coin = base /\ base # NoCoin
    BY <1>1, <1>3, <1>6, Zenon
  <2> QED BY <1>2, <2>1, Zenon
<1> QED BY <1>4, <1>5, <1>6, Zenon

\* The other way round: entries in these states are sound.
LEMMA SoundEntries ==
  ASSUME NEW base \in Nat
  PROVE  /\ Sound(Absent, base)
         /\ base # NoCoin => Sound(Entry(base, FALSE, FALSE), base)
         /\ \A coin \in Nat : Sound(Entry(coin, TRUE, FALSE), base)
         /\ base = NoCoin => \A coin \in Nat \ {NoCoin} : Sound(Entry(coin, TRUE, TRUE), base)
<1>1. ASSUME base # NoCoin PROVE Sound(Entry(base, FALSE, FALSE), base)
  BY <1>1, EntryFacts, Zenon DEF Sound
<1>2. ASSUME NEW coin \in Nat PROVE Sound(Entry(coin, TRUE, FALSE), base)
  BY EntryFacts, Zenon DEF Sound
<1>3. ASSUME NEW coin \in Nat \ {NoCoin}, base = NoCoin PROVE Sound(Entry(coin, TRUE, TRUE), base)
  BY <1>3, EntryFacts, Zenon DEF Sound
<1>4. Sound(Absent, base)
  BY Zenon DEF Sound
<1> QED BY <1>1, <1>2, <1>3, <1>4, Zenon

\* What a view says through these entries.
LEMMA GetCoinCases ==
  ASSUME NEW base
  PROVE  /\ GetCoin(Absent, base) = base
         /\ \A coin \in Nat : \A dirty, fresh \in BOOLEAN : GetCoin(Entry(coin, dirty, fresh), base) = coin
BY EntryFacts, Zenon DEF GetCoin

\* An entry that is FRESH covers no coin, and a view holds a number.
LEMMA SoundFacts ==
  ASSUME NEW base \in Nat, NEW e, Sound(e, base)
  PROVE  /\ GetCoin(e, base) \in Nat
         /\ e # Absent => e.fresh = FALSE \/ (base = NoCoin /\ e.fresh = TRUE)
<1>1. CASE e = Absent
  BY <1>1, GetCoinCases, Zenon
<1>2. CASE e = Entry(base, FALSE, FALSE)
  <2>1. GetCoin(e, base) = base
    BY <1>2, GetCoinCases, Zenon
  <2>2. e.fresh = FALSE
    BY <1>2, EntryFacts, Zenon
  <2> QED BY <2>1, <2>2, Zenon
<1>3. CASE \E coin \in Nat : e = Entry(coin, TRUE, FALSE)
  <2>1. PICK coin \in Nat : e = Entry(coin, TRUE, FALSE)
    BY <1>3, Zenon
  <2>2. GetCoin(e, base) = coin
    BY <2>1, GetCoinCases, Zenon
  <2>3. e.fresh = FALSE
    BY <2>1, EntryFacts, Zenon
  <2> QED BY <2>2, <2>3, Zenon
<1>4. CASE base = NoCoin /\ \E coin \in Nat \ {NoCoin} : e = Entry(coin, TRUE, TRUE)
  <2>1. PICK coin \in Nat \ {NoCoin} : e = Entry(coin, TRUE, TRUE)
    BY <1>4, Zenon
  <2>2. coin \in Nat
    BY Zenon
  <2>3. GetCoin(e, base) \in Nat
    BY <2>1, <2>2, GetCoinCases, Zenon
  <2>4. e.fresh = TRUE
    BY <2>1, <2>2, EntryFacts, Zenon
  <2> QED BY <1>4, <2>3, <2>4, Zenon
<1> QED BY <1>1, <1>2, <1>3, <1>4, SoundCases, Zenon

\* SpendCoin removes the coin, and an entry disappears only over a view that holds
\* nothing.
LEMMA SpendCoinSound ==
  ASSUME NEW base \in Nat, NEW e, Sound(e, base)
  PROVE  /\ SpendCoin(e, base) # Thrown
         /\ Sound(SpendCoin(e, base), base)
         /\ GetCoin(SpendCoin(e, base), base) = NoCoin
<1> DEFINE spent == SpendCoin(e, base)
<1>0. NoCoin \in Nat
  BY Zenon DEF NoCoin
<1>1. spent = Entry(NoCoin, TRUE, FALSE) \/ (spent = Absent /\ base = NoCoin)
  <2>1. CASE e = Absent
    BY <2>1, CoinsViewAssumption, EntryFacts, Zenon DEF SpendCoin, FetchCoin
  <2>2. CASE e = Entry(base, FALSE, FALSE)
    BY <2>2, EntryFacts, Zenon DEF SpendCoin, FetchCoin
  <2>3. CASE \E coin \in Nat : e = Entry(coin, TRUE, FALSE)
    BY <2>3, EntryFacts, Zenon DEF SpendCoin, FetchCoin
  <2>4. CASE base = NoCoin /\ \E coin \in Nat \ {NoCoin} : e = Entry(coin, TRUE, TRUE)
    <3>1. PICK coin \in Nat \ {NoCoin} : e = Entry(coin, TRUE, TRUE)
      BY <2>4, Zenon
    <3>2. coin \in Nat
      BY Zenon
    <3>3. e \notin {Absent, Thrown} /\ e.fresh = TRUE
      BY <3>1, <3>2, EntryFacts, Zenon
    <3>4. spent = Absent
      BY <3>3, Zenon DEF SpendCoin, FetchCoin
    <3> QED BY <2>4, <3>4, Zenon
  <2> QED BY <2>1, <2>2, <2>3, <2>4, SoundCases, Zenon
<1> HIDE DEF spent
<1>2. spent # Thrown /\ Sound(spent, base) /\ GetCoin(spent, base) = NoCoin
  BY <1>0, <1>1, CoinsViewAssumption, EntryFacts, SoundEntries, Zenon DEF GetCoin
<1> QED BY <1>2, Zenon DEF spent

\* A coin that is added over whatever is there never throws, and is FRESH only over
\* a view that holds nothing.
LEMMA AddCheckedSound ==
  ASSUME NEW base \in Nat, NEW e, Sound(e, base), NEW height \in Nat \ {NoCoin}
  PROVE  /\ AddChecked(e, base, height) # Thrown
         /\ Sound(AddChecked(e, base, height), base)
         /\ GetCoin(AddChecked(e, base, height), base) = height
<1> DEFINE added == AddChecked(e, base, height)
<1>0. NoCoin \in Nat
  BY Zenon DEF NoCoin
<1>1. \/ added = Entry(height, TRUE, FALSE)
      \/ added = Entry(height, TRUE, TRUE) /\ base = NoCoin
  <2>1. CASE e = Absent /\ base = NoCoin
    <3>1. FetchCoin(e, base) = Absent /\ GetCoin(Absent, base) = NoCoin
      BY <2>1, Zenon DEF FetchCoin, GetCoin
    <3>2. added = AddCoin(Absent, height, FALSE)
      BY <3>1, Zenon DEF AddChecked
    <3>3. Entry(NoCoin, FALSE, FALSE).coin = NoCoin /\ Entry(NoCoin, FALSE, FALSE).dirty = FALSE
      BY <1>0, EntryFacts, Zenon
    <3>4. added = Entry(height, TRUE, TRUE) \/ added = Entry(height, TRUE, FALSE)
      BY <3>2, <3>3, Zenon DEF AddCoin, AddedFresh, Entry
    <3> QED BY <2>1, <3>4, Zenon
  <2>2. CASE base # NoCoin /\ e \in {Absent, Entry(base, FALSE, FALSE)}
    <3>1. FetchCoin(e, base) = Entry(base, FALSE, FALSE)
      BY <2>2, EntryFacts, Zenon DEF FetchCoin
    <3>2. GetCoin(Entry(base, FALSE, FALSE), base) = base
      BY EntryFacts, Zenon DEF GetCoin
    <3>3. added = AddCoin(Entry(base, FALSE, FALSE), height, TRUE)
      BY <2>2, <3>1, <3>2, Zenon DEF AddChecked
    <3> QED BY <3>3, EntryFacts, Zenon DEF AddCoin, Entry
  <2>3. CASE \E coin \in Nat : e = Entry(coin, TRUE, FALSE)
    <3>1. PICK coin \in Nat : e = Entry(coin, TRUE, FALSE)
      BY <2>3, Zenon
    <3>2. FetchCoin(e, base) = e /\ GetCoin(e, base) = coin
      BY <3>1, EntryFacts, Zenon DEF FetchCoin, GetCoin
    <3>3. added = AddCoin(Entry(coin, TRUE, FALSE), height, coin # NoCoin)
      BY <3>1, <3>2, Zenon DEF AddChecked
    <3> QED BY <3>3, EntryFacts, Zenon DEF AddCoin, AddedFresh, Entry
  <2>4. CASE base = NoCoin /\ \E coin \in Nat \ {NoCoin} : e = Entry(coin, TRUE, TRUE)
    <3>1. PICK coin \in Nat \ {NoCoin} : e = Entry(coin, TRUE, TRUE)
      BY <2>4, Zenon
    <3>2. FetchCoin(e, base) = e /\ GetCoin(e, base) = coin
      BY <3>1, EntryFacts, Zenon DEF FetchCoin, GetCoin
    <3>3. added = AddCoin(Entry(coin, TRUE, TRUE), height, TRUE)
      BY <3>1, <3>2, Zenon DEF AddChecked
    <3> QED BY <2>4, <3>3, EntryFacts, Zenon DEF AddCoin, Entry
  <2> QED BY <2>1, <2>2, <2>3, <2>4, SoundCases, Zenon
<1> HIDE DEF added
<1>2. added # Thrown /\ Sound(added, base) /\ GetCoin(added, base) = height
  <2>1. height \in Nat
    BY Zenon
  <2>2. CASE added = Entry(height, TRUE, FALSE)
    <3>1. Sound(added, base)
      BY <2>1, <2>2, SoundEntries, Zenon
    <3>2. GetCoin(added, base) = height
      BY <2>1, <2>2, GetCoinCases, Zenon
    <3> QED BY <3>1, <3>2, SoundNotThrown, Zenon
  <2>3. CASE added = Entry(height, TRUE, TRUE) /\ base = NoCoin
    <3>1. Sound(added, base)
      BY <2>3, SoundEntries, Zenon
    <3>2. GetCoin(added, base) = height
      BY <2>1, <2>3, GetCoinCases, Zenon
    <3> QED BY <3>1, <3>2, SoundNotThrown, Zenon
  <2> QED BY <1>1, <2>2, <2>3, Zenon
<1> QED BY <1>2, Zenon DEF added

\* BatchWrite of a sound cache into the sound cache below it throws nothing, leaves
\* a sound cache, and the view does not change.
LEMMA BatchWriteSound ==
  ASSUME NEW base \in Nat, NEW p, Sound(p, base), NEW c, Sound(c, GetCoin(p, base))
  PROVE  /\ BatchWrite(p, c) # Thrown
         /\ Sound(BatchWrite(p, c), base)
         /\ GetCoin(BatchWrite(p, c), base) = GetCoin(c, GetCoin(p, base))
<1> DEFINE v == GetCoin(p, base)
           m == BatchWrite(p, c)
<1>0. NoCoin \in Nat
  BY Zenon DEF NoCoin
<1>1. v \in Nat /\ p # Thrown /\ c # Thrown
  <2>1. p # Thrown /\ c # Thrown
    BY SoundNotThrown, Zenon
  <2>2. v \in Nat
    BY SoundFacts, Zenon
  <2> QED BY <2>1, <2>2, Zenon
<1>2. CASE c = Absent \/ c = Entry(v, FALSE, FALSE)
  <2>1. c = Absent \/ ~c.dirty
    BY <1>1, <1>2, EntryFacts, Zenon
  <2>2. m = p
    BY <1>1, <2>1, Zenon DEF BatchWrite
  <2>3. GetCoin(c, v) = v
    BY <1>1, <1>2, GetCoinCases, Zenon
  <2> QED BY <1>1, <2>2, <2>3, Zenon
<1>3. CASE \E coin \in Nat : c = Entry(coin, TRUE, FALSE)
  <2>1. PICK coin \in Nat : c = Entry(coin, TRUE, FALSE)
    BY <1>3, Zenon
  <2>2. c \notin {Absent, Thrown} /\ c.dirty /\ ~c.fresh /\ c.coin = coin /\ GetCoin(c, v) = coin
    BY <2>1, EntryFacts, Zenon DEF GetCoin
  <2>3. \/ m = Entry(coin, TRUE, FALSE)
        \/ base = NoCoin /\ coin = NoCoin /\ m = Absent
        \/ base = NoCoin /\ coin # NoCoin /\ m = Entry(coin, TRUE, TRUE)
    <3>1. CASE p = Absent
      <4>1. m = Entry(c.coin, TRUE, c.fresh)
        BY <1>1, <2>2, <3>1, Zenon DEF BatchWrite
      <4> QED BY <2>1, <2>2, <4>1, EntryFacts, Zenon
    <3>2. CASE p # Absent
      <4>1. m = IF p.fresh /\ coin = NoCoin THEN Absent ELSE Entry(coin, TRUE, p.fresh)
        BY <1>1, <2>2, <3>2, Zenon DEF BatchWrite, MergeInto
      <4>2. p.fresh = FALSE \/ (base = NoCoin /\ p.fresh = TRUE)
        BY <3>2, SoundFacts, Zenon
      <4> QED BY <4>1, <4>2, Zenon
    <3> QED BY <3>1, <3>2, Zenon
  <2> HIDE DEF m
  <2>4. m # Thrown /\ Sound(m, base) /\ GetCoin(m, base) = coin
    <3>1. CASE m = Entry(coin, TRUE, FALSE)
      BY <3>1, GetCoinCases, SoundEntries, SoundNotThrown, Zenon
    <3>2. CASE base = NoCoin /\ coin = NoCoin /\ m = Absent
      BY <3>2, GetCoinCases, SoundEntries, SoundNotThrown, Zenon
    <3>3. CASE base = NoCoin /\ coin # NoCoin /\ m = Entry(coin, TRUE, TRUE)
      <4>1. coin \in Nat \ {NoCoin}
        BY <3>3, Zenon
      <4>2. Sound(m, base)
        BY <3>3, <4>1, SoundEntries, Zenon
      <4> QED BY <3>3, <4>2, GetCoinCases, SoundNotThrown, Zenon
    <3> QED BY <2>3, <3>1, <3>2, <3>3, Zenon
  <2> QED BY <2>2, <2>4, Zenon DEF m
<1>4. CASE v = NoCoin /\ \E coin \in Nat \ {NoCoin} : c = Entry(coin, TRUE, TRUE)
  <2>1. PICK coin \in Nat \ {NoCoin} : c = Entry(coin, TRUE, TRUE)
    BY <1>4, Zenon
  <2>2. c \notin {Absent, Thrown} /\ c.dirty /\ c.fresh = TRUE /\ c.coin = coin /\ GetCoin(c, v) = coin
    BY <2>1, EntryFacts, Zenon DEF GetCoin
  <2>3. m = Entry(coin, TRUE, FALSE) \/ (base = NoCoin /\ m = Entry(coin, TRUE, TRUE))
    <3>1. CASE p = Absent
      <4>1. m = Entry(c.coin, TRUE, c.fresh)
        BY <1>1, <2>1, <2>2, <3>1, Zenon DEF BatchWrite
      <4>2. base = NoCoin
        BY <1>4, <3>1, Zenon DEF GetCoin
      <4> QED BY <2>2, <4>1, <4>2, Zenon
    <3>2. CASE p # Absent
      <4>1. p.coin = NoCoin
        BY <1>4, <3>2, Zenon DEF GetCoin
      <4>2. m = Entry(coin, TRUE, p.fresh)
        BY <1>1, <2>1, <2>2, <3>2, <4>1, Zenon DEF BatchWrite, MergeInto
      <4>3. p.fresh = FALSE \/ (base = NoCoin /\ p.fresh = TRUE)
        BY <3>2, SoundFacts, Zenon
      <4> QED BY <4>2, <4>3, Zenon
    <3> QED BY <3>1, <3>2, Zenon
  <2> HIDE DEF m
  <2>4. m # Thrown /\ Sound(m, base) /\ GetCoin(m, base) = coin
    <3>1. coin \in Nat
      BY Zenon
    <3>2. CASE m = Entry(coin, TRUE, FALSE)
      <4>1. Sound(m, base)
        BY <3>1, <3>2, SoundEntries, Zenon
      <4>2. GetCoin(m, base) = coin
        BY <3>1, <3>2, GetCoinCases, Zenon
      <4> QED BY <4>1, <4>2, SoundNotThrown, Zenon
    <3>3. CASE base = NoCoin /\ m = Entry(coin, TRUE, TRUE)
      <4>1. Sound(m, base)
        BY <3>3, SoundEntries, Zenon
      <4> QED BY <3>1, <3>3, <4>1, GetCoinCases, SoundNotThrown, Zenon
    <3> QED BY <2>3, <3>2, <3>3, Zenon
  <2> QED BY <2>2, <2>4, Zenon DEF m
<1> HIDE DEF m, v
<1>5. \/ c = Absent
      \/ v # NoCoin /\ c = Entry(v, FALSE, FALSE)
      \/ \E coin \in Nat : c = Entry(coin, TRUE, FALSE)
      \/ v = NoCoin /\ \E coin \in Nat \ {NoCoin} : c = Entry(coin, TRUE, TRUE)
  BY <1>1, SoundCases, Zenon DEF v
<1> QED BY <1>2, <1>3, <1>4, <1>5, Zenon

-----------------------------------------------------------------------------
(* Blocks.                                                                 *)

\* ConnectBlock leaves what the block does to a coin that is as it should be.
LEMMA ConnectBlockSound ==
  ASSUME NEW base \in Nat, NEW effect \in Effect, NEW height \in Nat \ {NoCoin},
         effect.made # "no" => base = NoCoin
  PROVE  /\ Sound(ConnectBlock(effect, base, height), base)
         /\ GetCoin(ConnectBlock(effect, base, height), base) =
              IF effect.spent THEN NoCoin ELSE IF effect.made # "no" THEN height ELSE base
<1> DEFINE made == IF effect.made = "no" THEN Absent
                   ELSE AddCoin(Absent, height, effect.made = "coinbase")
<1>1. Sound(made, base) /\ GetCoin(made, base) = IF effect.made # "no" THEN height ELSE base
  <2>1. CASE effect.made = "no"
    BY <2>1, Zenon DEF Sound, GetCoin
  <2>2. CASE effect.made # "no"
    <3>1. made = Entry(height, TRUE, FALSE) \/ made = Entry(height, TRUE, TRUE)
      BY <2>2, CoinsViewAssumption, Zenon DEF AddCoin, AddedFresh, Entry, CacheEntry, NoCoin
    <3> HIDE DEF made
    <3>2. GetCoin(made, base) = height
      <4>1. height \in Nat
        BY Zenon
      <4>2. GetCoin(Entry(height, TRUE, FALSE), base) = height
        BY <4>1, GetCoinCases, Zenon
      <4>3. GetCoin(Entry(height, TRUE, TRUE), base) = height
        BY <4>1, GetCoinCases, Zenon
      <4> QED BY <3>1, <4>2, <4>3, Zenon
    <3>3. Sound(made, base)
      <4>1. height \in Nat /\ base = NoCoin
        BY <2>2, Zenon
      <4> QED BY <3>1, <4>1, SoundEntries, Zenon
    <3> QED BY <2>2, <3>2, <3>3, Zenon
  <2> QED BY <2>1, <2>2, Zenon
<1>2. ConnectBlock(effect, base, height) = IF effect.spent THEN SpendCoin(made, base) ELSE made
  BY Zenon DEF ConnectBlock
<1> HIDE DEF made
<1> QED
  BY <1>1, <1>2, SpendCoinSound, Zenon DEF Effect

\* DisconnectBlock undoes the block in any sound cache, whether it holds what the
\* block left or not.
LEMMA DisconnectBlockSound ==
  ASSUME NEW base \in Nat, NEW e, Sound(e, base), NEW effect \in Effect,
         NEW coin \in Nat, effect.spent => coin # NoCoin
  PROVE  /\ DisconnectBlock(e, effect, base, coin) # Thrown
         /\ Sound(DisconnectBlock(e, effect, base, coin), base)
         /\ GetCoin(DisconnectBlock(e, effect, base, coin), base) =
              IF effect.made # "no" THEN NoCoin
              ELSE IF effect.spent THEN coin ELSE GetCoin(e, base)
<1> DEFINE restored == IF effect.spent THEN AddChecked(e, base, coin) ELSE e
<1>1. /\ restored # Thrown
      /\ Sound(restored, base)
      /\ GetCoin(restored, base) = IF effect.spent THEN coin ELSE GetCoin(e, base)
  <2>1. e # Thrown
    BY CoinsViewAssumption, Zenon DEF Sound
  <2> QED
    BY <2>1, AddCheckedSound DEF Effect, NoCoin
<1>2. DisconnectBlock(e, effect, base, coin) =
        IF effect.made = "no" THEN restored ELSE SpendCoin(restored, base)
  BY Zenon DEF DisconnectBlock
<1> HIDE DEF restored
<1> QED
  BY <1>1, <1>2, SpendCoinSound, Zenon

\* RollforwardBlock applies the block in any sound cache, however much of it was
\* applied before.
LEMMA RollforwardBlockSound ==
  ASSUME NEW base \in Nat, NEW e, Sound(e, base), NEW effect \in Effect,
         NEW height \in Nat \ {NoCoin}
  PROVE  /\ RollforwardBlock(e, effect, base, height) # Thrown
         /\ Sound(RollforwardBlock(e, effect, base, height), base)
         /\ GetCoin(RollforwardBlock(e, effect, base, height), base) =
              IF effect.spent THEN NoCoin
              ELSE IF effect.made # "no" THEN height ELSE GetCoin(e, base)
<1> DEFINE made == IF effect.made = "no" THEN e ELSE AddChecked(e, base, height)
<1>1. /\ made # Thrown
      /\ Sound(made, base)
      /\ GetCoin(made, base) = IF effect.made # "no" THEN height ELSE GetCoin(e, base)
  <2>1. e # Thrown
    BY CoinsViewAssumption, Zenon DEF Sound
  <2> QED
    BY <2>1, AddCheckedSound, Zenon DEF NoCoin
<1>2. RollforwardBlock(e, effect, base, height) =
        IF effect.spent THEN SpendCoin(made, base) ELSE made
  BY Zenon DEF RollforwardBlock
<1> HIDE DEF made
<1> QED
  BY <1>1, <1>2, SpendCoinSound, Zenon DEF Effect

-----------------------------------------------------------------------------
(* The tree of blocks.                                                     *)

\* Every nonempty set of natural numbers has a least element.
LEMMA LeastNumber ==
  ASSUME NEW T, T \subseteq Nat, T # {}
  PROVE  \E x \in T : \A y \in T : x <= y
<1> DEFINE less == OpToRel(<, Nat)
<1>1. IsWellFoundedOn(less, Nat)
  BY NatLessThanWellFounded, Zenon
<1>2. \E x \in T : \A y \in T : ~(<<y, x>> \in less)
  <2> HIDE DEF less
  <2> QED BY <1>1, WFMin, Zenon
<1>3. PICK x \in T : \A y \in T : ~(<<y, x>> \in less)
  BY <1>2, Zenon
<1>4. ASSUME NEW y \in T PROVE x <= y
  <2>1. ~(y < x)
    BY <1>3, Zenon DEF OpToRel
  <2> QED BY <2>1
<1> QED BY <1>4, Zenon

\* Every nonempty set of blocks has a lowest one.
LEMMA LowestBlock ==
  ASSUME NEW S, S \subseteq Block, S # {}
  PROVE  \E b \in S : \A c \in S : nHeight[b] <= nHeight[c]
<1> DEFINE T == {nHeight[b] : b \in S}
<1>1. T \subseteq Nat /\ T # {}
  BY CoinsFlushAssumption DEF CoinsFlushAssumption
<1>2. \E x \in T : \A y \in T : x <= y
  <2> HIDE DEF T
  <2> QED BY <1>1, LeastNumber, Zenon
<1> QED BY <1>2, Zenon

\* The parent of a block other than Genesis is one lower.
LEMMA Parent ==
  ASSUME NEW b \in Block
  PROVE  /\ nHeight[b] \in Nat
         /\ b = Genesis <=> nHeight[b] = 0
         /\ b # Genesis => pprev[b] \in Block /\ nHeight[b] = nHeight[pprev[b]] + 1
BY CoinsFlushAssumption DEF CoinsFlushAssumption

\* Recursion along pprev defines a function: on the blocks up to each height there
\* is one, and two of them agree where both are right.
LEMMA BlockRecursion ==
  ASSUME NEW S, NEW base \in S, NEW G \in [Block -> [S -> S]]
  PROVE  \E f \in [Block -> S] :
           \A b \in Block : f[b] = IF b = Genesis THEN base ELSE G[b][f[pprev[b]]]
<1> DEFINE Body(f, b) == IF b = Genesis THEN base ELSE G[b][f[pprev[b]]]
           Upto(f, n) == \A b \in Block : nHeight[b] <= n => f[b] = Body(f, b)
           Bad == {n \in Nat : ~ \E f \in [Block -> S] : Upto(f, n)}
<1>1. ASSUME NEW f \in [Block -> S], NEW b \in Block PROVE Body(f, b) \in S
  BY Parent, Zenon
<1>2. ASSUME NEW f \in [Block -> S] , NEW n \in Nat, \A b \in Block : nHeight[b] < n => f[b] = Body(f, b)
      PROVE  \E h \in [Block -> S] : Upto(h, n)
  <2> DEFINE h == [b \in Block |-> Body(f, b)]
  <2>1. h \in [Block -> S]
    BY <1>1, Zenon
  <2>2. ASSUME NEW b \in Block, nHeight[b] <= n PROVE h[b] = Body(h, b)
    <3>1. CASE b = Genesis
      BY <3>1, Zenon
    <3>2. CASE b # Genesis
      <4>1. pprev[b] \in Block /\ nHeight[pprev[b]] < n
        BY <2>2, <3>2, Parent
      <4>2. h[pprev[b]] = f[pprev[b]]
        BY <1>2, <4>1, Zenon
      <4> QED BY <3>2, <4>2, Zenon
    <3> QED BY <3>1, <3>2, Zenon
  <2> HIDE DEF h, Body
  <2> QED BY <2>1, <2>2, Zenon
<1>3. ASSUME NEW n \in Nat PROVE \E f \in [Block -> S] : Upto(f, n)
  <2>1. SUFFICES ASSUME Bad # {} PROVE FALSE
    BY Zenon
  <2>2. PICK m \in Bad : \A k \in Bad : m <= k
    <3>1. Bad \subseteq Nat
      BY Zenon
    <3> HIDE DEF Bad
    <3> QED BY <2>1, <3>1, LeastNumber, Zenon
  <2>3. m \in Nat
    BY <2>2, Zenon
  <2>4. \E f \in [Block -> S] : \A b \in Block : nHeight[b] < m => f[b] = Body(f, b)
    <3>1. CASE m = 0
      <4> DEFINE f == [b \in Block |-> base]
      <4>1. f \in [Block -> S]
        BY Zenon
      <4>2. \A b \in Block : ~(nHeight[b] < m)
        BY <2>3, <3>1, Parent
      <4> HIDE DEF f, Body
      <4> QED BY <4>1, <4>2, Zenon
    <3>2. CASE m # 0
      <4>1. m - 1 \in Nat /\ ~(m <= m - 1)
        BY <2>3, <3>2
      <4>2. m - 1 \notin Bad
        BY <2>2, <4>1, Zenon
      <4>3. PICK f \in [Block -> S] : Upto(f, m - 1)
        BY <4>1, <4>2, Zenon
      <4>4. \A b \in Block : nHeight[b] < m => nHeight[b] <= m - 1
        BY <2>3, Parent
      <4> HIDE DEF Body
      <4> QED BY <4>3, <4>4, Zenon
    <3> QED BY <3>1, <3>2, Zenon
  <2>5. \E h \in [Block -> S] : Upto(h, m)
    <3> HIDE DEF Upto, Body
    <3> QED BY <1>2, <2>4, <2>3, Zenon
  <2> QED BY <2>2, <2>5, Zenon
<1>4. ASSUME NEW n \in Nat, NEW m \in Nat, NEW f \in [Block -> S], NEW g \in [Block -> S],
             Upto(f, n), Upto(g, m), NEW b \in Block, nHeight[b] <= n, nHeight[b] <= m
      PROVE  f[b] = g[b]
  <2> DEFINE D == {c \in Block : nHeight[c] <= n /\ nHeight[c] <= m /\ f[c] # g[c]}
  <2>1. SUFFICES ASSUME D # {} PROVE FALSE
    BY <1>4, Zenon
  <2>2. PICK c \in D : \A d \in D : nHeight[c] <= nHeight[d]
    <3>1. D \subseteq Block
      BY Zenon
    <3> HIDE DEF D
    <3> QED BY <2>1, <3>1, LowestBlock, Zenon
  <2>3. f[c] = Body(f, c) /\ g[c] = Body(g, c)
    <3> HIDE DEF Body
    <3> QED BY <1>4, <2>2, Zenon
  <2>4. CASE c = Genesis
    BY <2>2, <2>3, <2>4, Zenon
  <2>5. CASE c # Genesis
    <3>1. /\ pprev[c] \in Block /\ ~(nHeight[c] <= nHeight[pprev[c]])
          /\ nHeight[pprev[c]] <= n /\ nHeight[pprev[c]] <= m
      BY <2>2, <2>5, Parent
    <3>2. f[pprev[c]] = g[pprev[c]]
      BY <2>2, <3>1, Zenon
    <3> QED BY <2>2, <2>3, <2>5, <3>2, Zenon
  <2> QED BY <2>4, <2>5, Zenon
<1> DEFINE At(n) == CHOOSE f \in [Block -> S] : Upto(f, n)
           F == [b \in Block |-> At(nHeight[b])[b]]
<1>5. ASSUME NEW n \in Nat PROVE At(n) \in [Block -> S] /\ Upto(At(n), n)
  <2> HIDE DEF Upto
  <2> QED BY <1>3, Zenon
<1>6. F \in [Block -> S]
  <2> HIDE DEF At, Upto
  <2> QED BY <1>5, Parent, Zenon
<1>7. ASSUME NEW b \in Block PROVE F[b] = Body(F, b)
  <2> HIDE DEF At
  <2>1. F[b] = Body(At(nHeight[b]), b)
    <3>1. nHeight[b] \in Nat /\ nHeight[b] <= nHeight[b]
      BY Parent
    <3>2. Upto(At(nHeight[b]), nHeight[b])
      BY <1>5, <3>1, Zenon
    <3> HIDE DEF Body
    <3> QED BY <3>1, <3>2, Zenon
  <2>2. CASE b = Genesis
    BY <2>1, <2>2, Zenon
  <2>3. CASE b # Genesis
    <3>1. /\ pprev[b] \in Block /\ nHeight[b] \in Nat /\ nHeight[pprev[b]] \in Nat
          /\ nHeight[pprev[b]] <= nHeight[b] /\ nHeight[pprev[b]] <= nHeight[pprev[b]]
      BY <2>3, Parent
    <3>2. At(nHeight[b])[pprev[b]] = At(nHeight[pprev[b]])[pprev[b]]
      <4>1. At(nHeight[b]) \in [Block -> S] /\ Upto(At(nHeight[b]), nHeight[b])
        <5> HIDE DEF Upto, At
        <5> QED BY <1>5, <3>1, Zenon
      <4>2. At(nHeight[pprev[b]]) \in [Block -> S] /\ Upto(At(nHeight[pprev[b]]), nHeight[pprev[b]])
        <5> HIDE DEF Upto, At
        <5> QED BY <1>5, <3>1, Zenon
      <4> HIDE DEF Upto, At
      <4> QED BY <1>4, <3>1, <4>1, <4>2, Zenon
    <3>3. F[pprev[b]] = At(nHeight[b])[pprev[b]]
      BY <3>1, <3>2, Zenon
    <3> HIDE DEF F
    <3> QED BY <2>1, <2>3, <3>3, Zenon
  <2> QED BY <2>2, <2>3, Zenon
<1> HIDE DEF F
<1> QED BY <1>6, <1>7, Zenon

\* Ancestors is what its definition says.
LEMMA AncestorsDef ==
  /\ Ancestors \in [Block -> SUBSET Block]
  /\ \A b \in Block : Ancestors[b] = IF b = Genesis THEN {Genesis} ELSE {b} \union Ancestors[pprev[b]]
<1> DEFINE Is(f) == f = [b \in Block |-> IF b = Genesis THEN {Genesis} ELSE {b} \union f[pprev[b]]]
           G == [b \in Block |-> [a \in SUBSET Block |-> {b} \union a]]
<1>1. {Genesis} \in SUBSET Block /\ G \in [Block -> [SUBSET Block -> SUBSET Block]]
  BY CoinsFlushAssumption, Zenon DEF CoinsFlushAssumption
<1>2. PICK f \in [Block -> SUBSET Block] :
        \A b \in Block : f[b] = IF b = Genesis THEN {Genesis} ELSE G[b][f[pprev[b]]]
  <2> DEFINE S == SUBSET Block
             base == {Genesis}
  <2>1. base \in S /\ G \in [Block -> [S -> S]]
    BY <1>1, Zenon
  <2> HIDE DEF G, S, base
  <2>2. \E f \in [Block -> S] : \A b \in Block : f[b] = IF b = Genesis THEN base ELSE G[b][f[pprev[b]]]
    BY <2>1, BlockRecursion
  <2> QED BY <2>2, Zenon DEF S, base
<1>3. ASSUME NEW b \in Block
      PROVE  f[b] = IF b = Genesis THEN {Genesis} ELSE {b} \union f[pprev[b]]
  BY <1>2, Parent, Zenon
<1>4. Is(f)
  BY <1>2, <1>3, Zenon
<1>5. Is(Ancestors)
  <2>1. Ancestors = CHOOSE h : Is(h)
    BY Zenon DEF Ancestors
  <2> HIDE DEF Is
  <2> QED BY <1>4, <2>1, Zenon
<1>6. \A b \in Block : Ancestors[b] = IF b = Genesis THEN {Genesis} ELSE {b} \union Ancestors[pprev[b]]
  <2> QED BY <1>5, Zenon
<1> DEFINE Bad == {b \in Block : ~(Ancestors[b] \in SUBSET Block)}
<1>7. ASSUME Bad # {} PROVE FALSE
  <2>1. PICK b \in Bad : \A c \in Bad : nHeight[b] <= nHeight[c]
    <3>1. Bad \subseteq Block
      BY Zenon
    <3> HIDE DEF Bad
    <3> QED BY <1>7, <3>1, LowestBlock, Zenon
  <2>2. b # Genesis
    BY <1>1, <1>6, <2>1, Zenon
  <2>3. pprev[b] \in Block /\ ~(nHeight[b] <= nHeight[pprev[b]])
    BY <2>1, <2>2, Parent
  <2>4. Ancestors[pprev[b]] \in SUBSET Block
    BY <2>1, <2>3, Zenon
  <2> QED BY <1>6, <2>1, <2>2, <2>4, Zenon
<1>8. Ancestors = [b \in Block |-> Ancestors[b]]
  <2> QED BY <1>5, Zenon
<1>9. Ancestors \in [Block -> SUBSET Block]
  <2> QED BY <1>7, <1>8, Zenon
<1> QED BY <1>6, <1>9, Zenon

\* Utxo is what its definition says.
LEMMA UtxoDef ==
  /\ Utxo \in [Block -> [Outpoint -> Nat]]
  /\ Utxo[Genesis] = NoCoins
  /\ \A b \in Block \ {Genesis} : \A o \in Outpoint :
       Utxo[b][o] = IF vtx[b][o].spent THEN NoCoin
                    ELSE IF vtx[b][o].made # "no" THEN nHeight[b] ELSE Utxo[pprev[b]][o]
<1> DEFINE Coins == [Outpoint -> Nat]
           After(b, u) == [o \in Outpoint |-> IF vtx[b][o].spent THEN NoCoin
                                              ELSE IF vtx[b][o].made # "no" THEN nHeight[b]
                                              ELSE u[o]]
           Is(f) == f = [b \in Block |-> IF b = Genesis THEN NoCoins ELSE After(b, f[pprev[b]])]
           G == [b \in Block |-> [u \in Coins |-> After(b, u)]]
<1>1. NoCoins \in Coins
  BY Zenon DEF NoCoins, NoCoin
<1>2. ASSUME NEW b \in Block, NEW u \in Coins PROVE After(b, u) \in Coins
  BY Parent, Zenon DEF NoCoin
<1>3. G \in [Block -> [Coins -> Coins]]
  <2> HIDE DEF Coins, After
  <2> QED BY <1>2, Zenon
<1>4. PICK f \in [Block -> Coins] :
        \A b \in Block : f[b] = IF b = Genesis THEN NoCoins ELSE G[b][f[pprev[b]]]
  <2> DEFINE base == NoCoins
  <2>1. base \in Coins
    BY <1>1, Zenon
  <2> HIDE DEF G, Coins, base
  <2>2. \E f \in [Block -> Coins] :
          \A b \in Block : f[b] = IF b = Genesis THEN base ELSE G[b][f[pprev[b]]]
    BY <1>3, <2>1, BlockRecursion
  <2> QED BY <2>2, Zenon DEF base
<1>5. ASSUME NEW b \in Block
      PROVE  f[b] = IF b = Genesis THEN NoCoins ELSE After(b, f[pprev[b]])
  <2> HIDE DEF Coins, After
  <2> QED BY <1>4, Parent, Zenon
<1>6. Is(f)
  <2> HIDE DEF Coins, After
  <2> QED BY <1>4, <1>5, Zenon
<1>7. Is(Utxo)
  <2>1. Utxo = CHOOSE h : Is(h)
    BY Zenon DEF Utxo
  <2> HIDE DEF Is
  <2> QED BY <1>6, <2>1, Zenon
<1>8. \A b \in Block : Utxo[b] = IF b = Genesis THEN NoCoins ELSE After(b, Utxo[pprev[b]])
  <2> HIDE DEF After
  <2> QED BY <1>7, Zenon
<1> DEFINE Bad == {b \in Block : ~(Utxo[b] \in Coins)}
<1>9. ASSUME Bad # {} PROVE FALSE
  <2> HIDE DEF After, Coins
  <2>1. PICK b \in Bad : \A c \in Bad : nHeight[b] <= nHeight[c]
    <3>1. Bad \subseteq Block
      BY Zenon
    <3> HIDE DEF Bad
    <3> QED BY <1>9, <3>1, LowestBlock, Zenon
  <2>2. b # Genesis
    BY <1>1, <1>8, <2>1, Zenon
  <2>3. pprev[b] \in Block /\ ~(nHeight[b] <= nHeight[pprev[b]])
    BY <2>1, <2>2, Parent
  <2>4. Utxo[pprev[b]] \in Coins
    BY <2>1, <2>3, Zenon
  <2> QED BY <1>2, <1>8, <2>1, <2>2, <2>4, Zenon
<1>10. Utxo = [b \in Block |-> Utxo[b]]
  <2> HIDE DEF After
  <2> QED BY <1>7, Zenon
<1>11. Utxo \in [Block -> Coins]
  <2> HIDE DEF Coins
  <2> QED BY <1>9, <1>10, Zenon
<1>12. Utxo[Genesis] = NoCoins
  <2>1. Genesis \in Block
    BY CoinsFlushAssumption, Zenon DEF CoinsFlushAssumption
  <2> HIDE DEF After
  <2> QED BY <1>8, <2>1, Zenon
<1>13. ASSUME NEW b \in Block \ {Genesis}, NEW o \in Outpoint
       PROVE  Utxo[b][o] = IF vtx[b][o].spent THEN NoCoin
                           ELSE IF vtx[b][o].made # "no" THEN nHeight[b] ELSE Utxo[pprev[b]][o]
  <2>1. Utxo[b] = After(b, Utxo[pprev[b]])
    <3> HIDE DEF After
    <3> QED BY <1>8, Zenon
  <2> QED BY <2>1, Zenon
<1> QED BY <1>11, <1>12, <1>13, Zenon

\* UtxoAt is a map of coins, empty at first.
LEMMA UtxoAtType ==
  ASSUME NEW b \in Block \union {Null}
  PROVE  /\ UtxoAt(b) \in [Outpoint -> Nat]
         /\ b \in Block => UtxoAt(b) = Utxo[b]
         /\ UtxoAt(Genesis) = UtxoAt(Null)
<1>1. Genesis \in Block /\ Null \notin Block
  BY CoinsFlushAssumption, Zenon DEF CoinsFlushAssumption
<1> QED BY <1>1, UtxoDef, Zenon DEF UtxoAt, NoCoins, NoCoin

\* An ancestor is a block of no greater height; Genesis and the block itself are
\* ancestors, and so is the parent of every other one.
LEMMA AncestorFacts ==
  ASSUME NEW b \in Block
  PROVE  /\ Ancestors[b] \subseteq Block
         /\ Genesis \in Ancestors[b] /\ b \in Ancestors[b]
         /\ \A a \in Ancestors[b] : nHeight[a] <= nHeight[b] /\ (nHeight[a] = nHeight[b] => a = b)
         /\ \A a \in Ancestors[b] \ {Genesis} : pprev[a] \in Ancestors[b]
<1> DEFINE P(c) == /\ Genesis \in Ancestors[c] /\ c \in Ancestors[c]
                   /\ \A a \in Ancestors[c] : nHeight[a] <= nHeight[c] /\ (nHeight[a] = nHeight[c] => a = c)
                   /\ \A a \in Ancestors[c] \ {Genesis} : pprev[a] \in Ancestors[c]
           Bad == {c \in Block : ~P(c)}
<1>1. ASSUME NEW c \in Block, c # Genesis => P(pprev[c]) PROVE P(c)
  <2>1. CASE c = Genesis
    <3>1. Ancestors[c] = {c}
      BY <2>1, AncestorsDef, Zenon
    <3> QED BY <2>1, <3>1, Parent
  <2>2. CASE c # Genesis
    <3>1. Ancestors[c] = {c} \union Ancestors[pprev[c]]
      BY <2>2, AncestorsDef, Zenon
    <3>2. /\ pprev[c] \in Block /\ nHeight[c] = nHeight[pprev[c]] + 1
          /\ nHeight[c] \in Nat /\ nHeight[pprev[c]] \in Nat
      BY <2>2, Parent, Zenon
    <3>3. P(pprev[c])
      BY <1>1, <2>2, Zenon
    <3>4. \A a \in Ancestors[pprev[c]] : nHeight[a] \in Nat
      BY <3>2, AncestorsDef, Parent, Zenon
    <3>5. \A a \in Ancestors[c] : nHeight[a] <= nHeight[c] /\ (nHeight[a] = nHeight[c] => a = c)
      BY <3>1, <3>2, <3>3, <3>4
    <3>6. \A a \in Ancestors[c] \ {Genesis} : pprev[a] \in Ancestors[c]
      BY <3>1, <3>3, Zenon
    <3> QED BY <3>1, <3>3, <3>5, <3>6, Zenon
  <2> QED BY <2>1, <2>2, Zenon
<1>2. SUFFICES ASSUME Bad # {} PROVE FALSE
  <2> HIDE DEF P
  <2>1. Bad = {} => P(b)
    BY Zenon
  <2>2. Ancestors[b] \subseteq Block
    BY AncestorsDef, Zenon
  <2> QED BY <2>1, <2>2, Zenon DEF P
<1> HIDE DEF P
<1>3. PICK c \in Bad : \A d \in Bad : nHeight[c] <= nHeight[d]
  <2>1. Bad \subseteq Block
    BY Zenon
  <2> HIDE DEF Bad
  <2> QED BY <1>2, <2>1, LowestBlock, Zenon
<1>4. c \in Block /\ ~P(c)
  BY <1>3, Zenon
<1>5. ASSUME c # Genesis PROVE P(pprev[c])
  <2>1. pprev[c] \in Block /\ ~(nHeight[c] <= nHeight[pprev[c]])
    BY <1>4, <1>5, Parent
  <2> QED BY <1>3, <2>1, Zenon
<1> QED BY <1>1, <1>4, <1>5, Zenon

\* A block has one ancestor at every height up to its own.
LEMMA OneAncestor ==
  ASSUME NEW b \in Block, NEW h \in Nat, h <= nHeight[b]
  PROVE  \E a \in Ancestors[b] :
           /\ nHeight[a] = h
           /\ \A c \in Ancestors[b] : nHeight[c] = h => c = a
<1> DEFINE P(x) == \E a \in Ancestors[x] :
                     /\ nHeight[a] = h
                     /\ \A c \in Ancestors[x] : nHeight[c] = h => c = a
           Bad == {x \in Block : h <= nHeight[x] /\ ~P(x)}
<1>1. ASSUME NEW x \in Block, nHeight[x] = h PROVE P(x)
  BY <1>1, AncestorFacts, Zenon
<1>2. ASSUME NEW x \in Block, x # Genesis, h < nHeight[x], P(pprev[x]) PROVE P(x)
  <2>1. Ancestors[x] = {x} \union Ancestors[pprev[x]]
    BY <1>2, AncestorsDef, Zenon
  <2>2. nHeight[x] # h
    BY <1>2, Parent
  <2> QED BY <1>2, <2>1, <2>2, Zenon
<1>3. SUFFICES ASSUME Bad # {} PROVE FALSE
  BY Zenon
<1> HIDE DEF P
<1>4. PICK x \in Bad : \A y \in Bad : nHeight[x] <= nHeight[y]
  <2>1. Bad \subseteq Block
    BY Zenon
  <2> HIDE DEF Bad
  <2> QED BY <1>3, <2>1, LowestBlock, Zenon
<1>5. x \in Block /\ h <= nHeight[x] /\ ~P(x)
  BY <1>4, Zenon
<1>6. h < nHeight[x]
  <2>1. nHeight[x] \in Nat /\ nHeight[x] # h
    BY <1>1, <1>5, Parent, Zenon
  <2> QED BY <1>5, <2>1
<1>7. /\ x # Genesis /\ pprev[x] \in Block /\ h <= nHeight[pprev[x]]
      /\ ~(nHeight[x] <= nHeight[pprev[x]])
  BY <1>5, <1>6, Parent
<1>8. P(pprev[x])
  BY <1>4, <1>7, Zenon
<1> QED BY <1>2, <1>5, <1>6, <1>7, <1>8, Zenon

\* GetAncestor one above an ancestor is the next block of the branch.
LEMMA NextAncestor ==
  ASSUME NEW b \in Block, NEW c \in Ancestors[b], nHeight[c] < nHeight[b],
         NEW n, n = GetAncestor(b, nHeight[c] + 1)
  PROVE  n \in Ancestors[b] \ {Genesis} /\ pprev[n] = c
<1>1. c \in Block /\ nHeight[b] \in Nat /\ nHeight[c] \in Nat
  BY AncestorFacts, Parent, Zenon
<1>2. nHeight[c] + 1 \in Nat /\ nHeight[c] + 1 <= nHeight[b]
  BY <1>1
<1>3. n \in Ancestors[b] /\ nHeight[n] = nHeight[c] + 1
  <2>1. \E a \in Ancestors[b] : nHeight[a] = nHeight[c] + 1
    BY <1>2, OneAncestor, Zenon
  <2> QED BY <2>1, Zenon DEF GetAncestor
<1>4. n \in Block /\ n # Genesis
  BY <1>1, <1>3, AncestorFacts, Parent
<1>5. pprev[n] \in Ancestors[b] /\ nHeight[pprev[n]] = nHeight[c]
  BY <1>1, <1>3, <1>4, AncestorFacts, Parent
<1>6. PICK a \in Ancestors[b] : \A x \in Ancestors[b] : nHeight[x] = nHeight[c] => x = a
  <2>1. nHeight[c] <= nHeight[b]
    BY <1>1
  <2> QED BY <1>1, <2>1, OneAncestor, Zenon
<1> QED BY <1>3, <1>4, <1>5, <1>6, Zenon

\* Two blocks have a last common ancestor.
LEMMA LastCommonAncestorFacts ==
  ASSUME NEW a \in Block, NEW b \in Block
  PROVE  LastCommonAncestor(a, b) \in Ancestors[a] \cap Ancestors[b]
<1> DEFINE Common == Ancestors[a] \cap Ancestors[b]
           T == {nHeight[a] - nHeight[c] : c \in Common}
<1>1. Common \subseteq Block /\ Genesis \in Common
  BY AncestorFacts, Zenon
<1>2. \A c \in Common : nHeight[c] \in Nat /\ nHeight[a] - nHeight[c] \in Nat
  <2> TAKE c \in Common
  <2>1. c \in Block /\ nHeight[c] <= nHeight[a]
    BY AncestorFacts, Zenon
  <2> QED BY <2>1, Parent
<1>3. PICK x \in T : \A y \in T : x <= y
  <2>1. T \subseteq Nat /\ T # {}
    BY <1>1, <1>2, Zenon
  <2> HIDE DEF T
  <2> QED BY <2>1, LeastNumber, Zenon
<1>4. PICK c \in Common : x = nHeight[a] - nHeight[c]
  BY <1>3, Zenon
<1>5. \A d \in Common : nHeight[d] <= nHeight[c]
  <2> TAKE d \in Common
  <2>1. nHeight[a] - nHeight[c] <= nHeight[a] - nHeight[d]
    BY <1>3, <1>4, Zenon
  <2>2. nHeight[a] \in Nat /\ nHeight[c] \in Nat /\ nHeight[d] \in Nat
    BY <1>2, Parent, Zenon
  <2> QED BY <2>1, <2>2
<1> QED BY <1>5, Zenon DEF LastCommonAncestor

-----------------------------------------------------------------------------
(* The states of the coins database.                                       *)

\* The sequence that a batch leaves ends with it, and has nothing else new.
LEMMA WriteBatchFacts ==
  ASSUME dbs \in Seq(Database), Len(dbs) \in 1 .. (MaxLost + 1), NEW d \in Database, WriteBatch(d)
  PROVE  /\ dbs' \in Seq(Database) /\ Len(dbs') \in 1 .. (MaxLost + 1)
         /\ db' = d
         /\ \A i \in 1 .. Len(dbs') : dbs'[i] = d \/ \E j \in 1 .. Len(dbs) : dbs'[i] = dbs[j]
<1> DEFINE all == Append(dbs, d)
           from == IF Len(all) > MaxLost + 1 THEN Len(all) - MaxLost ELSE 1
<1>1. MaxLost \in Nat
  BY CoinsFlushAssumption, Zenon DEF CoinsFlushAssumption
<1>2. /\ all \in Seq(Database) /\ Len(all) = Len(dbs) + 1 /\ all[Len(dbs) + 1] = d
      /\ \A i \in 1 .. Len(dbs) : all[i] = dbs[i]
  OBVIOUS
<1>3. from \in 1 .. Len(all) /\ Len(all) - from + 1 \in 1 .. (MaxLost + 1)
  <2> HIDE DEF all
  <2>1. Len(dbs) \in Nat /\ 1 <= Len(dbs) /\ Len(dbs) <= MaxLost + 1
    BY <1>1
  <2>2. Len(all) = Len(dbs) + 1
    BY <1>2, Zenon
  <2>3. CASE Len(all) > MaxLost + 1
    <3>1. from = Len(all) - MaxLost
      BY <2>3, Zenon
    <3> HIDE DEF from
    <3> QED BY <1>1, <2>1, <2>2, <2>3, <3>1
  <2>4. CASE ~(Len(all) > MaxLost + 1)
    <3>1. from = 1
      BY <2>4, Zenon
    <3> HIDE DEF from
    <3> QED BY <1>1, <2>1, <2>2, <2>4, <3>1
  <2> QED BY <2>3, <2>4, Zenon
<1>4. dbs' = SubSeq(all, from, Len(all))
  BY Zenon DEF WriteBatch
<1> HIDE DEF all, from
<1>5. /\ dbs' \in Seq(Database) /\ Len(dbs') = Len(all) - from + 1
      /\ \A i \in 1 .. Len(dbs') : dbs'[i] = all[from + i - 1]
  BY <1>2, <1>3, <1>4
<1>6. db' = d
  BY <1>2, <1>3, <1>5 DEF db
<1>7. ASSUME NEW i \in 1 .. Len(dbs') PROVE dbs'[i] = d \/ \E j \in 1 .. Len(dbs) : dbs'[i] = dbs[j]
  <2>1. from + i - 1 \in 1 .. (Len(dbs) + 1)
    BY <1>2, <1>3, <1>5
  <2>2. dbs'[i] = all[from + i - 1]
    BY <1>5, Zenon
  <2>3. CASE from + i - 1 = Len(dbs) + 1
    BY <1>2, <2>2, <2>3, Zenon
  <2>4. CASE from + i - 1 # Len(dbs) + 1
    <3>1. from + i - 1 \in 1 .. Len(dbs)
      BY <2>1, <2>4
    <3> QED BY <1>2, <2>2, <3>1, Zenon
  <2> QED BY <2>3, <2>4, Zenon
<1> QED BY <1>3, <1>5, <1>6, <1>7, Zenon

\* A crash leaves a beginning of the sequence.
LEMMA LostBatchFacts ==
  ASSUME dbs \in Seq(Database), NEW n \in 1 .. Len(dbs), dbs' = SubSeq(dbs, 1, n)
  PROVE  /\ dbs' \in Seq(Database) /\ Len(dbs') = n
         /\ db' = dbs[n]
         /\ \A i \in 1 .. n : dbs'[i] = dbs[i]
<1>1. /\ dbs' \in Seq(Database) /\ Len(dbs') = n
      /\ \A i \in 1 .. n : dbs'[i] = dbs[i]
  OBVIOUS
<1> QED BY <1>1 DEF db

-----------------------------------------------------------------------------
(* The inductive invariant.                                                *)

\* The index has the undo data of a block and of all its ancestors.
Solid(index, b) ==
  /\ index[Genesis] # "none"
  /\ b # Null => \A a \in Ancestors[b] \ {Genesis} : index[a] = "undo"

\* One index knows at least what another does.
Covers(index, older) ==
  \A b \in Block : /\ older[b] # "none" => index[b] # "none"
                   /\ older[b] = "undo" => index[b] = "undo"

\* The undo data that an index knows of holds what the parent of the block had.
UndoRight(index, files) ==
  \A b \in Block \ {Genesis} : index[b] = "undo" => \A o \in Outpoint :
    files[b][o] = UndoCoin(vtx[b][o], Utxo[pprev[b]][o], nHeight[b])

\* A state of the coins database is complete, or a mixture of the coins of two tips;
\* the index on disk knows their blocks.
SoundDb(d, index) ==
  /\ d.best # Null => Solid(index, d.best)
  /\ d.heads = << >> => d.coins = UtxoAt(d.best)
  /\ d.heads # << >> =>
       /\ d.best = Null
       /\ Solid(index, d.heads[1]) /\ Solid(index, d.heads[2])
       /\ \A o \in Outpoint : d.coins[o] \in {UtxoAt(d.heads[2])[o], UtxoAt(d.heads[1])[o]}

\* A cache is sound over a database and shows the coins of a block.
Shows(entries, d, b) ==
  \A o \in Outpoint : /\ Sound(entries[o], d.coins[o])
                      /\ GetCoin(entries[o], d.coins[o]) = UtxoAt(b)[o]

\* The same in the middle of a flush: what need not be written any more is in the
\* database.
ShowsWriting(entries, d, b, rest) ==
  \A o \in Outpoint : /\ GetCoin(entries[o], d.coins[o]) = UtxoAt(b)[o]
                      /\ o \notin rest => d.coins[o] = UtxoAt(b)[o]

\* The same in ReplayBlocks at block b: a coin is the one that b left, or already
\* the one of the new tip.
ShowsRolling(entries, d, b) ==
  \A o \in Outpoint : /\ Sound(entries[o], d.coins[o])
                      /\ GetCoin(entries[o], d.coins[o]) \in {UtxoAt(b)[o], UtxoAt(d.heads[1])[o]}

\* The batches of a flush, and the loops of ReplayBlocks.
Writing == phase \in {"flush", "sync", "replay"}
Rolling == phase \in {"rollback", "rollforward"}

\* Every state that a crash may return to is sound.
DbInv == \A i \in 1 .. Len(dbs) : SoundDb(dbs[i], disk_index)

\* The undo data is right, and the index in memory covers the one on disk.
IndexInv ==
  /\ UndoRight(disk_index, undo) /\ UndoRight(m_block_index, undo)
  /\ phase # "down" => Covers(m_block_index, disk_index) /\ m_block_index[Genesis] # "none"

\* The cache of the running node shows the coins of the tip.
RunInv ==
  phase = "run" => db.heads = << >> /\ Solid(m_block_index, tip) /\ Shows(cache, db, tip)

\* A flush goes towards the tip, whose branch is in the index on disk.
WriteInv ==
  /\ Writing => /\ tip \in Block /\ Solid(disk_index, tip)
                /\ db.heads # << >> => db.heads[1] = tip
                /\ phase = "replay" => db.heads # << >>
                /\ ShowsWriting(cache, db, tip, todo)
  /\ ~Writing => todo = {}

\* pindex lies on the branch that the loop goes along.
RollInv ==
  Rolling => /\ db.heads # << >>
             /\ ShowsRolling(cache, db, pindex)
             /\ phase = "rollback" =>
                  IF pindexOld = Null THEN pindex = Null
                  ELSE pindex \in Ancestors[pindexOld] /\ nHeight[pindexFork] <= nHeight[pindex]
             /\ phase = "rollforward" => pindex \in Ancestors[pindexNew]

\* Before and after the replay the cache is empty, and after it a tip is whole.
StartInv ==
  /\ phase \in {"down", "loaded", "replayed"} => cache = EmptyCache
  /\ phase = "replayed" => db.heads = << >>

\* The inductive invariant.
IInv ==
  /\ TypeOK /\ DbInv /\ IndexInv
  /\ RunInv /\ WriteInv /\ RollInv /\ StartInv
  /\ phase # "failed"

-----------------------------------------------------------------------------
(* What the steps do to a view.                                            *)

USE DEF NoCoin

\* The fields of a state of the database.
LEMMA DatabaseFacts ==
  ASSUME NEW d \in Database
  PROVE  /\ d.coins \in [Outpoint -> Nat]
         /\ d.best \in Block \union {Null}
         /\ d.heads # << >> => d.heads[1] \in Block /\ d.heads[2] \in Block \union {Null}
BY Zenon DEF Database

\* Genesis is a block, and Null is none.
LEMMA GenesisFacts == Genesis \in Block /\ Null \notin Block
BY CoinsFlushAssumption, Zenon DEF CoinsFlushAssumption

\* What a block does to an outpoint is an effect, and its height is not that of
\* Genesis.
LEMMA BlockFacts ==
  ASSUME NEW b \in Block \ {Genesis}, NEW o \in Outpoint
  PROVE  vtx[b][o] \in Effect /\ nHeight[b] \in Nat \ {NoCoin} /\ pprev[b] \in Block
<1>1. vtx[b][o] \in Effect
  BY CoinsFlushAssumption DEF CoinsFlushAssumption
<1> QED BY <1>1, Parent, Zenon

\* Sound entries have the states that coins.h allows.
LEMMA SoundAllowed ==
  ASSUME NEW base \in Nat, NEW e, Sound(e, base)
  PROVE  e \in CacheEntry \union {Absent} /\ Allowed(e)
BY Zenon DEF Sound, Allowed

\* An index that knows more knows the branches that the older one knew.
LEMMA CoversSolid ==
  ASSUME NEW index, NEW older, Covers(index, older), NEW b \in Block \union {Null}, Solid(older, b)
  PROVE  Solid(index, b)
<1>1. index[Genesis] # "none"
  BY GenesisFacts, Zenon DEF Covers, Solid
<1>2. ASSUME b # Null, NEW a \in Ancestors[b] \ {Genesis} PROVE index[a] = "undo"
  <2>1. older[a] = "undo" /\ b \in Block
    BY <1>2, Zenon DEF Solid
  <2>2. a \in Block
    BY <2>1, AncestorFacts, Zenon
  <2> QED BY <2>1, <2>2, Zenon DEF Covers
<1> QED BY <1>1, <1>2, Zenon DEF Solid

\* The same for the blocks of the coins database.
LEMMA CoversSoundDb ==
  ASSUME NEW index, NEW older, Covers(index, older), NEW d \in Database, SoundDb(d, older)
  PROVE  SoundDb(d, index)
<1>1. /\ d.best \in Block \union {Null}
      /\ d.heads # << >> => d.heads[1] \in Block \union {Null} /\ d.heads[2] \in Block \union {Null}
  BY DatabaseFacts, Zenon
<1>2. d.best # Null => Solid(index, d.best)
  BY <1>1, CoversSolid, Zenon DEF SoundDb
<1>3. d.heads # << >> => Solid(index, d.heads[1]) /\ Solid(index, d.heads[2])
  BY <1>1, CoversSolid, Zenon DEF SoundDb
<1> QED BY <1>2, <1>3, Zenon DEF SoundDb

\* The undo data of a valid block and what it restores: a spent coin of its parent,
\* or one that the block itself made.
LEMMA UndoneCoin ==
  ASSUME NEW b \in Block \ {Genesis}, NEW o \in Outpoint,
         NEW coin, coin = UndoCoin(vtx[b][o], Utxo[pprev[b]][o], nHeight[b])
  PROVE  /\ coin \in Nat
         /\ vtx[b][o].spent => coin # NoCoin
         /\ Utxo[pprev[b]][o] = IF vtx[b][o].made # "no" THEN NoCoin
                                ELSE IF vtx[b][o].spent THEN coin ELSE Utxo[b][o]
<1>1. Utxo[pprev[b]][o] \in Nat
  BY BlockFacts, UtxoDef, Zenon
<1> QED BY <1>1, BlockFacts, UtxoDef, ValidBlocks DEF UndoCoin, ValidBlocks, Effect

\* A pass of the rollback undoes the block for every coin, in whatever state the
\* interrupted flush left it.
LEMMA RollbackShows ==
  ASSUME NEW d \in Database, d.heads # << >>, NEW entries, NEW b \in Block \ {Genesis},
         ShowsRolling(entries, d, b),
         NEW coins, \A o \in Outpoint : coins[o] = UndoCoin(vtx[b][o], Utxo[pprev[b]][o], nHeight[b]),
         NEW rolled, rolled = [o \in Outpoint |-> DisconnectBlock(entries[o], vtx[b][o], d.coins[o], coins[o])]
  PROVE  /\ \A o \in Outpoint : rolled[o] # Thrown
         /\ ShowsRolling(rolled, d, pprev[b])
<1> SUFFICES ASSUME NEW o \in Outpoint
             PROVE  /\ rolled[o] # Thrown
                    /\ Sound(rolled[o], d.coins[o])
                    /\ GetCoin(rolled[o], d.coins[o]) \in {UtxoAt(pprev[b])[o], UtxoAt(d.heads[1])[o]}
  BY Zenon DEF ShowsRolling
<1>1. d.coins[o] \in Nat /\ d.heads[1] \in Block
  BY DatabaseFacts, Zenon
<1>2. vtx[b][o] \in Effect /\ pprev[b] \in Block
  BY BlockFacts, Zenon
<1>3. /\ Sound(entries[o], d.coins[o])
      /\ GetCoin(entries[o], d.coins[o]) \in {UtxoAt(b)[o], UtxoAt(d.heads[1])[o]}
  BY Zenon DEF ShowsRolling
<1>4. /\ coins[o] \in Nat
      /\ vtx[b][o].spent => coins[o] # NoCoin
      /\ Utxo[pprev[b]][o] = IF vtx[b][o].made # "no" THEN NoCoin
                             ELSE IF vtx[b][o].spent THEN coins[o] ELSE Utxo[b][o]
  BY UndoneCoin, Zenon
<1>5. rolled[o] = DisconnectBlock(entries[o], vtx[b][o], d.coins[o], coins[o])
  BY Zenon
<1>6. /\ rolled[o] # Thrown
      /\ Sound(rolled[o], d.coins[o])
      /\ GetCoin(rolled[o], d.coins[o]) =
           IF vtx[b][o].made # "no" THEN NoCoin
           ELSE IF vtx[b][o].spent THEN coins[o] ELSE GetCoin(entries[o], d.coins[o])
  BY <1>1, <1>2, <1>3, <1>4, <1>5, DisconnectBlockSound, Zenon
<1>7. UtxoAt(b) = Utxo[b] /\ UtxoAt(pprev[b]) = Utxo[pprev[b]]
  BY <1>2, UtxoAtType, Zenon
<1> QED BY <1>3, <1>4, <1>6, <1>7, Zenon

\* A pass of the rollforward applies the block for every coin.
LEMMA RollforwardShows ==
  ASSUME NEW d \in Database, d.heads # << >>, NEW entries, NEW b \in Block \ {Genesis},
         ShowsRolling(entries, d, pprev[b]),
         NEW rolled, rolled = [o \in Outpoint |-> RollforwardBlock(entries[o], vtx[b][o], d.coins[o], nHeight[b])]
  PROVE  /\ \A o \in Outpoint : rolled[o] # Thrown
         /\ ShowsRolling(rolled, d, b)
<1> SUFFICES ASSUME NEW o \in Outpoint
             PROVE  /\ rolled[o] # Thrown
                    /\ Sound(rolled[o], d.coins[o])
                    /\ GetCoin(rolled[o], d.coins[o]) \in {UtxoAt(b)[o], UtxoAt(d.heads[1])[o]}
  BY Zenon DEF ShowsRolling
<1>1. d.coins[o] \in Nat /\ d.heads[1] \in Block
  BY DatabaseFacts, Zenon
<1>2. vtx[b][o] \in Effect /\ pprev[b] \in Block /\ nHeight[b] \in Nat \ {NoCoin}
  BY BlockFacts, Zenon
<1>3. /\ Sound(entries[o], d.coins[o])
      /\ GetCoin(entries[o], d.coins[o]) \in {UtxoAt(pprev[b])[o], UtxoAt(d.heads[1])[o]}
  BY Zenon DEF ShowsRolling
<1>4. Utxo[b][o] = IF vtx[b][o].spent THEN NoCoin
                   ELSE IF vtx[b][o].made # "no" THEN nHeight[b] ELSE Utxo[pprev[b]][o]
  BY UtxoDef, Zenon
<1>5. rolled[o] = RollforwardBlock(entries[o], vtx[b][o], d.coins[o], nHeight[b])
  BY Zenon
<1>6. /\ rolled[o] # Thrown
      /\ Sound(rolled[o], d.coins[o])
      /\ GetCoin(rolled[o], d.coins[o]) =
           IF vtx[b][o].spent THEN NoCoin
           ELSE IF vtx[b][o].made # "no" THEN nHeight[b] ELSE GetCoin(entries[o], d.coins[o])
  BY <1>1, <1>2, <1>3, <1>5, RollforwardBlockSound, Zenon
<1>7. UtxoAt(b) = Utxo[b] /\ UtxoAt(pprev[b]) = Utxo[pprev[b]]
  BY <1>2, UtxoAtType, Zenon
<1> QED BY <1>3, <1>4, <1>6, <1>7, Zenon

\* A child cache that is sound over the view of the cache is merged into it, and the
\* cache then shows what the child did.
LEMMA MergeShows ==
  ASSUME NEW d \in Database, NEW entries, NEW child, NEW a, NEW b, Shows(entries, d, a),
         \A o \in Outpoint : /\ Sound(child[o], UtxoAt(a)[o])
                             /\ GetCoin(child[o], UtxoAt(a)[o]) = UtxoAt(b)[o],
         NEW merged, merged = [o \in Outpoint |-> BatchWrite(entries[o], child[o])]
  PROVE  /\ \A o \in Outpoint : merged[o] # Thrown
         /\ Shows(merged, d, b)
<1> SUFFICES ASSUME NEW o \in Outpoint
             PROVE  /\ merged[o] # Thrown
                    /\ Sound(merged[o], d.coins[o])
                    /\ GetCoin(merged[o], d.coins[o]) = UtxoAt(b)[o]
  BY Zenon DEF Shows
<1>1. d.coins[o] \in Nat
  BY DatabaseFacts, Zenon
<1>2. Sound(entries[o], d.coins[o]) /\ GetCoin(entries[o], d.coins[o]) = UtxoAt(a)[o]
  BY Zenon DEF Shows
<1>3. merged[o] = BatchWrite(entries[o], child[o])
  BY Zenon
<1>4. Sound(child[o], GetCoin(entries[o], d.coins[o]))
  BY <1>2, Zenon
<1>5. /\ merged[o] # Thrown
      /\ Sound(merged[o], d.coins[o])
      /\ GetCoin(merged[o], d.coins[o]) = GetCoin(child[o], GetCoin(entries[o], d.coins[o]))
  BY <1>1, <1>2, <1>3, <1>4, BatchWriteSound
<1> QED BY <1>2, <1>5, Zenon

\* The child of ConnectBlock shows the block's coins.
LEMMA ConnectShows ==
  ASSUME NEW b \in Block \ {Genesis}, NEW o \in Outpoint,
         NEW child, child = ConnectBlock(vtx[b][o], UtxoAt(pprev[b])[o], nHeight[b])
  PROVE  /\ Sound(child, UtxoAt(pprev[b])[o])
         /\ GetCoin(child, UtxoAt(pprev[b])[o]) = UtxoAt(b)[o]
<1>1. vtx[b][o] \in Effect /\ pprev[b] \in Block /\ nHeight[b] \in Nat \ {NoCoin}
  BY BlockFacts, Zenon
<1>2. UtxoAt(b) = Utxo[b] /\ UtxoAt(pprev[b]) = Utxo[pprev[b]] /\ Utxo[pprev[b]][o] \in Nat
  BY <1>1, UtxoAtType, UtxoDef
<1>3. vtx[b][o].made # "no" => Utxo[pprev[b]][o] = NoCoin
  BY ValidBlocks, Zenon DEF ValidBlocks
<1>4. Utxo[b][o] = IF vtx[b][o].spent THEN NoCoin
                   ELSE IF vtx[b][o].made # "no" THEN nHeight[b] ELSE Utxo[pprev[b]][o]
  BY UtxoDef, Zenon
<1>5. /\ Sound(ConnectBlock(vtx[b][o], Utxo[pprev[b]][o], nHeight[b]), Utxo[pprev[b]][o])
      /\ GetCoin(ConnectBlock(vtx[b][o], Utxo[pprev[b]][o], nHeight[b]), Utxo[pprev[b]][o]) =
           IF vtx[b][o].spent THEN NoCoin
           ELSE IF vtx[b][o].made # "no" THEN nHeight[b] ELSE Utxo[pprev[b]][o]
  BY <1>1, <1>2, <1>3, ConnectBlockSound, Zenon
<1> QED BY <1>2, <1>4, <1>5, Zenon

\* The child of DisconnectBlock shows the parent's coins.
LEMMA DisconnectShows ==
  ASSUME NEW b \in Block \ {Genesis}, NEW o \in Outpoint,
         NEW coin, coin = UndoCoin(vtx[b][o], Utxo[pprev[b]][o], nHeight[b]),
         NEW child, child = DisconnectBlock(Absent, vtx[b][o], UtxoAt(b)[o], coin)
  PROVE  /\ Sound(child, UtxoAt(b)[o])
         /\ GetCoin(child, UtxoAt(b)[o]) = UtxoAt(pprev[b])[o]
<1>1. vtx[b][o] \in Effect /\ pprev[b] \in Block
  BY BlockFacts, Zenon
<1>2. UtxoAt(b) = Utxo[b] /\ UtxoAt(pprev[b]) = Utxo[pprev[b]] /\ Utxo[b][o] \in Nat
  BY <1>1, UtxoAtType, UtxoDef, Zenon
<1>3. /\ coin \in Nat
      /\ vtx[b][o].spent => coin # NoCoin
      /\ Utxo[pprev[b]][o] = IF vtx[b][o].made # "no" THEN NoCoin
                             ELSE IF vtx[b][o].spent THEN coin ELSE Utxo[b][o]
  BY UndoneCoin
<1>4. Sound(Absent, Utxo[b][o]) /\ GetCoin(Absent, Utxo[b][o]) = Utxo[b][o]
  BY Zenon DEF Sound, GetCoin
<1>5. /\ Sound(DisconnectBlock(Absent, vtx[b][o], Utxo[b][o], coin), Utxo[b][o])
      /\ GetCoin(DisconnectBlock(Absent, vtx[b][o], Utxo[b][o], coin), Utxo[b][o]) =
           IF vtx[b][o].made # "no" THEN NoCoin
           ELSE IF vtx[b][o].spent THEN coin ELSE GetCoin(Absent, Utxo[b][o])
  BY <1>1, <1>2, <1>3, <1>4, DisconnectBlockSound
<1> QED BY <1>2, <1>3, <1>4, <1>5, Zenon

-----------------------------------------------------------------------------
(* Every step keeps the invariant.                                         *)

\* The latest state of the database is sound.
LEMMA CurrentDb ==
  ASSUME TypeOK, DbInv
  PROVE  db \in Database /\ SoundDb(db, disk_index)
<1>1. Len(dbs) \in 1 .. Len(dbs) /\ dbs \in Seq(Database)
  BY DEF TypeOK
<1>2. db \in Database
  BY <1>1 DEF db
<1> QED BY <1>1, <1>2, Zenon DEF db, DbInv

\* A step that leaves the database alone.
LEMMA SameDb ==
  ASSUME dbs' = dbs
  PROVE  db' = db /\ (disk_index' = disk_index /\ DbInv => DbInv')
BY Zenon DEF db, DbInv

\* The parts of the invariant that are about other phases than the next one.
LEMMA InRun ==
  ASSUME phase' = "run", todo' = {}
  PROVE  WriteInv' /\ RollInv' /\ StartInv' /\ phase' # "failed"
BY Zenon DEF WriteInv, Writing, RollInv, Rolling, StartInv

\* The same where the next phase is a flush.
LEMMA InWrite ==
  ASSUME phase' \in {"flush", "sync", "replay"}
  PROVE  RunInv' /\ RollInv' /\ StartInv' /\ phase' # "failed"
BY Zenon DEF RunInv, RollInv, Rolling, StartInv

\* The same in the loops of ReplayBlocks.
LEMMA InRoll ==
  ASSUME phase' \in {"rollback", "rollforward"}, todo' = {}
  PROVE  RunInv' /\ WriteInv' /\ StartInv' /\ phase' # "failed"
BY Zenon DEF RunInv, WriteInv, Writing, StartInv

\* The same before and after them.
LEMMA InStart ==
  ASSUME phase' \in {"down", "loaded", "replayed"}, todo' = {}
  PROVE  RunInv' /\ WriteInv' /\ RollInv' /\ phase' # "failed"
BY Zenon DEF RunInv, WriteInv, Writing, RollInv, Rolling

\* A cache of sound entries has the type of a cache.
LEMMA CacheType ==
  ASSUME NEW d \in Database, NEW entries, entries = [o \in Outpoint |-> entries[o]],
         \A o \in Outpoint : Sound(entries[o], d.coins[o])
  PROVE  /\ entries \in [Outpoint -> CacheEntry \union {Absent}]
         /\ \A o \in Outpoint : Allowed(entries[o])
<1>1. ASSUME NEW o \in Outpoint PROVE entries[o] \in CacheEntry \union {Absent} /\ Allowed(entries[o])
  <2>1. d.coins[o] \in Nat
    BY DatabaseFacts, Zenon
  <2> QED BY <2>1, SoundAllowed, Zenon
<1> QED BY <1>1, Zenon

\* At the start nothing is connected and the database is empty.
LEMMA InitIInv == Init => IInv
<1> SUFFICES ASSUME Init PROVE IInv
  BY Zenon
<1>1. NoCoins \in [Outpoint -> Nat] /\ UtxoAt(Null) = NoCoins
  BY Zenon DEF NoCoins, UtxoAt
<1>2. /\ dbs \in Seq(Database) /\ Len(dbs) = 1
      /\ dbs[1].coins = NoCoins /\ dbs[1].best = Null /\ dbs[1].heads = << >>
  BY <1>1 DEF Init, Database
<1>3. TypeOK
  <2>1. dbs \in Seq(Database) /\ Len(dbs) \in 1 .. (MaxLost + 1)
    BY <1>2, CoinsFlushAssumption DEF CoinsFlushAssumption
  <2>2. 0 \in 0 .. MaxFlushes /\ 0 \in 0 .. MaxCrashes
    BY CoinsFlushAssumption DEF CoinsFlushAssumption
  <2> QED BY <1>1, <2>1, <2>2, Zenon DEF Init, TypeOK, Phase, Knowledge, EmptyCache, Allowed
<1>4. DbInv
  BY <1>1, <1>2 DEF DbInv, SoundDb
<1>5. IndexInv
  BY Zenon DEF Init, IndexInv, UndoRight
<1> QED
  BY <1>3, <1>4, <1>5, Zenon DEF IInv, Init, RunInv, WriteInv, Writing, RollInv, Rolling, StartInv

\* AcceptBlock adds a block that no branch of the tip contains.
LEMMA AcceptBlockIInv ==
  ASSUME IInv, NEW b \in Block \ {Genesis}, AcceptBlock(b)
  PROVE  IInv'
<1>1. TypeOK'
  BY Zenon DEF IInv, TypeOK, AcceptBlock, Knowledge
<1>2. DbInv' /\ db' = db
  BY SameDb, Zenon DEF IInv, AcceptBlock
<1>3. m_block_index \in [Block -> Knowledge] /\ tip \in Block \union {Null}
  BY Zenon DEF IInv, TypeOK
<1>4. IndexInv'
  BY <1>3, GenesisFacts, Zenon DEF IInv, IndexInv, AcceptBlock, UndoRight, Covers
<1>5. RunInv'
  <2>1. Solid(m_block_index, tip) /\ db.heads = << >> /\ Shows(cache, db, tip)
    BY Zenon DEF IInv, RunInv, AcceptBlock
  <2>2. Solid(m_block_index, tip)'
    BY <1>3, <2>1, AncestorFacts, GenesisFacts, Zenon DEF Solid, AcceptBlock
  <2> QED BY <1>2, <2>1, <2>2, Zenon DEF RunInv, AcceptBlock
<1>6. phase' = "run" /\ todo' = {}
  BY Zenon DEF IInv, WriteInv, Writing, AcceptBlock
<1> QED BY <1>1, <1>2, <1>4, <1>5, <1>6, InRun, Zenon DEF IInv

\* A step of the running node that leaves the disk alone.
LEMMA RunningIInv ==
  ASSUME IInv, phase = "run", phase' = "run", tip' \in Block \union {Null},
         cache' \in [Outpoint -> CacheEntry \union {Absent}],
         \A o \in Outpoint : Allowed(cache'[o]),
         Shows(cache', db, tip'),
         Covers(m_block_index', m_block_index), m_block_index' \in [Block -> Knowledge],
         Solid(m_block_index', tip'),
         undo' \in [Block -> [Outpoint -> Nat]],
         UndoRight(m_block_index', undo'), UndoRight(disk_index, undo'),
         UNCHANGED << pindex, todo, disk_index, dbs, flushes, crashes >>
  PROVE  IInv'
<1>1. todo = {} /\ todo' = {}
  BY Zenon DEF IInv, WriteInv, Writing
<1>2. TypeOK'
  BY <1>1, Zenon DEF IInv, TypeOK, Phase
<1>3. DbInv' /\ db' = db
  BY SameDb, Zenon DEF IInv
<1>4. IndexInv'
  BY Zenon DEF IInv, IndexInv, Covers, Solid
<1>5. RunInv'
  BY <1>3, Zenon DEF IInv, RunInv
<1> QED BY <1>1, <1>2, <1>3, <1>4, <1>5, InRun, Zenon DEF IInv

\* The merge of a child cache that shows block b over the tip never fails.
LEMMA FlushedShows ==
  ASSUME IInv, phase = "run", NEW child, NEW b \in Block \union {Null},
         \A o \in Outpoint : /\ Sound(child[o], UtxoAt(tip)[o])
                             /\ GetCoin(child[o], UtxoAt(tip)[o]) = UtxoAt(b)[o],
         Flushed(child, b)
  PROVE  /\ phase' = "run" /\ tip' = b
         /\ Shows(cache', db, b)
         /\ cache' \in [Outpoint -> CacheEntry \union {Absent}]
         /\ \A o \in Outpoint : Allowed(cache'[o])
<1> DEFINE merged == [o \in Outpoint |-> BatchWrite(cache[o], child[o])]
<1>1. db \in Database /\ Shows(cache, db, tip)
  BY CurrentDb, Zenon DEF IInv, RunInv
<1>2. (\A o \in Outpoint : merged[o] # Thrown) /\ Shows(merged, db, b)
  <2> HIDE DEF merged
  <2>1. merged = [o \in Outpoint |-> BatchWrite(cache[o], child[o])]
    BY Zenon DEF merged
  <2> QED BY <1>1, <2>1, MergeShows
<1>3. phase' = "run" /\ tip' = b /\ cache' = merged
  BY <1>2, Zenon DEF Flushed
<1>4. Shows(cache', db, b) /\ cache' = [o \in Outpoint |-> cache'[o]]
  BY <1>2, <1>3, Zenon
<1>5. \A o \in Outpoint : Sound(cache'[o], db.coins[o])
  BY <1>4, Zenon DEF Shows
<1> QED BY <1>1, <1>3, <1>4, <1>5, CacheType, Zenon

\* A block on top of the tip is connected, and its undo data written.
LEMMA ConnectTipIInv ==
  ASSUME IInv, NEW b \in Block, ConnectTip(b)
  PROVE  IInv' /\ phase' = "run" /\ tip' = b
<1>1. /\ phase = "run" /\ pprev[b] = tip /\ m_block_index[b] # "none"
      /\ disk_index' = disk_index /\ dbs' = dbs /\ pindex' = pindex /\ todo' = todo
      /\ flushes' = flushes /\ crashes' = crashes
  BY Zenon DEF ConnectTip
<1>2. /\ tip \in Block \union {Null} /\ m_block_index \in [Block -> Knowledge]
      /\ undo \in [Block -> [Outpoint -> Nat]]
  BY Zenon DEF IInv, TypeOK
<1>3. /\ db.heads = << >> /\ Solid(m_block_index, tip)
      /\ \A o \in Outpoint : InView(o) = UtxoAt(tip)[o]
  BY <1>1, Zenon DEF IInv, RunInv, Shows, InView
<1>4. CASE b = Genesis
  <2>1. Flushed(EmptyCache, b) /\ m_block_index' = m_block_index /\ undo' = undo
    BY <1>4, Zenon DEF ConnectTip
  <2>2. tip = Null /\ UtxoAt(b) = UtxoAt(tip)
    BY <1>1, <1>4, UtxoAtType, CoinsFlushAssumption, Zenon DEF CoinsFlushAssumption
  <2>3. \A o \in Outpoint : /\ Sound(EmptyCache[o], UtxoAt(tip)[o])
                            /\ GetCoin(EmptyCache[o], UtxoAt(tip)[o]) = UtxoAt(b)[o]
    BY <2>2, Zenon DEF Sound, GetCoin, EmptyCache
  <2>4. /\ phase' = "run" /\ tip' = b
        /\ Shows(cache', db, b)
        /\ cache' \in [Outpoint -> CacheEntry \union {Absent}]
        /\ \A o \in Outpoint : Allowed(cache'[o])
    BY <1>1, <2>1, <2>3, FlushedShows, Zenon
  <2>5. Solid(m_block_index', b)
    BY <1>3, <1>4, <2>1, AncestorsDef, Zenon DEF Solid
  <2>6. Covers(m_block_index', m_block_index) /\ UndoRight(m_block_index', undo') /\ UndoRight(disk_index, undo')
    BY <2>1, Zenon DEF IInv, IndexInv, Covers
  <2> QED BY <1>1, <1>2, <2>1, <2>4, <2>5, <2>6, RunningIInv, Zenon
<1>5. CASE b # Genesis
  <2> DEFINE child == [o \in Outpoint |-> ConnectBlock(vtx[b][o], InView(o), nHeight[b])]
  <2>1. /\ Flushed(child, b)
        /\ m_block_index' = [m_block_index EXCEPT ![b] = "undo"]
        /\ undo' = IF m_block_index[b] = "undo" THEN undo
                   ELSE [undo EXCEPT ![b] =
                           [o \in Outpoint |-> UndoCoin(vtx[b][o], InView(o), nHeight[b])]]
    BY <1>5, Zenon DEF ConnectTip
  <2>2. \A o \in Outpoint : /\ Sound(child[o], UtxoAt(tip)[o])
                            /\ GetCoin(child[o], UtxoAt(tip)[o]) = UtxoAt(b)[o]
    <3> TAKE o \in Outpoint
    <3>1. child[o] = ConnectBlock(vtx[b][o], UtxoAt(pprev[b])[o], nHeight[b])
      BY <1>1, <1>3, Zenon
    <3> HIDE DEF child
    <3> QED BY <1>1, <1>5, <3>1, ConnectShows, Zenon
  <2> HIDE DEF child
  <2>4. /\ phase' = "run" /\ tip' = b
        /\ Shows(cache', db, b)
        /\ cache' \in [Outpoint -> CacheEntry \union {Absent}]
        /\ \A o \in Outpoint : Allowed(cache'[o])
    BY <1>1, <2>1, <2>2, FlushedShows, Zenon
  <2>5. tip \in Block
    BY <1>1, <1>5, Parent, Zenon
  <2>6. Solid(m_block_index', b)
    BY <1>1, <1>2, <1>3, <1>5, <2>1, <2>5, AncestorsDef, GenesisFacts, Zenon DEF Solid
  <2>7. /\ m_block_index' \in [Block -> Knowledge]
        /\ Covers(m_block_index', m_block_index)
    BY <1>2, <2>1, Zenon DEF Covers, Knowledge
  <2>8. \A o \in Outpoint : UndoCoin(vtx[b][o], InView(o), nHeight[b]) =
                              UndoCoin(vtx[b][o], Utxo[pprev[b]][o], nHeight[b])
    BY <1>1, <1>3, <2>5, UtxoAtType, Zenon
  <2>9. undo' \in [Block -> [Outpoint -> Nat]]
    <3>1. \A o \in Outpoint : UndoCoin(vtx[b][o], InView(o), nHeight[b]) \in Nat
      BY <1>5, <2>8, UndoneCoin, Zenon
    <3> QED BY <1>2, <2>1, <3>1, Zenon
  <2>10. UndoRight(m_block_index', undo') /\ UndoRight(disk_index, undo')
    <3> SUFFICES ASSUME NEW c \in Block \ {Genesis}, NEW o \in Outpoint,
                        m_block_index'[c] = "undo" \/ disk_index[c] = "undo"
                 PROVE  undo'[c][o] = UndoCoin(vtx[c][o], Utxo[pprev[c]][o], nHeight[c])
      BY Zenon DEF UndoRight
    <3>1. Covers(m_block_index, disk_index) /\ UndoRight(m_block_index, undo)
      BY <1>1, Zenon DEF IInv, IndexInv
    <3>2. CASE c = b /\ m_block_index[b] # "undo"
      BY <1>2, <2>1, <2>8, <3>2, Zenon
    <3>3. CASE c # b \/ m_block_index[b] = "undo"
      <4>1. m_block_index[c] = "undo" /\ undo'[c] = undo[c]
        BY <1>2, <2>1, <3>1, <3>3, Zenon DEF Covers
      <4> QED BY <3>1, <4>1, Zenon DEF UndoRight
    <3> QED BY <3>2, <3>3, Zenon
  <2> QED BY <1>1, <1>2, <2>4, <2>6, <2>7, <2>9, <2>10, RunningIInv, Zenon
<1> QED BY <1>4, <1>5, Zenon

\* The tip is disconnected: its undo data is there, and the view is as it left it.
LEMMA DisconnectTipIInv ==
  ASSUME IInv, DisconnectTip
  PROVE  IInv' /\ phase' = "run" /\ tip \in Block \ {Genesis} /\ tip' = pprev[tip]
<1> DEFINE child == [o \in Outpoint |-> DisconnectBlock(Absent, vtx[tip][o], InView(o), undo[tip][o])]
<1>1. /\ phase = "run" /\ tip \notin {Null, Genesis}
      /\ UNCHANGED << pindex, todo, m_block_index, disk_index, undo, dbs, flushes, crashes >>
  BY Zenon DEF DisconnectTip
<1>2. /\ tip \in Block \ {Genesis} /\ m_block_index \in [Block -> Knowledge]
      /\ undo \in [Block -> [Outpoint -> Nat]]
  BY <1>1, Zenon DEF IInv, TypeOK
<1>3. /\ Solid(m_block_index, tip)
      /\ \A o \in Outpoint : InView(o) = UtxoAt(tip)[o]
  BY <1>1, Zenon DEF IInv, RunInv, Shows, InView
<1>4. m_block_index[tip] = "undo"
  BY <1>2, <1>3, AncestorFacts, GenesisFacts, Zenon DEF Solid
<1>5. CanDisconnect(tip)
  <2>1. \A o \in Outpoint : DisconnectClean(vtx[tip][o], InView(o), nHeight[tip])
    BY <1>2, <1>3, UtxoAtType, UtxoDef DEF DisconnectClean
  <2> QED BY <1>4, <2>1, Zenon DEF CanDisconnect
<1>6. Flushed(child, pprev[tip])
  BY <1>5, Zenon DEF DisconnectTip
<1>7. \A o \in Outpoint : /\ Sound(child[o], UtxoAt(tip)[o])
                          /\ GetCoin(child[o], UtxoAt(tip)[o]) = UtxoAt(pprev[tip])[o]
  <2> TAKE o \in Outpoint
  <2>1. child[o] = DisconnectBlock(Absent, vtx[tip][o], UtxoAt(tip)[o], undo[tip][o])
    BY <1>3, Zenon
  <2>2. undo[tip][o] = UndoCoin(vtx[tip][o], Utxo[pprev[tip]][o], nHeight[tip])
    BY <1>2, <1>4, Zenon DEF IInv, IndexInv, UndoRight
  <2> HIDE DEF child
  <2> QED BY <1>2, <2>1, <2>2, DisconnectShows
<1> HIDE DEF child
<1>8. pprev[tip] \in Block
  BY <1>2, Parent, Zenon
<1>9. /\ phase' = "run" /\ tip' = pprev[tip]
      /\ Shows(cache', db, pprev[tip])
      /\ cache' \in [Outpoint -> CacheEntry \union {Absent}]
      /\ \A o \in Outpoint : Allowed(cache'[o])
  BY <1>1, <1>6, <1>7, <1>8, FlushedShows, Zenon
<1>10. Solid(m_block_index, pprev[tip])
  BY <1>2, <1>3, <1>8, AncestorsDef, GenesisFacts, Zenon DEF Solid
<1>11. /\ Covers(m_block_index, m_block_index)
       /\ UndoRight(m_block_index, undo) /\ UndoRight(disk_index, undo)
  BY Zenon DEF IInv, IndexInv, Covers
<1> QED BY <1>1, <1>2, <1>8, <1>9, <1>10, <1>11, RunningIInv, Zenon

\* Fetching a coin changes nothing that the view shows.
LEMMA FetchCoinSound ==
  ASSUME NEW base \in Nat, NEW e, Sound(e, base)
  PROVE  /\ Sound(FetchCoin(e, base), base)
         /\ GetCoin(FetchCoin(e, base), base) = GetCoin(e, base)
<1>1. CASE e = Absent /\ base # NoCoin
  <2>1. FetchCoin(e, base) = Entry(base, FALSE, FALSE)
    BY <1>1, Zenon DEF FetchCoin
  <2>2. GetCoin(Entry(base, FALSE, FALSE), base) = base /\ GetCoin(e, base) = base
    BY <1>1, GetCoinCases, Zenon
  <2> QED BY <1>1, <2>1, <2>2, SoundEntries, Zenon
<1>2. CASE ~(e = Absent /\ base # NoCoin)
  BY <1>2, Zenon DEF FetchCoin
<1> QED BY <1>1, <1>2, Zenon

\* A clean entry, like a missing one, shows what is below.
LEMMA CleanShows ==
  ASSUME NEW base \in Nat, NEW e, Sound(e, base), ~(e # Absent /\ e.dirty)
  PROVE  GetCoin(e, base) = base
BY Zenon DEF Sound, GetCoin

\* What is not dirty in a sound cache is already in the database.
LEMMA CleanInDb ==
  ASSUME NEW d \in Database, NEW entries, NEW o \in Outpoint,
         Sound(entries[o], d.coins[o]), o \notin Dirty(entries)
  PROVE  GetCoin(entries[o], d.coins[o]) = d.coins[o]
<1>1. d.coins[o] \in Nat
  BY DatabaseFacts, Zenon
<1>2. ~(entries[o] # Absent /\ entries[o].dirty)
  BY Zenon DEF Dirty
<1> QED BY <1>1, <1>2, CleanShows, Zenon

\* A clean entry comes or goes.
LEMMA CacheOnlyIInv ==
  ASSUME IInv, phase = "run", NEW o \in Outpoint, NEW e,
         Sound(e, db.coins[o]), GetCoin(e, db.coins[o]) = GetCoin(cache[o], db.coins[o]),
         cache' = [cache EXCEPT ![o] = e],
         UNCHANGED << phase, tip, pindex, todo, m_block_index, disk_index, undo, dbs, flushes,
                      crashes >>
  PROVE  IInv'
<1>1. /\ db \in Database /\ Shows(cache, db, tip) /\ Solid(m_block_index, tip)
      /\ cache \in [Outpoint -> CacheEntry \union {Absent}]
  BY CurrentDb, Zenon DEF IInv, RunInv, TypeOK
<1>2. cache' = [p \in Outpoint |-> cache'[p]] /\ cache'[o] = e /\ \A p \in Outpoint \ {o} : cache'[p] = cache[p]
  BY <1>1, Zenon
<1>3. Shows(cache', db, tip)
  <2> SUFFICES ASSUME NEW p \in Outpoint
               PROVE  /\ Sound(cache'[p], db.coins[p])
                      /\ GetCoin(cache'[p], db.coins[p]) = UtxoAt(tip)[p]
    BY Zenon DEF Shows
  <2>1. Sound(cache[p], db.coins[p]) /\ GetCoin(cache[p], db.coins[p]) = UtxoAt(tip)[p]
    BY <1>1, Zenon DEF Shows
  <2> QED BY <1>2, <2>1, Zenon
<1>4. \A p \in Outpoint : Sound(cache'[p], db.coins[p])
  BY <1>3, Zenon DEF Shows
<1>5. /\ cache' \in [Outpoint -> CacheEntry \union {Absent}]
      /\ \A p \in Outpoint : Allowed(cache'[p])
  BY <1>1, <1>2, <1>4, CacheType
<1>6. /\ Covers(m_block_index, m_block_index)
      /\ UndoRight(m_block_index, undo) /\ UndoRight(disk_index, undo)
      /\ tip \in Block \union {Null} /\ m_block_index \in [Block -> Knowledge]
      /\ undo \in [Block -> [Outpoint -> Nat]]
  BY Zenon DEF IInv, IndexInv, Covers, TypeOK
<1> QED BY <1>1, <1>3, <1>5, <1>6, RunningIInv, Zenon

\* A coin is fetched.
LEMMA ReadCoinIInv ==
  ASSUME IInv, NEW o \in Outpoint, ReadCoin(o)
  PROVE  IInv'
<1>1. db \in Database /\ phase = "run" /\ Sound(cache[o], db.coins[o])
  BY CurrentDb, Zenon DEF IInv, RunInv, ReadCoin, Shows
<1>2. /\ Sound(FetchCoin(cache[o], db.coins[o]), db.coins[o])
      /\ GetCoin(FetchCoin(cache[o], db.coins[o]), db.coins[o]) = GetCoin(cache[o], db.coins[o])
  BY <1>1, FetchCoinSound, DatabaseFacts, Zenon
<1> QED BY <1>1, <1>2, CacheOnlyIInv, Zenon DEF ReadCoin

\* A clean entry is dropped: the database holds the same.
LEMMA UncacheIInv ==
  ASSUME IInv, NEW o \in Outpoint, Uncache(o)
  PROVE  IInv'
<1>1. db \in Database /\ phase = "run" /\ Sound(cache[o], db.coins[o])
  BY CurrentDb, Zenon DEF IInv, RunInv, Uncache, Shows
<1>2. db.coins[o] \in Nat
  BY <1>1, DatabaseFacts, Zenon
<1>3. GetCoin(cache[o], db.coins[o]) = db.coins[o]
  BY <1>1, <1>2, CleanShows, Zenon DEF Uncache
<1>4. Sound(Absent, db.coins[o]) /\ GetCoin(Absent, db.coins[o]) = db.coins[o]
  BY Zenon DEF Sound, GetCoin
<1> QED BY <1>1, <1>3, <1>4, CacheOnlyIInv, Zenon DEF Uncache

\* FlushStateToDisk: the index on disk now knows the branch of the tip, and what is
\* not dirty is in the database.
LEMMA FlushStateToDiskIInv ==
  ASSUME IInv, NEW empty_cache \in BOOLEAN, FlushStateToDisk(empty_cache)
  PROVE  IInv'
<1>1. /\ phase = "run" /\ disk_index' = m_block_index
      /\ UNCHANGED << tip, cache, pindex, m_block_index, undo, dbs, crashes >>
      /\ flushes < MaxFlushes /\ flushes' = flushes + 1
      /\ IF tip = Null THEN UNCHANGED << phase, todo >>
         ELSE phase' \in {"flush", "sync"} /\ todo' = Dirty(cache)
  BY Zenon DEF FlushStateToDisk, WriteBlockIndexDB
<1>2. /\ db \in Database /\ db.heads = << >> /\ Solid(m_block_index, tip) /\ Shows(cache, db, tip)
      /\ tip \in Block \union {Null}
  BY <1>1, CurrentDb, Zenon DEF IInv, RunInv, TypeOK
<1>3. Covers(m_block_index, disk_index)
  BY <1>1, Zenon DEF IInv, IndexInv
<1>4. db' = db
  BY <1>1, Zenon DEF db
<1>5. TypeOK'
  <2>1. flushes' \in 0 .. MaxFlushes
    BY <1>1, CoinsFlushAssumption DEF IInv, TypeOK, CoinsFlushAssumption
  <2>2. phase' \in Phase /\ todo' \subseteq Dirty(cache')
    BY <1>1, Zenon DEF IInv, TypeOK, Phase
  <2> QED BY <1>1, <2>1, <2>2, Zenon DEF IInv, TypeOK
<1>6. DbInv'
  <2> SUFFICES ASSUME NEW i \in 1 .. Len(dbs) PROVE SoundDb(dbs[i], m_block_index)
    BY <1>1, Zenon DEF DbInv
  <2>1. dbs[i] \in Database /\ SoundDb(dbs[i], disk_index)
    BY DEF IInv, TypeOK, DbInv
  <2> QED BY <1>3, <2>1, CoversSoundDb, Zenon
<1>7. IndexInv'
  BY <1>1, Zenon DEF IInv, IndexInv, Covers
<1>8. CASE tip = Null
  <2>1. phase' = "run" /\ todo' = {}
    BY <1>1, <1>8, Zenon DEF IInv, WriteInv, Writing
  <2>2. RunInv'
    BY <1>1, <1>2, <1>4, Zenon DEF RunInv
  <2> QED BY <1>5, <1>6, <1>7, <2>1, <2>2, InRun, Zenon DEF IInv
<1>9. CASE tip # Null
  <2>1. phase' \in {"flush", "sync"} /\ todo' = Dirty(cache) /\ tip \in Block
    BY <1>1, <1>2, <1>9, Zenon
  <2>2. ShowsWriting(cache, db, tip, Dirty(cache))
    <3> SUFFICES ASSUME NEW o \in Outpoint
                 PROVE  /\ GetCoin(cache[o], db.coins[o]) = UtxoAt(tip)[o]
                        /\ o \notin Dirty(cache) => db.coins[o] = UtxoAt(tip)[o]
      BY Zenon DEF ShowsWriting
    <3>1. Sound(cache[o], db.coins[o]) /\ GetCoin(cache[o], db.coins[o]) = UtxoAt(tip)[o]
      BY <1>2, Zenon DEF Shows
    <3> QED BY <1>2, <3>1, CleanInDb, Zenon
  <2>3. WriteInv'
    BY <1>1, <1>2, <1>4, <2>1, <2>2, Zenon DEF WriteInv, Writing
  <2> QED BY <1>5, <1>6, <1>7, <2>1, <2>3, InWrite, Zenon DEF IInv
<1> QED BY <1>8, <1>9, Zenon

-----------------------------------------------------------------------------
(* The batches of a flush.                                                 *)

\* The coins that a batch writes are those of the tip.
LEMMA WrittenFacts ==
  ASSUME IInv, Writing, NEW S, S \subseteq todo
  PROVE  /\ Written(S) \in [Outpoint -> Nat]
         /\ \A o \in Outpoint : /\ o \in S => Written(S)[o] = UtxoAt(tip)[o]
                                /\ o \notin S => Written(S)[o] = db.coins[o]
                                /\ GetCoin(cache[o], Written(S)[o]) = UtxoAt(tip)[o]
<1>1. /\ db \in Database /\ tip \in Block /\ ShowsWriting(cache, db, tip, todo)
      /\ todo \subseteq Dirty(cache)
  BY CurrentDb, Zenon DEF IInv, WriteInv, TypeOK
<1>2. ASSUME NEW o \in Outpoint
      PROVE  /\ Written(S)[o] \in Nat
             /\ o \in S => Written(S)[o] = UtxoAt(tip)[o]
             /\ o \notin S => Written(S)[o] = db.coins[o]
             /\ GetCoin(cache[o], Written(S)[o]) = UtxoAt(tip)[o]
  <2>1. db.coins[o] \in Nat /\ UtxoAt(tip)[o] \in Nat
    BY <1>1, DatabaseFacts, UtxoAtType, Zenon
  <2>2. GetCoin(cache[o], db.coins[o]) = UtxoAt(tip)[o]
    BY <1>1, Zenon DEF ShowsWriting
  <2>3. o \in S => cache[o] # Absent
    BY <1>1, Zenon DEF Dirty
  <2>4. Written(S)[o] = IF o \in S THEN cache[o].coin ELSE db.coins[o]
    BY Zenon DEF Written
  <2> QED BY <2>1, <2>2, <2>3, <2>4, Zenon DEF GetCoin
<1>3. Written(S) = [o \in Outpoint |-> Written(S)[o]]
  BY Zenon DEF Written
<1> QED BY <1>2, <1>3, Zenon

\* A batch that is not the last: the database is a mixture of the tip and the tip
\* of the flush before, and it says so.
LEMMA BatchWritePartialIInv ==
  ASSUME IInv, NEW S \in SUBSET todo, BatchWritePartial(S)
  PROVE  /\ IInv' /\ db'.heads # << >> /\ db'.heads[1] = tip
         /\ \A i \in 1 .. Len(dbs') : dbs'[i] = db' \/ \E j \in 1 .. Len(dbs) : dbs'[i] = dbs[j]
<1> DEFINE d == [coins |-> Written(S), best |-> Heads.best, heads |-> Heads.heads]
           old == IF db.best = Null /\ db.heads # << >> THEN db.heads[2] ELSE db.best
<1>1. /\ Writing /\ WriteBatch(d) /\ todo' = todo \ S
      /\ UNCHANGED << phase, tip, cache, pindex, m_block_index, disk_index, undo, flushes, crashes >>
  BY Zenon DEF BatchWritePartial, Writing
<1>2. /\ db \in Database /\ SoundDb(db, disk_index)
      /\ tip \in Block /\ Solid(disk_index, tip) /\ ShowsWriting(cache, db, tip, todo)
      /\ db.heads # << >> => db.heads[1] = tip
  BY <1>1, CurrentDb, Zenon DEF IInv, WriteInv
<1>3. old \in Block \union {Null}
  BY <1>2, DatabaseFacts, Zenon
<1>4. /\ Written(S) \in [Outpoint -> Nat]
      /\ \A o \in Outpoint : /\ o \in S => Written(S)[o] = UtxoAt(tip)[o]
                             /\ o \notin S => Written(S)[o] = db.coins[o]
                             /\ GetCoin(cache[o], Written(S)[o]) = UtxoAt(tip)[o]
  BY <1>1, WrittenFacts, Zenon
<1>5. d.coins = Written(S) /\ d.best = Null /\ d.heads = << tip, old >>
  BY Zenon DEF Heads
<1>6. d \in Database
  BY <1>2, <1>3, <1>4, Zenon DEF Database, Heads
<1>7. Solid(disk_index, old) /\ \A o \in Outpoint : db.coins[o] \in {UtxoAt(old)[o], UtxoAt(tip)[o]}
  <2>1. CASE db.heads = << >>
    <3>1. old = db.best /\ db.coins = UtxoAt(old)
      BY <1>2, <2>1, Zenon DEF SoundDb
    <3>2. Solid(disk_index, old)
      BY <1>2, <3>1, Zenon DEF SoundDb, Solid
    <3> QED BY <3>1, <3>2, Zenon
  <2>2. CASE db.heads # << >>
    BY <1>2, <2>2, Zenon DEF SoundDb
  <2> QED BY <2>1, <2>2, Zenon
<1> HIDE DEF d, old
<1>8. d.heads # << >> /\ d.heads[1] = tip /\ d.heads[2] = old
  BY <1>5
<1>9. SoundDb(d, disk_index)
  <2>1. \A o \in Outpoint : d.coins[o] \in {UtxoAt(d.heads[2])[o], UtxoAt(d.heads[1])[o]}
    BY <1>4, <1>5, <1>7, <1>8
  <2> QED BY <1>2, <1>5, <1>7, <1>8, <2>1, Zenon DEF SoundDb
<1>10. /\ dbs' \in Seq(Database) /\ Len(dbs') \in 1 .. (MaxLost + 1)
       /\ db' = d
       /\ \A i \in 1 .. Len(dbs') : dbs'[i] = d \/ \E j \in 1 .. Len(dbs) : dbs'[i] = dbs[j]
  BY <1>1, <1>6, WriteBatchFacts, Zenon DEF IInv, TypeOK
<1>11. TypeOK'
  BY <1>1, <1>10, Zenon DEF IInv, TypeOK, Dirty
<1>12. DbInv' /\ IndexInv'
  BY <1>1, <1>9, <1>10, Zenon DEF IInv, DbInv, IndexInv
<1>13. ShowsWriting(cache, d, tip, todo \ S)
  BY <1>2, <1>4, <1>5, Zenon DEF ShowsWriting
<1>14. WriteInv'
  BY <1>1, <1>2, <1>8, <1>10, <1>13, Zenon DEF WriteInv, Writing
<1> QED BY <1>1, <1>8, <1>10, <1>11, <1>12, <1>14, InWrite, Zenon DEF IInv, Writing

\* What the cache keeps after a flush that does not erase it.
LEMMA SyncedSound ==
  ASSUME NEW coin \in Nat, NEW e, e # Absent => e.coin = coin
  PROVE  Sound(Synced(e), coin) /\ GetCoin(Synced(e), coin) = coin
<1>1. CASE e = Absent \/ e.coin = NoCoin
  <2>1. Synced(e) = Absent
    BY <1>1, Zenon DEF Synced
  <2> QED BY <2>1, Zenon DEF Sound, GetCoin
<1>2. CASE ~(e = Absent \/ e.coin = NoCoin)
  <2>1. Synced(e) = Entry(coin, FALSE, FALSE) /\ coin # NoCoin
    BY <1>2, Zenon DEF Synced
  <2> QED BY <2>1, SoundEntries, GetCoinCases, Zenon
<1> QED BY <1>1, <1>2, Zenon

\* The last batch: the database holds the coins of the tip.
LEMMA BatchWriteLastIInv ==
  ASSUME IInv, BatchWriteLast
  PROVE  /\ IInv' /\ db'.heads = << >> /\ db'.best = tip
         /\ \A i \in 1 .. Len(dbs') : dbs'[i] = db' \/ \E j \in 1 .. Len(dbs) : dbs'[i] = dbs[j]
<1> DEFINE d == [coins |-> Written(todo), best |-> tip, heads |-> << >>]
<1>1. /\ Writing /\ WriteBatch(d) /\ todo' = {}
      /\ cache' = IF phase = "sync" THEN [o \in Outpoint |-> Synced(cache[o])] ELSE EmptyCache
      /\ phase' = IF phase = "replay" THEN "replayed" ELSE "run"
      /\ UNCHANGED << tip, pindex, m_block_index, disk_index, undo, flushes, crashes >>
  BY Zenon DEF BatchWriteLast, Writing
<1>2. tip \in Block /\ Solid(disk_index, tip) /\ ShowsWriting(cache, db, tip, todo)
  BY <1>1, Zenon DEF IInv, WriteInv
<1>3. UtxoAt(tip) \in [Outpoint -> Nat]
  BY <1>2, UtxoAtType, Zenon
<1>4. Written(todo) = UtxoAt(tip)
  <2>1. /\ Written(todo) \in [Outpoint -> Nat]
        /\ \A o \in Outpoint : /\ o \in todo => Written(todo)[o] = UtxoAt(tip)[o]
                               /\ o \notin todo => Written(todo)[o] = db.coins[o]
    BY <1>1, WrittenFacts, Zenon
  <2>2. \A o \in Outpoint : o \notin todo => db.coins[o] = UtxoAt(tip)[o]
    BY <1>2, Zenon DEF ShowsWriting
  <2> QED BY <1>3, <2>1, <2>2
<1>5. d.coins = UtxoAt(tip) /\ d.best = tip /\ d.heads = << >>
  BY <1>4, Zenon
<1>6. d \in Database
  BY <1>2, <1>3, <1>4, Zenon DEF Database
<1> HIDE DEF d
<1>7. SoundDb(d, disk_index)
  BY <1>2, <1>5, Zenon DEF SoundDb
<1>8. /\ dbs' \in Seq(Database) /\ Len(dbs') \in 1 .. (MaxLost + 1)
      /\ db' = d
      /\ \A i \in 1 .. Len(dbs') : dbs'[i] = d \/ \E j \in 1 .. Len(dbs) : dbs'[i] = dbs[j]
  BY <1>1, <1>6, WriteBatchFacts, Zenon DEF IInv, TypeOK
<1>9. DbInv' /\ IndexInv'
  BY <1>1, <1>7, <1>8, Zenon DEF IInv, DbInv, IndexInv, Writing
<1>10. Shows(cache', d, tip) /\ cache' = [o \in Outpoint |-> cache'[o]]
  <2>1. CASE phase = "sync"
    <3>1. cache' = [o \in Outpoint |-> Synced(cache[o])]
      BY <1>1, <2>1, Zenon
    <3>2. ASSUME NEW o \in Outpoint
          PROVE  /\ Sound(Synced(cache[o]), UtxoAt(tip)[o])
                 /\ GetCoin(Synced(cache[o]), UtxoAt(tip)[o]) = UtxoAt(tip)[o]
      <4>1. UtxoAt(tip)[o] \in Nat
        BY <1>3, Zenon
      <4>2. cache[o] # Absent => cache[o].coin = UtxoAt(tip)[o]
        BY <1>2, Zenon DEF ShowsWriting, GetCoin
      <4> QED BY <4>1, <4>2, SyncedSound, Zenon
    <3> QED BY <1>5, <3>1, <3>2, Zenon DEF Shows
  <2>2. CASE phase # "sync"
    <3>1. cache' = EmptyCache
      BY <1>1, <2>2, Zenon
    <3> QED BY <1>5, <3>1, Zenon DEF Shows, EmptyCache, Sound, GetCoin
  <2> QED BY <2>1, <2>2, Zenon
<1>11. /\ cache' \in [Outpoint -> CacheEntry \union {Absent}]
       /\ \A o \in Outpoint : Allowed(cache'[o])
  <2>1. \A o \in Outpoint : Sound(cache'[o], d.coins[o])
    BY <1>10, Zenon DEF Shows
  <2> QED BY <1>6, <1>10, <2>1, CacheType, Zenon
<1>12. TypeOK'
  BY <1>1, <1>8, <1>11, Zenon DEF IInv, TypeOK, Phase
<1>13. CASE phase = "replay"
  <2>1. phase' = "replayed" /\ cache' = EmptyCache
    BY <1>1, <1>13, Zenon
  <2>2. StartInv'
    BY <1>5, <1>8, <2>1, Zenon DEF StartInv
  <2> QED BY <1>1, <1>5, <1>8, <1>9, <1>12, <2>1, <2>2, InStart, Zenon DEF IInv
<1>14. CASE phase # "replay"
  <2>1. phase' = "run"
    BY <1>1, <1>14, Zenon
  <2>2. Solid(m_block_index, tip)
    BY <1>1, <1>2, CoversSolid, Zenon DEF IInv, IndexInv, Writing
  <2>3. RunInv'
    BY <1>1, <1>5, <1>8, <1>10, <2>2, Zenon DEF RunInv
  <2> QED BY <1>1, <1>5, <1>8, <1>9, <1>12, <2>1, <2>3, InRun, Zenon DEF IInv
<1> QED BY <1>13, <1>14, Zenon

-----------------------------------------------------------------------------
(* Crash and start-up.                                                     *)

\* A crash loses batches, and every state of the database before them was sound.
LEMMA CrashIInv ==
  ASSUME IInv, NEW n, Crash(n)
  PROVE  IInv' /\ n \in 1 .. Len(dbs) /\ db' = dbs[n]
<1>1. /\ n \in 1 .. Len(dbs) /\ dbs' = SubSeq(dbs, 1, n)
      /\ phase' = "down" /\ tip' = Null /\ cache' = EmptyCache /\ pindex' = Null /\ todo' = {}
      /\ m_block_index' = [b \in Block |-> "none"]
      /\ UNCHANGED << disk_index, undo, flushes >>
      /\ crashes < MaxCrashes /\ crashes' = crashes + 1
  BY Zenon DEF Crash
<1>2. /\ dbs' \in Seq(Database) /\ Len(dbs') = n
      /\ db' = dbs[n]
      /\ \A i \in 1 .. n : dbs'[i] = dbs[i]
  BY <1>1, LostBatchFacts, Zenon DEF IInv, TypeOK
<1>3. TypeOK'
  <2>1. crashes' \in 0 .. MaxCrashes
    BY <1>1, CoinsFlushAssumption DEF IInv, TypeOK, CoinsFlushAssumption
  <2>2. Len(dbs') \in 1 .. (MaxLost + 1)
    BY <1>1, <1>2, CoinsFlushAssumption DEF IInv, TypeOK, CoinsFlushAssumption
  <2>3. EmptyCache \in [Outpoint -> CacheEntry \union {Absent}] /\ \A o \in Outpoint : Allowed(EmptyCache[o])
    BY Zenon DEF EmptyCache, Allowed
  <2> QED BY <1>1, <1>2, <2>1, <2>2, <2>3, Zenon DEF IInv, TypeOK, Phase, Knowledge
<1>4. DbInv'
  BY <1>1, <1>2 DEF IInv, TypeOK, DbInv
<1>5. IndexInv'
  BY <1>1, Zenon DEF IInv, IndexInv, UndoRight
<1>6. StartInv'
  BY <1>1, Zenon DEF StartInv
<1> QED BY <1>1, <1>2, <1>3, <1>4, <1>5, <1>6, InStart, Zenon DEF IInv

\* The index is read back, with a genesis block if it had none.
LEMMA LoadBlockIndexIInv ==
  ASSUME IInv, LoadBlockIndex
  PROVE  IInv' /\ phase = "down" /\ phase' = "loaded" /\ dbs' = dbs
<1>1. /\ phase = "down" /\ phase' = "loaded"
      /\ m_block_index' = IF disk_index[Genesis] # "none" THEN disk_index
                          ELSE [disk_index EXCEPT ![Genesis] = "data"]
      /\ UNCHANGED << tip, cache, pindex, todo, disk_index, undo, dbs, flushes, crashes >>
  BY Zenon DEF LoadBlockIndex
<1>2. todo' = {} /\ cache' = EmptyCache /\ disk_index \in [Block -> Knowledge]
  BY <1>1, Zenon DEF IInv, WriteInv, Writing, StartInv, TypeOK
<1>3. TypeOK'
  BY <1>1, <1>2, Zenon DEF IInv, TypeOK, Phase, Knowledge
<1>4. DbInv'
  BY <1>1, SameDb, Zenon DEF IInv
<1>5. IndexInv'
  BY <1>1, <1>2, GenesisFacts, Zenon DEF IInv, IndexInv, UndoRight, Covers
<1>6. StartInv'
  BY <1>1, <1>2, Zenon DEF StartInv
<1> QED BY <1>1, <1>2, <1>3, <1>4, <1>5, <1>6, InStart, Zenon DEF IInv

\* What the replay of an interrupted flush finds: the tips, the blocks between them,
\* and their undo data.
LEMMA ReplayFacts ==
  ASSUME IInv, db.heads # << >>, phase # "down"
  PROVE  /\ db \in Database
         /\ pindexNew \in Block /\ pindexOld \in Block \union {Null}
         /\ Solid(m_block_index, pindexNew) /\ Solid(m_block_index, pindexOld)
         /\ \A o \in Outpoint : db.coins[o] \in {UtxoAt(pindexOld)[o], UtxoAt(pindexNew)[o]}
         /\ pindexOld = Null => pindexFork = Null
         /\ pindexOld # Null => pindexFork \in Ancestors[pindexOld] \cap Ancestors[pindexNew]
<1>1. db \in Database /\ SoundDb(db, disk_index)
  BY CurrentDb, Zenon DEF IInv
<1>2. pindexNew \in Block /\ pindexOld \in Block \union {Null}
  BY <1>1, DatabaseFacts, Zenon DEF pindexNew, pindexOld
<1>3. /\ Solid(disk_index, pindexNew) /\ Solid(disk_index, pindexOld)
      /\ \A o \in Outpoint : db.coins[o] \in {UtxoAt(pindexOld)[o], UtxoAt(pindexNew)[o]}
  BY <1>1, Zenon DEF SoundDb, pindexNew, pindexOld
<1>4. Covers(m_block_index, disk_index)
  BY Zenon DEF IInv, IndexInv
<1>5. Solid(m_block_index, pindexNew) /\ Solid(m_block_index, pindexOld)
  BY <1>2, <1>3, <1>4, CoversSolid, Zenon
<1>6. pindexOld = Null => pindexFork = Null
  BY Zenon DEF pindexFork
<1>7. pindexOld # Null => pindexFork \in Ancestors[pindexOld] \cap Ancestors[pindexNew]
  BY <1>2, LastCommonAncestorFacts, Zenon DEF pindexFork
<1> QED BY <1>1, <1>2, <1>3, <1>5, <1>6, <1>7, Zenon

\* A block of a branch that the index knows in full.
LEMMA SolidKnown ==
  ASSUME NEW b \in Block, Solid(m_block_index, b), NEW a \in Ancestors[b]
  PROVE  Known(a) /\ (a # Genesis => m_block_index[a] = "undo")
BY GenesisFacts, Zenon DEF Solid, Known

\* The tips of an interrupted flush are known.
LEMMA ReplayBlocksIInv ==
  ASSUME IInv, ReplayBlocks
  PROVE  IInv' /\ phase = "loaded" /\ phase' \in {"replayed", "rollback"} /\ dbs' = dbs
<1>1. /\ phase = "loaded"
      /\ UNCHANGED << tip, cache, todo, m_block_index, disk_index, undo, dbs, flushes, crashes >>
  BY Zenon DEF ReplayBlocks
<1>2. todo' = {} /\ cache = EmptyCache /\ cache' = EmptyCache
  BY <1>1, Zenon DEF IInv, WriteInv, Writing, StartInv
<1>3. DbInv' /\ db' = db
  BY <1>1, SameDb, Zenon DEF IInv
<1>4. IndexInv'
  BY <1>1, Zenon DEF IInv, IndexInv
<1>5. CASE db.heads = << >>
  <2>1. phase' = "replayed" /\ pindex' = pindex
    BY <1>5, Zenon DEF ReplayBlocks
  <2>2. TypeOK'
    BY <1>1, <2>1, Zenon DEF IInv, TypeOK, Phase
  <2>3. StartInv'
    BY <1>2, <1>3, <1>5, <2>1, Zenon DEF StartInv
  <2> QED BY <1>1, <1>2, <1>3, <1>4, <2>1, <2>2, <2>3, InStart, Zenon DEF IInv
<1>6. CASE db.heads # << >>
  <2>1. /\ pindexNew \in Block /\ pindexOld \in Block \union {Null}
        /\ Solid(m_block_index, pindexNew) /\ Solid(m_block_index, pindexOld)
        /\ \A o \in Outpoint : db.coins[o] \in {UtxoAt(pindexOld)[o], UtxoAt(pindexNew)[o]}
        /\ pindexOld # Null => pindexFork \in Ancestors[pindexOld]
    BY <1>1, <1>6, ReplayFacts, Zenon
  <2>2. Known(pindexNew) /\ (pindexOld = Null \/ Known(pindexOld))
    BY <2>1, SolidKnown, AncestorFacts, Zenon
  <2>3. phase' = "rollback" /\ pindex' = pindexOld
    BY <1>6, <2>2, Zenon DEF ReplayBlocks
  <2>4. TypeOK'
    BY <1>1, <2>1, <2>3, Zenon DEF IInv, TypeOK, Phase
  <2>5. ShowsRolling(EmptyCache, db, pindexOld)
    BY <2>1, Zenon DEF ShowsRolling, EmptyCache, Sound, GetCoin, pindexNew
  <2>6. pindexNew' = pindexNew /\ pindexOld' = pindexOld /\ pindexFork' = pindexFork
    BY <1>3, Zenon DEF pindexNew, pindexOld, pindexFork
  <2>7. pindexOld # Null => pindexOld \in Ancestors[pindexOld] /\ nHeight[pindexFork] <= nHeight[pindexOld]
    BY <2>1, AncestorFacts, Zenon
  <2>8. RollInv'
    BY <1>2, <1>3, <1>6, <2>3, <2>5, <2>6, <2>7, Zenon DEF RollInv, Rolling
  <2> QED BY <1>1, <1>2, <1>3, <1>4, <2>3, <2>4, <2>8, InRoll, Zenon DEF IInv
<1> QED BY <1>5, <1>6, Zenon

\* A pass of a loop that keeps the cache showing the block it has come to.
LEMMA RolledIInv ==
  ASSUME IInv, Rolling, NEW readable \in BOOLEAN, readable, NEW entries, NEW b \in Block,
         entries = [o \in Outpoint |-> entries[o]],
         \A o \in Outpoint : entries[o] # Thrown, ShowsRolling(entries, db, b),
         phase = "rollback" => /\ pindexOld # Null /\ b \in Ancestors[pindexOld]
                               /\ nHeight[pindexFork] <= nHeight[b],
         phase = "rollforward" => b \in Ancestors[pindexNew],
         Rolled(readable, entries, b),
         UNCHANGED << tip, todo, m_block_index, disk_index, undo, dbs, flushes, crashes >>
  PROVE  IInv' /\ phase' = phase
<1>1. cache' = entries /\ pindex' = b /\ phase' = phase
  BY Zenon DEF Rolled
<1>2. db \in Database /\ db.heads # << >> /\ todo' = {} /\ phase \in {"rollback", "rollforward"}
  BY CurrentDb, Zenon DEF IInv, RollInv, Rolling, WriteInv, Writing
<1>3. DbInv' /\ db' = db
  BY SameDb, Zenon DEF IInv
<1>4. pindexNew' = pindexNew /\ pindexOld' = pindexOld /\ pindexFork' = pindexFork
  BY <1>3, Zenon DEF pindexNew, pindexOld, pindexFork
<1>5. IndexInv'
  BY <1>1, Zenon DEF IInv, IndexInv
<1>6. /\ entries \in [Outpoint -> CacheEntry \union {Absent}]
      /\ \A o \in Outpoint : Allowed(entries[o])
  <2>1. \A o \in Outpoint : Sound(entries[o], db.coins[o])
    BY Zenon DEF ShowsRolling
  <2> QED BY <1>2, <2>1, CacheType, Zenon
<1>7. TypeOK'
  BY <1>1, <1>2, <1>6, Zenon DEF IInv, TypeOK
<1>8. RollInv'
  BY <1>1, <1>2, <1>3, <1>4, Zenon DEF RollInv, Rolling
<1> QED BY <1>1, <1>2, <1>3, <1>5, <1>7, <1>8, InRoll, Zenon DEF IInv

\* A block of the old branch is undone.  It is not the genesis block, because the
\* fork has been passed before that one.
LEMMA RollbackBlockIInv ==
  ASSUME IInv, RollbackBlock
  PROVE  IInv' /\ phase = "rollback" /\ phase' = phase /\ dbs' = dbs
<1> DEFINE rolled == [o \in Outpoint |->
                        DisconnectBlock(cache[o], vtx[pindex][o], db.coins[o], undo[pindex][o])]
<1>1. /\ phase = "rollback" /\ pindex # pindexFork
      /\ Rolled(m_block_index[pindex] = "undo", rolled, pprev[pindex])
      /\ UNCHANGED << tip, todo, m_block_index, disk_index, undo, dbs, flushes, crashes >>
  BY Zenon DEF RollbackBlock
<1>2. /\ db.heads # << >> /\ ShowsRolling(cache, db, pindex)
      /\ IF pindexOld = Null THEN pindex = Null
         ELSE pindex \in Ancestors[pindexOld] /\ nHeight[pindexFork] <= nHeight[pindex]
  BY <1>1, Zenon DEF IInv, RollInv, Rolling
<1>3. /\ db \in Database /\ pindexOld \in Block \union {Null}
      /\ Solid(m_block_index, pindexOld)
      /\ pindexOld = Null => pindexFork = Null
      /\ pindexOld # Null => pindexFork \in Ancestors[pindexOld]
  BY <1>1, <1>2, ReplayFacts, Zenon
<1>4. /\ pindexOld \in Block /\ pindex \in Ancestors[pindexOld] /\ pindexFork \in Ancestors[pindexOld]
      /\ nHeight[pindexFork] <= nHeight[pindex]
  BY <1>1, <1>2, <1>3, Zenon
<1>5. pindex \in Block /\ pindexFork \in Block /\ nHeight[pindex] \in Nat /\ nHeight[pindexFork] \in Nat
  BY <1>4, AncestorFacts, Parent, Zenon
<1>6. nHeight[pindexFork] < nHeight[pindex]
  <2>1. nHeight[pindexFork] <= nHeight[pindexOld]
    BY <1>4, AncestorFacts, Zenon
  <2>2. PICK a \in Ancestors[pindexOld] :
          \A c \in Ancestors[pindexOld] : nHeight[c] = nHeight[pindexFork] => c = a
    BY <1>4, <1>5, <2>1, OneAncestor
  <2>3. nHeight[pindexFork] # nHeight[pindex]
    BY <1>1, <1>4, <2>2, Zenon
  <2> QED BY <1>4, <1>5, <2>3
<1>7. pindex # Genesis
  BY <1>5, <1>6, CoinsFlushAssumption DEF CoinsFlushAssumption
<1>8. /\ pprev[pindex] \in Block /\ pprev[pindex] \in Ancestors[pindexOld]
      /\ nHeight[pindexFork] <= nHeight[pprev[pindex]]
  <2>1. nHeight[pindex] = nHeight[pprev[pindex]] + 1 /\ pprev[pindex] \in Block
    BY <1>5, <1>7, CoinsFlushAssumption, Zenon DEF CoinsFlushAssumption
  <2>2. nHeight[pprev[pindex]] \in Nat
    BY <2>1, Parent, Zenon
  <2> QED BY <1>4, <1>5, <1>6, <1>7, <2>1, <2>2, AncestorFacts
<1>9. m_block_index[pindex] = "undo"
  BY <1>3, <1>4, <1>7, SolidKnown, Zenon
<1>10. \A o \in Outpoint :
         undo[pindex][o] = UndoCoin(vtx[pindex][o], Utxo[pprev[pindex]][o], nHeight[pindex])
  BY <1>5, <1>7, <1>9, Zenon DEF IInv, IndexInv, UndoRight
<1>11. rolled = [o \in Outpoint |-> rolled[o]]
  BY Zenon
<1>12. (\A o \in Outpoint : rolled[o] # Thrown) /\ ShowsRolling(rolled, db, pprev[pindex])
  <2> DEFINE coins == undo[pindex]
  <2>1. \A o \in Outpoint : coins[o] = UndoCoin(vtx[pindex][o], Utxo[pprev[pindex]][o], nHeight[pindex])
    BY <1>10, Zenon
  <2>2. rolled = [o \in Outpoint |-> DisconnectBlock(cache[o], vtx[pindex][o], db.coins[o], coins[o])]
    BY Zenon
  <2> HIDE DEF rolled, coins
  <2> QED BY <1>2, <1>3, <1>5, <1>7, <2>1, <2>2, RollbackShows
<1> HIDE DEF rolled
<1>13. Rolling /\ pindexOld # Null
  BY <1>1, <1>4, GenesisFacts, Zenon DEF Rolling
<1> QED BY <1>1, <1>4, <1>8, <1>9, <1>11, <1>12, <1>13, RolledIInv, Zenon

\* The old branch is undone down to the fork, which is an ancestor of the new tip.
LEMMA RolledBackIInv ==
  ASSUME IInv, RolledBack
  PROVE  IInv' /\ phase = "rollback" /\ phase' = "rollforward" /\ dbs' = dbs
<1>1. /\ phase = "rollback" /\ phase' = "rollforward" /\ pindex = pindexFork
      /\ pindex' = IF pindexFork = Null THEN Genesis ELSE pindexFork
      /\ UNCHANGED << tip, cache, todo, m_block_index, disk_index, undo, dbs, flushes, crashes >>
  BY Zenon DEF RolledBack
<1>2. db.heads # << >> /\ ShowsRolling(cache, db, pindex) /\ todo' = {}
  BY <1>1, Zenon DEF IInv, RollInv, Rolling, WriteInv, Writing
<1>3. /\ pindexNew \in Block /\ pindexOld \in Block \union {Null}
      /\ pindexOld = Null => pindexFork = Null
      /\ pindexOld # Null => pindexFork \in Ancestors[pindexOld] \cap Ancestors[pindexNew]
  BY <1>1, <1>2, ReplayFacts, Zenon
<1>4. DbInv' /\ db' = db
  BY <1>1, SameDb, Zenon DEF IInv
<1>5. pindexNew' = pindexNew
  BY <1>4, Zenon DEF pindexNew
<1>6. pindex' \in Block /\ pindex' \in Ancestors[pindexNew] /\ UtxoAt(pindex') = UtxoAt(pindex)
  <2>1. CASE pindexOld = Null
    BY <1>1, <1>3, <2>1, AncestorFacts, GenesisFacts, UtxoAtType, Zenon
  <2>2. CASE pindexOld # Null
    BY <1>1, <1>3, <2>2, AncestorFacts, GenesisFacts, Zenon
  <2> QED BY <2>1, <2>2, Zenon
<1>7. TypeOK'
  BY <1>1, <1>6, Zenon DEF IInv, TypeOK, Phase
<1>8. IndexInv'
  BY <1>1, Zenon DEF IInv, IndexInv
<1>9. ShowsRolling(cache, db, pindex')
  BY <1>2, <1>6, Zenon DEF ShowsRolling
<1>10. RollInv'
  BY <1>1, <1>2, <1>4, <1>5, <1>6, <1>9, Zenon DEF RollInv, Rolling
<1> QED BY <1>1, <1>2, <1>4, <1>7, <1>8, <1>10, InRoll, Zenon DEF IInv

\* The next block of the new branch is applied.
LEMMA RollforwardNextIInv ==
  ASSUME IInv, RollforwardNext
  PROVE  IInv' /\ phase = "rollforward" /\ phase' = phase /\ dbs' = dbs
<1> DEFINE b == GetAncestor(pindexNew, nHeight[pindex] + 1)
           rolled == [o \in Outpoint |-> RollforwardBlock(cache[o], vtx[b][o], db.coins[o], nHeight[b])]
<1>1. /\ phase = "rollforward" /\ nHeight[pindex] < nHeight[pindexNew]
      /\ Rolled(Known(b), rolled, b)
      /\ UNCHANGED << tip, todo, m_block_index, disk_index, undo, dbs, flushes, crashes >>
  BY Zenon DEF RollforwardNext
<1>2. db.heads # << >> /\ ShowsRolling(cache, db, pindex) /\ pindex \in Ancestors[pindexNew]
  BY <1>1, Zenon DEF IInv, RollInv, Rolling
<1>3. db \in Database /\ pindexNew \in Block /\ Solid(m_block_index, pindexNew)
  BY <1>1, <1>2, ReplayFacts, Zenon
<1>4. rolled = [o \in Outpoint |-> rolled[o]]
  BY Zenon
<1>5. b \in Ancestors[pindexNew] \ {Genesis} /\ pprev[b] = pindex
  <2>1. b = GetAncestor(pindexNew, nHeight[pindex] + 1)
    BY Zenon
  <2> HIDE DEF b
  <2> QED BY <1>1, <1>2, <1>3, <2>1, NextAncestor
<1>6. b \in Block \ {Genesis}
  BY <1>3, <1>5, AncestorFacts, Zenon
<1>7. Known(b) /\ Known(b) \in BOOLEAN
  BY <1>3, <1>5, SolidKnown, Zenon DEF Known
<1> HIDE DEF b
<1>8. (\A o \in Outpoint : rolled[o] # Thrown) /\ ShowsRolling(rolled, db, b)
  <2>1. rolled = [o \in Outpoint |-> RollforwardBlock(cache[o], vtx[b][o], db.coins[o], nHeight[b])]
    BY Zenon
  <2> HIDE DEF rolled
  <2> QED BY <1>2, <1>3, <1>5, <1>6, <2>1, RollforwardShows, Zenon
<1> HIDE DEF rolled
<1>9. Rolling
  BY <1>1, Zenon DEF Rolling
<1> QED BY <1>1, <1>4, <1>5, <1>6, <1>7, <1>8, <1>9, RolledIInv, Zenon

\* At the height of the new tip the cache shows the coins of that tip.
LEMMA RolledForwardIInv ==
  ASSUME IInv, RolledForward
  PROVE  IInv' /\ phase = "rollforward" /\ phase' = "replay" /\ dbs' = dbs
<1>1. /\ phase = "rollforward" /\ nHeight[pindex] >= nHeight[pindexNew]
      /\ phase' = "replay" /\ tip' = pindexNew /\ todo' = Dirty(cache) /\ pindex' = Null
      /\ UNCHANGED << cache, m_block_index, disk_index, undo, dbs, flushes, crashes >>
  BY Zenon DEF RolledForward
<1>2. db.heads # << >> /\ ShowsRolling(cache, db, pindex) /\ pindex \in Ancestors[pindexNew]
  BY <1>1, Zenon DEF IInv, RollInv, Rolling
<1>3. db \in Database /\ pindexNew \in Block /\ SoundDb(db, disk_index)
  BY <1>1, <1>2, ReplayFacts, CurrentDb, Zenon DEF IInv
<1>4. pindex = pindexNew
  <2>1. nHeight[pindex] <= nHeight[pindexNew] /\ (nHeight[pindex] = nHeight[pindexNew] => pindex = pindexNew)
    BY <1>2, <1>3, AncestorFacts, Zenon
  <2>2. nHeight[pindex] \in Nat /\ nHeight[pindexNew] \in Nat
    BY <1>2, <1>3, AncestorFacts, Parent, Zenon
  <2> QED BY <1>1, <2>1, <2>2
<1>5. DbInv' /\ db' = db
  BY <1>1, SameDb, Zenon DEF IInv
<1>6. TypeOK'
  BY <1>1, <1>3, Zenon DEF IInv, TypeOK, Phase
<1>7. IndexInv'
  BY <1>1, Zenon DEF IInv, IndexInv
<1>8. ShowsWriting(cache, db, pindexNew, Dirty(cache))
  <2> SUFFICES ASSUME NEW o \in Outpoint
               PROVE  /\ GetCoin(cache[o], db.coins[o]) = UtxoAt(pindexNew)[o]
                      /\ o \notin Dirty(cache) => db.coins[o] = UtxoAt(pindexNew)[o]
    BY Zenon DEF ShowsWriting
  <2>1. Sound(cache[o], db.coins[o]) /\ GetCoin(cache[o], db.coins[o]) = UtxoAt(pindexNew)[o]
    BY <1>2, <1>4, Zenon DEF ShowsRolling, pindexNew
  <2> QED BY <1>3, <2>1, CleanInDb, Zenon
<1>9. Solid(disk_index, pindexNew) /\ db.heads[1] = pindexNew
  BY <1>2, <1>3, Zenon DEF SoundDb, pindexNew
<1>10. WriteInv'
  BY <1>1, <1>2, <1>3, <1>5, <1>8, <1>9, Zenon DEF WriteInv, Writing
<1> QED BY <1>1, <1>5, <1>6, <1>7, <1>10, InWrite, Zenon DEF IInv

\* The best block of the database is in the index.
LEMMA LoadChainTipIInv ==
  ASSUME IInv, LoadChainTip
  PROVE  IInv' /\ phase = "replayed" /\ phase' = "run" /\ dbs' = dbs /\ tip' = db.best
         /\ db.heads = << >>
<1>1. /\ phase = "replayed" /\ tip' = db.best
      /\ phase' = IF db.best = Null \/ Known(db.best) THEN "run" ELSE "failed"
      /\ UNCHANGED << cache, pindex, todo, m_block_index, disk_index, undo, dbs, flushes, crashes >>
  BY Zenon DEF LoadChainTip
<1>2. db.heads = << >> /\ cache = EmptyCache /\ todo' = {}
  BY <1>1, Zenon DEF IInv, StartInv, WriteInv, Writing
<1>3. db \in Database /\ SoundDb(db, disk_index) /\ db.best \in Block \union {Null}
  BY CurrentDb, DatabaseFacts, Zenon DEF IInv
<1>4. Covers(m_block_index, disk_index) /\ m_block_index[Genesis] # "none"
  BY <1>1, Zenon DEF IInv, IndexInv
<1>5. Solid(m_block_index, db.best)
  <2>1. CASE db.best = Null
    BY <1>4, <2>1, Zenon DEF Solid
  <2>2. CASE db.best # Null
    BY <1>3, <1>4, <2>2, CoversSolid, Zenon DEF SoundDb
  <2> QED BY <2>1, <2>2, Zenon
<1>6. phase' = "run"
  BY <1>1, <1>3, <1>5, SolidKnown, AncestorFacts, Zenon
<1>7. DbInv' /\ db' = db
  BY <1>1, SameDb, Zenon DEF IInv
<1>8. TypeOK'
  BY <1>1, <1>3, <1>6, Zenon DEF IInv, TypeOK, Phase
<1>9. IndexInv'
  BY <1>1, Zenon DEF IInv, IndexInv
<1>10. Shows(EmptyCache, db, db.best)
  BY <1>2, <1>3, Zenon DEF Shows, SoundDb, EmptyCache, Sound, GetCoin
<1>11. RunInv'
  BY <1>1, <1>2, <1>5, <1>7, <1>10, Zenon DEF RunInv
<1> QED BY <1>1, <1>2, <1>6, <1>7, <1>8, <1>9, <1>11, InRun, Zenon DEF IInv

-----------------------------------------------------------------------------
(* Theorems.                                                               *)

\* Every action keeps the invariant.
LEMMA NextIInv == IInv /\ [Next]_vars => IInv'
<1> SUFFICES ASSUME IInv, [Next]_vars PROVE IInv'
  BY Zenon
<1>1. ASSUME NEW b \in Block \ {Genesis}, AcceptBlock(b) PROVE IInv'
  BY <1>1, AcceptBlockIInv, Zenon
<1>2. ASSUME NEW b \in Block, ConnectTip(b) PROVE IInv'
  BY <1>2, ConnectTipIInv, Zenon
<1>3. CASE DisconnectTip
  BY <1>3, DisconnectTipIInv, Zenon
<1>4. ASSUME NEW o \in Fetched, ReadCoin(o) \/ Uncache(o) PROVE IInv'
  <2>1. o \in Outpoint
    BY CoinsFlushAssumption, Zenon DEF CoinsFlushAssumption
  <2> QED BY <1>4, <2>1, ReadCoinIInv, UncacheIInv, Zenon
<1>5. ASSUME NEW empty_cache \in BOOLEAN, FlushStateToDisk(empty_cache) PROVE IInv'
  BY <1>5, FlushStateToDiskIInv, Zenon
<1>6. CASE Batches
  BY <1>6, BatchWritePartialIInv, BatchWriteLastIInv, Zenon DEF Batches
<1>7. ASSUME NEW n, Crash(n) PROVE IInv'
  BY <1>7, CrashIInv, Zenon
<1>8. CASE Startup
  BY <1>8, LoadBlockIndexIInv, ReplayBlocksIInv, RollbackBlockIInv, RolledBackIInv,
     RollforwardNextIInv, RolledForwardIInv, LoadChainTipIInv, Zenon DEF Startup, Replay
<1>9. CASE UNCHANGED vars
  <2>1. /\ UNCHANGED << phase, tip, cache, pindex, todo, m_block_index >>
        /\ UNCHANGED << disk_index, undo, dbs, flushes, crashes >>
    BY <1>9, Zenon DEF vars, memory
  <2>2. db' = db
    BY <2>1, Zenon DEF db
  <2>3. pindexNew' = pindexNew /\ pindexOld' = pindexOld /\ pindexFork' = pindexFork
    BY <2>2, Zenon DEF pindexNew, pindexOld, pindexFork
  <2>4. TypeOK' /\ DbInv' /\ IndexInv'
    BY <2>1, Zenon DEF IInv, TypeOK, DbInv, IndexInv, Dirty
  <2>5. RunInv' /\ WriteInv' /\ RollInv' /\ StartInv'
    BY <2>1, <2>2, <2>3, Zenon DEF IInv, RunInv, WriteInv, Writing, RollInv, Rolling, StartInv
  <2> QED BY <2>1, <2>4, <2>5, Zenon DEF IInv
<1> QED BY <1>1, <1>2, <1>3, <1>4, <1>5, <1>6, <1>7, <1>8, <1>9 DEF Next

\* The invariant holds in every reachable state.
LEMMA AlwaysIInv == Spec => []IInv
BY InitIInv, NextIInv, PTL DEF Spec

\* Every variable of the chainstate keeps its type, and every entry of the coins
\* cache one of the states that coins.h allows, for every block tree.
THEOREM AlwaysTypeOK == Spec => []TypeOK
<1>1. IInv => TypeOK
  BY Zenon DEF IInv
<1> QED BY <1>1, AlwaysIInv, PTL

\* CoinsTip over the coins database shows exactly the unspent coins of its best
\* block, through ConnectTip, DisconnectTip, the batches of FlushStateToDisk and
\* what ReplayBlocks makes of an interrupted flush.
THEOREM AlwaysViewExact == Spec => []ViewExact
<1>1. IInv => ViewExact
  BY Zenon DEF IInv, ViewExact, RunInv, WriteInv, Writing, Shows, ShowsWriting, InView
<1> QED BY <1>1, AlwaysIInv, PTL

\* CCoinsViewCache marks an entry FRESH only where the database has no coin.
THEOREM AlwaysFreshMeansUnknown == Spec => []FreshMeansUnknown
<1>1. IInv => FreshMeansUnknown
  <2> SUFFICES ASSUME IInv, phase = "run", NEW o \in Outpoint, cache[o] # Absent, cache[o].fresh
               PROVE  db.coins[o] = NoCoin
    BY Zenon DEF FreshMeansUnknown
  <2>1. Sound(cache[o], db.coins[o])
    BY Zenon DEF IInv, RunInv, Shows
  <2> QED BY <2>1, Zenon DEF Sound
<1> QED BY <1>1, AlwaysIInv, PTL

\* Whatever batches a crash loses, ReplayBlocks, LoadChainTip and DisconnectTip
\* find the blocks and the undo data they need, the cache throws nothing, and
\* CCoinsViewDB::BatchWrite finds the heads it asserts.
THEOREM AlwaysNeverStuck == Spec => []NeverStuck
<1>1. IInv => NeverStuck
  BY Zenon DEF IInv, NeverStuck, WriteInv, Writing
<1> QED BY <1>1, AlwaysIInv, PTL

-----------------------------------------------------------------------------
(* The refinement of CoinsStore.                                           *)

\* The variables of CoinsStore, as CoinsFlush maps them.
StoreTip == IF Up THEN tip ELSE Recovered(db)
StoreCoins == IF Up THEN [o \in Outpoint |-> InView(o)] ELSE UtxoAt(Recovered(db))
StoreSaved == {Recovered(dbs[i]) : i \in 1 .. Len(dbs)}

\* The coins of the store are always those of its tip.
LEMMA StoreFacts ==
  ASSUME IInv
  PROVE  /\ StoreCoins = UtxoAt(StoreTip)
         /\ Recovered(db) \in StoreSaved
         /\ phase = "replay" => StoreTip = tip
<1>1. Recovered(db) \in StoreSaved
  <2>1. Len(dbs) \in 1 .. Len(dbs)
    BY DEF IInv, TypeOK
  <2> QED BY <2>1, Zenon DEF StoreSaved, db
<1>2. StoreCoins = UtxoAt(StoreTip)
  <2>1. CASE Up
    <3>1. \A o \in Outpoint : InView(o) = UtxoAt(tip)[o]
      BY <2>1, Zenon DEF IInv, Up, RunInv, WriteInv, Writing, Shows, ShowsWriting, InView
    <3>2. UtxoAt(tip) \in [Outpoint -> Nat]
      BY UtxoAtType, Zenon DEF IInv, TypeOK
    <3>3. [o \in Outpoint |-> InView(o)] = UtxoAt(tip)
      BY <3>1, <3>2, Zenon
    <3> QED BY <2>1, <3>3, Zenon DEF StoreCoins, StoreTip
  <2>2. CASE ~Up
    BY <2>2, Zenon DEF StoreCoins, StoreTip
  <2> QED BY <2>1, <2>2, Zenon
<1>3. phase = "replay" => StoreTip = tip
  BY Zenon DEF IInv, WriteInv, Writing, StoreTip, Up, Recovered
<1> QED BY <1>1, <1>2, <1>3, Zenon

\* A step that leaves the tip and the saved tips of the store alone.
LEMMA StoreStutters ==
  ASSUME IInv, IInv', StoreTip' = StoreTip, dbs' = dbs
  PROVE  UNCHANGED Store!vars
<1>1. StoreCoins = UtxoAt(StoreTip) /\ StoreCoins' = UtxoAt(StoreTip')
  <2>1. StoreCoins = UtxoAt(StoreTip)
    BY StoreFacts, Zenon
  <2>2. (IInv => StoreCoins = UtxoAt(StoreTip))'
    BY StoreFacts, PTL
  <2> QED BY <2>1, <2>2, Zenon
<1>2. StoreSaved' = StoreSaved
  BY Zenon DEF StoreSaved
<1> QED BY <1>1, <1>2, Zenon DEF Store!vars, StoreTip, StoreCoins, StoreSaved

\* A block is connected or disconnected: the tip of the store moves.
LEMMA StoreMoves ==
  ASSUME IInv, IInv', phase = "run", phase' = "run", dbs' = dbs, tip' \in Block, Linked(tip, tip')
  PROVE  Store!Move
<1>1. StoreTip = tip /\ StoreTip' = tip'
  BY Zenon DEF StoreTip, Up
<1>2. StoreCoins' = UtxoAt(StoreTip')
  <2>1. (IInv => StoreCoins = UtxoAt(StoreTip))'
    BY StoreFacts, PTL
  <2> QED BY <2>1, Zenon
<1>3. StoreSaved' = StoreSaved
  BY Zenon DEF StoreSaved
<1>4. Linked(StoreTip, tip') /\ StoreTip' = tip' /\ StoreCoins' = UtxoAt(tip') /\ StoreSaved' = StoreSaved
  BY <1>1, <1>2, <1>3, Zenon
<1> QED BY <1>4, Zenon DEF Store!Move, StoreTip, StoreCoins, StoreSaved

\* A batch of a flush: the tip of the store is saved.
LEMMA StoreSaves ==
  ASSUME IInv, IInv', Writing, StoreTip' = tip, Recovered(db') = tip,
         \A i \in 1 .. Len(dbs') : dbs'[i] = db' \/ \E j \in 1 .. Len(dbs) : dbs'[i] = dbs[j]
  PROVE  Store!Save
<1>1. StoreTip = tip
  BY StoreFacts, Zenon DEF Writing, StoreTip, Up
<1>2. StoreCoins' = StoreCoins
  <2>1. (IInv => StoreCoins = UtxoAt(StoreTip))'
    BY StoreFacts, PTL
  <2> QED BY <1>1, <2>1, StoreFacts, Zenon
<1>3. tip \in StoreSaved'
  <2>1. (IInv => Recovered(db) \in StoreSaved)'
    BY StoreFacts, PTL
  <2>2. Recovered(db)' = Recovered(db')
    BY Zenon DEF Recovered
  <2> QED BY <2>1, <2>2, Zenon
<1>4. StoreSaved' \subseteq StoreSaved \union {tip}
  <2> SUFFICES ASSUME NEW i \in 1 .. Len(dbs')
               PROVE  Recovered(dbs'[i]) \in StoreSaved \union {tip}
    BY Zenon DEF StoreSaved, Recovered
  <2>1. CASE dbs'[i] = db'
    BY <2>1, Zenon
  <2>2. ASSUME NEW j \in 1 .. Len(dbs), dbs'[i] = dbs[j]
        PROVE  Recovered(dbs'[i]) \in StoreSaved
    BY <2>2, Zenon DEF StoreSaved
  <2> QED BY <2>1, <2>2, Zenon
<1>5. /\ StoreSaved' \subseteq StoreSaved \union {StoreTip} /\ StoreTip \in StoreSaved'
      /\ StoreTip' = StoreTip /\ StoreCoins' = StoreCoins
  BY <1>1, <1>2, <1>3, <1>4, Zenon
<1> QED BY <1>5, Zenon DEF Store!Save, StoreTip, StoreCoins, StoreSaved

\* A crash takes the store back to a tip that it saved.
LEMMA StoreCrashes ==
  ASSUME IInv, NEW n, Crash(n)
  PROVE  Store!Crash
<1>1. IInv' /\ n \in 1 .. Len(dbs) /\ db' = dbs[n]
  BY CrashIInv, Zenon
<1>2. phase' = "down" /\ dbs' = SubSeq(dbs, 1, n) /\ dbs \in Seq(Database)
  BY Zenon DEF Crash, IInv, TypeOK
<1>3. StoreTip' = Recovered(dbs[n]) /\ Recovered(db)' = Recovered(dbs[n])
  BY <1>1, <1>2, Zenon DEF StoreTip, Up, Recovered
<1>4. StoreTip' \in StoreSaved
  BY <1>1, <1>3, Zenon DEF StoreSaved
<1>5. StoreCoins' = UtxoAt(StoreTip') /\ StoreTip' \in StoreSaved'
  <2>1. (IInv => StoreCoins = UtxoAt(StoreTip) /\ Recovered(db) \in StoreSaved)'
    BY StoreFacts, PTL
  <2> QED BY <1>1, <1>3, <2>1, Zenon
<1>6. StoreSaved' \subseteq StoreSaved
  <2>1. Len(dbs') = n /\ \A i \in 1 .. n : dbs'[i] = dbs[i]
    BY <1>1, <1>2, LostBatchFacts, Zenon
  <2>2. \A i \in 1 .. n : i \in 1 .. Len(dbs)
    BY <1>1, <1>2
  <2> SUFFICES ASSUME NEW i \in 1 .. Len(dbs') PROVE Recovered(dbs'[i]) \in StoreSaved
    BY Zenon DEF StoreSaved, Recovered
  <2> QED BY <2>1, <2>2, Zenon DEF StoreSaved
<1> QED BY <1>4, <1>5, <1>6, Zenon DEF Store!Crash, StoreTip, StoreCoins, StoreSaved

\* Every step of the chainstate is a step of the store, or none.
LEMMA NextRefines == IInv /\ IInv' /\ [Next]_vars => [Store!Next]_(Store!vars)
<1> SUFFICES ASSUME IInv, IInv', [Next]_vars PROVE Store!Next \/ UNCHANGED Store!vars
  BY Zenon
<1>1. ASSUME phase' = phase, tip' = tip, dbs' = dbs PROVE UNCHANGED Store!vars
  <2>1. StoreTip' = StoreTip
    BY <1>1, Zenon DEF StoreTip, Up, Recovered, db
  <2> QED BY <1>1, <2>1, StoreStutters, Zenon
<1>2. ASSUME ~Up, ~Up', dbs' = dbs PROVE UNCHANGED Store!vars
  <2>1. StoreTip' = StoreTip
    BY <1>2, Zenon DEF StoreTip, Recovered, db
  <2> QED BY <1>2, <2>1, StoreStutters, Zenon
<1>3. ASSUME NEW b \in Block \ {Genesis}, AcceptBlock(b) PROVE UNCHANGED Store!vars
  BY <1>1, <1>3, Zenon DEF AcceptBlock
<1>4. ASSUME NEW b \in Block, ConnectTip(b) PROVE Store!Next
  <2>1. phase = "run" /\ phase' = "run" /\ dbs' = dbs /\ tip' = b /\ Linked(tip, b)
    BY <1>4, ConnectTipIInv, Zenon DEF ConnectTip, Linked
  <2> QED BY <2>1, StoreMoves, Zenon DEF Store!Next
<1>5. CASE DisconnectTip
  <2>1. phase = "run" /\ phase' = "run" /\ dbs' = dbs /\ tip \in Block \ {Genesis} /\ tip' = pprev[tip]
    BY <1>5, DisconnectTipIInv, Zenon DEF DisconnectTip
  <2>2. tip' \in Block /\ Linked(tip, tip')
    BY <2>1, Parent, Zenon DEF Linked
  <2> QED BY <2>1, <2>2, StoreMoves, Zenon DEF Store!Next
<1>6. ASSUME NEW o \in Fetched, ReadCoin(o) \/ Uncache(o) PROVE UNCHANGED Store!vars
  BY <1>1, <1>6, Zenon DEF ReadCoin, Uncache
<1>7. ASSUME NEW empty_cache \in BOOLEAN, FlushStateToDisk(empty_cache) PROVE UNCHANGED Store!vars
  <2>1. Up /\ Up' /\ tip' = tip /\ dbs' = dbs
    BY <1>7, Zenon DEF FlushStateToDisk, Up
  <2>2. StoreTip' = StoreTip
    BY <2>1, Zenon DEF StoreTip
  <2> QED BY <2>1, <2>2, StoreStutters, Zenon
<1>8. ASSUME NEW S \in SUBSET todo, BatchWritePartial(S) PROVE Store!Next
  <2>1. /\ db'.heads # << >> /\ db'.heads[1] = tip
        /\ \A i \in 1 .. Len(dbs') : dbs'[i] = db' \/ \E j \in 1 .. Len(dbs) : dbs'[i] = dbs[j]
    BY <1>8, BatchWritePartialIInv, Zenon
  <2>2. Writing /\ tip' = tip
    BY <1>8, Zenon DEF BatchWritePartial, Writing
  <2>3. Recovered(db') = tip /\ Recovered(db)' = tip
    BY <2>1, Zenon DEF Recovered
  <2>4. StoreTip' = tip
    BY <2>2, <2>3, Zenon DEF StoreTip
  <2> QED BY <2>1, <2>2, <2>3, <2>4, StoreSaves, Zenon DEF Store!Next
<1>9. CASE BatchWriteLast
  <2>1. /\ db'.heads = << >> /\ db'.best = tip
        /\ \A i \in 1 .. Len(dbs') : dbs'[i] = db' \/ \E j \in 1 .. Len(dbs) : dbs'[i] = dbs[j]
    BY <1>9, BatchWriteLastIInv, Zenon
  <2>2. Writing /\ tip' = tip
    BY <1>9, Zenon DEF BatchWriteLast, Writing
  <2>3. Recovered(db') = tip /\ Recovered(db)' = tip
    BY <2>1, Zenon DEF Recovered
  <2>4. StoreTip' = tip
    BY <2>2, <2>3, Zenon DEF StoreTip
  <2> QED BY <2>1, <2>2, <2>3, <2>4, StoreSaves, Zenon DEF Store!Next
<1>10. ASSUME NEW n, Crash(n) PROVE Store!Next
  BY <1>10, StoreCrashes, Zenon DEF Store!Next
<1>11. CASE LoadBlockIndex
  BY <1>2, <1>11, LoadBlockIndexIInv, Zenon DEF Up
<1>12. CASE Replay
  <2>1. ~Up /\ ~Up' /\ dbs' = dbs
    BY <1>12, ReplayBlocksIInv, RollbackBlockIInv, RolledBackIInv, RollforwardNextIInv,
       RolledForwardIInv, Zenon DEF Replay, Up
  <2> QED BY <1>2, <2>1, Zenon
<1>13. CASE LoadChainTip
  <2>1. phase = "replayed" /\ phase' = "run" /\ dbs' = dbs /\ tip' = db.best /\ db.heads = << >>
    BY <1>13, LoadChainTipIInv, Zenon
  <2>2. StoreTip' = StoreTip
    BY <2>1, Zenon DEF StoreTip, Up, Recovered
  <2> QED BY <2>1, <2>2, StoreStutters, Zenon
<1>14. CASE UNCHANGED vars
  BY <1>1, <1>14, Zenon DEF vars, memory
<1> QED BY <1>3, <1>4, <1>5, <1>6, <1>7, <1>8, <1>9, <1>10, <1>11, <1>12, <1>13, <1>14
        DEF Next, Batches, Startup

\* FlushStateToDisk, the batches of CCoinsViewDB and ReplayBlocks implement a store
\* whose coins are always those of one tip, which moves a block at a time and which
\* a crash takes back only to a tip that was written, for every block tree and
\* every number of lost batches.
THEOREM ImplementsCoinsStore == Spec => CrashSafe
<1>1. Init => Store!Init
  <2> SUFFICES ASSUME Init PROVE Store!Init
    BY Zenon
  <2>1. ~Up /\ dbs = << [coins |-> NoCoins, best |-> Null, heads |-> << >>] >>
    BY Zenon DEF Init, Up
  <2>2. Len(dbs) = 1 /\ Recovered(dbs[1]) = Null /\ Recovered(db) = Null
    BY <2>1, Zenon DEF Recovered, db
  <2>3. {Recovered(dbs[i]) : i \in 1 .. Len(dbs)} = {Null}
    BY <2>2
  <2> QED BY <2>1, <2>2, <2>3, Zenon DEF Store!Init
<1>2. IInv /\ IInv' /\ [Next]_vars => [Store!Next]_(Store!vars)
  BY NextRefines, Zenon
<1> QED BY <1>1, <1>2, AlwaysIInv, PTL DEF Spec, CrashSafe, Store!Spec
=============================================================================
