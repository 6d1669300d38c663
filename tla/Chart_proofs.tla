--------------------------- MODULE Chart_proofs ---------------------------
(***************************************************************************)
(* Proofs about the chart editor.  The sheet (FcSheet): names, wires and   *)
(* the grabbed element, for every block library, page size and order of    *)
(* gestures.  The results (GraphRuns): for any number of edits, calls in   *)
(* flight and cycles, a result is marked by the next edit, and the cycle   *)
(* that is replayed is one of the run that is shown.                       *)
(***************************************************************************)
EXTENDS FcSheet, GraphRuns, FiniteSetTheorems, WellFoundedInduction, TLAPS

-----------------------------------------------------------------------------
(* The sheet: sets, lists and generated names. *)

(* A set of natural numbers that is not empty has a least one. *)
LEMMA Least ==
  ASSUME NEW S \in SUBSET Nat, NEW n \in S
  PROVE  \E s \in S : \A t \in S : s <= t
<1> DEFINE Below == OpToRel(<, Nat)
<1>1. IsWellFoundedOn(Below, Nat)
  BY NatLessThanWellFounded, Zenon
<1>2. \A x, y \in Nat : <<x, y>> \in Below <=> x < y
  BY DEF OpToRel
<1> HIDE DEF Below
<1>3. PICK s \in S : \A t \in S : <<t, s>> \notin Below
  BY <1>1, WFMin, Zenon
<1>4. ASSUME NEW t \in S PROVE s <= t
  <2>1. s \in Nat /\ t \in Nat /\ ~(t < s)
    BY <1>2, <1>3
  <2>2. QED
    BY <2>1
<1>5. QED
  BY <1>4

(* A list has finitely many names, as many as elements if they are apart. *)
LEMMA IdsCount ==
  ASSUME NEW S, NEW s \in Seq(S)
  PROVE  /\ IsFiniteSet(Ids(s)) /\ Cardinality(Ids(s)) \in Nat
         /\ Apart(s) => Cardinality(Ids(s)) = Len(s)
<1> DEFINE f == [i \in DOMAIN s |-> s[i].id]
<1>1. Len(s) \in Nat /\ DOMAIN s = 1 .. Len(s)
  OBVIOUS
<1>2. IsFiniteSet(DOMAIN s) /\ Cardinality(DOMAIN s) = Len(s)
  BY <1>1, FS_Interval
<1>3. f \in Surjection(DOMAIN s, Ids(s))
  BY DEF Surjection, Ids
<1>4. Apart(s) => f \in Injection(DOMAIN s, Ids(s))
  BY DEF Injection, IsInjective, Ids, Apart
<1> HIDE DEF f
<1>5. /\ IsFiniteSet(Ids(s))
      /\ Apart(s) => Cardinality(Ids(s)) = Cardinality(DOMAIN s)
  BY <1>2, <1>3, <1>4, FS_Surjection
<1>6. QED
  BY <1>2, <1>5, FS_CardinalityType

(* uniqueId finds a name under the stem that is not taken. *)
LEMMA UniqueIdFresh ==
  ASSUME NEW taken, IsFiniteSet(taken), NEW stem
  PROVE  /\ uniqueId(taken, stem) \notin taken
         /\ \E n \in Nat \ {0} : uniqueId(taken, stem) = <<stem, n>>
<1> DEFINE N == Cardinality(taken) + 1
           Open(n) == <<stem, n>> \notin taken
           First(n) == Open(n) /\ \A m \in 1 .. n - 1 : ~Open(m)
<1>1. N \in Nat /\ N > Cardinality(taken)
  BY FS_CardinalityType
<1> HIDE DEF N
<1>2. IsFiniteSet(1 .. N) /\ Cardinality(1 .. N) = N
  BY <1>1, FS_Interval
<1>3. \E n \in 1 .. N : Open(n)
  <2>1. SUFFICES ASSUME \A n \in 1 .. N : ~Open(n) PROVE FALSE
    OBVIOUS
  <2> DEFINE f == [n \in 1 .. N |-> <<stem, n>>]
  <2>2. f \in [1 .. N -> taken]
    BY <2>1
  <2> HIDE DEF f
  <2>3. Cardinality(taken) < Cardinality(1 .. N)
    BY <1>1, <1>2, FS_CardinalityType
  <2>4. \E x, y \in 1 .. N : x # y /\ f[x] = f[y]
    BY <1>2, <2>2, <2>3, FS_PigeonHole, Zenon
  <2>5. QED
    BY <2>4 DEF f
<1>4. \E n \in 1 .. N : First(n)
  <2> DEFINE F == {n \in 1 .. N : Open(n)}
  <2>1. F \in SUBSET Nat /\ F # {}
    BY <1>3
  <2>2. PICK n \in F : \A m \in F : n <= m
    BY <2>1, Least
  <2>3. ASSUME NEW m \in 1 .. n - 1 PROVE ~Open(m)
    <3>1. n \in 1 .. N /\ m \in 1 .. N /\ m < n
      BY <1>1, <2>3
    <3>2. QED
      BY <2>2, <3>1
  <2>4. QED
    BY <2>2, <2>3
<1>5. PICK n \in 1 .. N : n = CHOOSE m \in 1 .. N : First(m)
  BY <1>4
<1>6. First(n)
  BY <1>4, <1>5
<1>7. uniqueId(taken, stem) = <<stem, n>>
  BY <1>5 DEF uniqueId, N
<1>8. n \in Nat \ {0}
  <2>1. n \in 1 .. N
    BY <1>5
  <2>2. QED
    BY <1>1, <2>1
<1>9. QED
  BY <1>6, <1>7, <1>8

(* Kept takes each of the places of K once. *)
LEMMA KeptIs ==
  ASSUME NEW S, NEW s \in Seq(S), NEW K \in SUBSET DOMAIN s
  PROVE  \E at \in [1 .. Cardinality(K) -> K] :
           /\ \A m, n \in 1 .. Cardinality(K) : at[m] = at[n] => m = n
           /\ \A k \in K : \E n \in 1 .. Cardinality(K) : at[n] = k
           /\ Kept(s, K) = [n \in 1 .. Cardinality(K) |-> s[at[n]]]
           /\ Cardinality(K) \in Nat
<1> DEFINE N == Cardinality(K)
           Upto(i) == {k \in K : k <= i}
           r == [i \in K |-> Cardinality(Upto(i))]
<1>1. K \in SUBSET Nat /\ Len(s) \in Nat /\ DOMAIN s = 1 .. Len(s)
  OBVIOUS
<1>2. IsFiniteSet(K) /\ N \in Nat
  <2>1. IsFiniteSet(DOMAIN s)
    BY <1>1, FS_Interval
  <2>2. QED
    BY <2>1, FS_Subset, FS_CardinalityType
<1>3. ASSUME NEW i \in K
      PROVE  /\ IsFiniteSet(Upto(i))
             /\ Cardinality(Upto(i)) \in Nat
             /\ Cardinality(Upto(i)) <= N
  BY <1>2, FS_Subset, FS_CardinalityType
<1>4. ASSUME NEW i \in K PROVE Cardinality(Upto(i)) \in 1 .. N
  <2>1. i \in Upto(i)
    BY <1>1
  <2>2. Cardinality(Upto(i)) # 0
    BY <1>3, <2>1, FS_EmptySet
  <2>3. Cardinality(Upto(i)) \in Nat /\ Cardinality(Upto(i)) <= N
    BY <1>3
  <2> HIDE DEF N, Upto
  <2>4. QED
    BY <1>2, <2>2, <2>3
<1>5. ASSUME NEW i \in K, NEW j \in K, i < j
      PROVE  Cardinality(Upto(i)) # Cardinality(Upto(j))
  <2>1. Upto(i) \in SUBSET Upto(j) /\ j \in Upto(j) /\ j \notin Upto(i)
    BY <1>1, <1>5
  <2>2. QED
    BY <1>3, <2>1, FS_Subset
<1>6. ASSUME NEW i \in K, NEW j \in K, r[i] = r[j] PROVE i = j
  <2>1. Cardinality(Upto(i)) = Cardinality(Upto(j))
    BY <1>6
  <2>2. ~(i < j) /\ ~(j < i)
    BY <1>5, <2>1
  <2>3. QED
    BY <1>1, <2>2
<1>7. r \in [K -> 1 .. N]
  BY <1>4
<1>8. r \in Injection(K, 1 .. N)
  BY <1>6, <1>7 DEF Injection, IsInjective
<1>9. IsFiniteSet(1 .. N) /\ Cardinality(1 .. N) = N
  BY <1>2, FS_Interval
<1>10. \A n \in 1 .. N : \E i \in K : r[i] = n
  <2> HIDE DEF r
  <2>1. r \in Surjection(K, 1 .. N)
    BY <1>8, <1>9, FS_Injection
  <2>2. QED
    BY <2>1 DEF Surjection
<1> DEFINE at == [n \in 1 .. N |-> CHOOSE i \in K : r[i] = n]
<1>11. \A n \in 1 .. N : at[n] \in K /\ r[at[n]] = n
  <2> HIDE DEF r
  <2>1. QED
    BY <1>10
<1>12. Kept(s, K) = [n \in 1 .. N |-> s[at[n]]]
  <2>1. \A n \in 1 .. N : at[n] = CHOOSE i \in K : Cardinality(Upto(i)) = n
    OBVIOUS
  <2>2. Kept(s, K) = [n \in 1 .. N |-> s[CHOOSE i \in K : Cardinality(Upto(i)) = n]]
    BY Zenon DEF Kept
  <2> HIDE DEF at, r, Upto
  <2>3. QED
    BY <2>1, <2>2
<1> HIDE DEF r
<1>13. at \in [1 .. N -> K]
  BY <1>11
<1>14. \A m, n \in 1 .. N : at[m] = at[n] => m = n
  <2> HIDE DEF at
  <2>1. QED
    BY <1>11
<1>15. \A k \in K : \E n \in 1 .. N : at[n] = k
  <2> HIDE DEF at
  <2>1. QED
    BY <1>6, <1>7, <1>11
<1> HIDE DEF at
<1>16. QED
  BY <1>2, <1>12, <1>13, <1>14, <1>15

-----------------------------------------------------------------------------
(* Lists after an edit. *)

(* What a filter leaves comes from the places it keeps, and all of it. *)
LEMMA KeptElements ==
  ASSUME NEW S, NEW s \in Seq(S), NEW K \in SUBSET DOMAIN s
  PROVE  /\ Kept(s, K) \in Seq(S)
         /\ \A n \in DOMAIN Kept(s, K) : \E k \in K : Kept(s, K)[n] = s[k]
         /\ \A k \in K : \E n \in DOMAIN Kept(s, K) : Kept(s, K)[n] = s[k]
<1>1. PICK at \in [1 .. Cardinality(K) -> K] :
        /\ \A k \in K : \E n \in 1 .. Cardinality(K) : at[n] = k
        /\ Kept(s, K) = [n \in 1 .. Cardinality(K) |-> s[at[n]]]
        /\ Cardinality(K) \in Nat
  BY KeptIs
<1>2. \A k \in K : s[k] \in S
  OBVIOUS
<1>3. [n \in 1 .. Cardinality(K) |-> s[at[n]]] \in Seq(S)
  <2>1. \A n \in 1 .. Cardinality(K) : s[at[n]] \in S
    BY <1>2
  <2>2. [n \in 1 .. Cardinality(K) |-> s[at[n]]] \in [1 .. Cardinality(K) -> S]
    BY <2>1
  <2>3. \A m \in Nat : [1 .. m -> S] \subseteq Seq(S)
    OBVIOUS
  <2>4. QED
    BY <1>1, <2>2, <2>3
<1> DEFINE t == Kept(s, K)
<1>4. t \in Seq(S)
  BY <1>1, <1>3
<1>5. DOMAIN t = 1 .. Cardinality(K) /\ \A n \in DOMAIN t : t[n] = s[at[n]]
  BY <1>1
<1> HIDE DEF t
<1>6. \A n \in DOMAIN t : \E k \in K : t[n] = s[k]
  BY <1>1, <1>5
<1>7. \A k \in K : \E n \in DOMAIN t : t[n] = s[k]
  BY <1>1, <1>5
<1>8. QED
  BY <1>4, <1>6, <1>7 DEF t

(* A filter keeps names apart. *)
LEMMA KeptApart ==
  ASSUME NEW S, NEW s \in Seq(S), NEW K \in SUBSET DOMAIN s
  PROVE  /\ Ids(Kept(s, K)) = {s[k].id : k \in K}
         /\ Apart(s) => Apart(Kept(s, K))
<1>1. PICK at \in [1 .. Cardinality(K) -> K] :
        /\ \A m, n \in 1 .. Cardinality(K) : at[m] = at[n] => m = n
        /\ Kept(s, K) = [n \in 1 .. Cardinality(K) |-> s[at[n]]]
  BY KeptIs
<1>2. Apart(s) => Apart(Kept(s, K))
  BY <1>1 DEF Apart
<1>3. Ids(Kept(s, K)) = {s[k].id : k \in K}
  <2> DEFINE t == Kept(s, K)
  <2>1. /\ \A n \in DOMAIN t : \E k \in K : t[n] = s[k]
        /\ \A k \in K : \E n \in DOMAIN t : t[n] = s[k]
    BY KeptElements
  <2> HIDE DEF t
  <2>2. Ids(t) = {s[k].id : k \in K}
    BY <2>1 DEF Ids
  <2>3. QED
    BY <2>2 DEF t
<1>4. QED
  BY <1>2, <1>3

(* A filter of wires leaves an input one source at most. *)
LEMMA KeptSingle ==
  ASSUME NEW S, NEW s \in Seq(S), NEW K \in SUBSET DOMAIN s,
         \A i, j \in DOMAIN s : s[i].to = s[j].to => i = j
  PROVE  \A m, n \in DOMAIN Kept(s, K) : Kept(s, K)[m].to = Kept(s, K)[n].to => m = n
<1>1. PICK at \in [1 .. Cardinality(K) -> K] :
        /\ \A m, n \in 1 .. Cardinality(K) : at[m] = at[n] => m = n
        /\ Kept(s, K) = [n \in 1 .. Cardinality(K) |-> s[at[n]]]
  BY KeptIs
<1>2. QED
  BY <1>1

LEMMA AppendApart ==
  ASSUME NEW S, NEW s \in Seq(S), NEW x \in S
  PROVE  /\ Append(s, x) \in Seq(S)
         /\ Ids(Append(s, x)) = Ids(s) \cup {x.id}
         /\ Apart(s) /\ x.id \notin Ids(s) => Apart(Append(s, x))
         /\ DOMAIN s \subseteq DOMAIN Append(s, x)
         /\ \A i \in DOMAIN s : Append(s, x)[i] = s[i]
<1>1. /\ Append(s, x) \in Seq(S) /\ Len(Append(s, x)) = Len(s) + 1
      /\ \A i \in 1 .. Len(s) : Append(s, x)[i] = s[i]
      /\ Append(s, x)[Len(s) + 1] = x
  OBVIOUS
<1>2. Len(s) \in Nat /\ DOMAIN s = 1 .. Len(s) /\ DOMAIN Append(s, x) = 1 .. Len(s) + 1
  BY <1>1
<1> DEFINE t == Append(s, x)
<1> HIDE DEF t
<1>3. \A i \in DOMAIN t : (i \in DOMAIN s /\ t[i] = s[i]) \/ (i = Len(s) + 1 /\ t[i] = x)
  BY <1>1, <1>2 DEF t
<1>4. DOMAIN s \subseteq DOMAIN t /\ Len(s) + 1 \in DOMAIN t /\ t[Len(s) + 1] = x
  BY <1>1, <1>2 DEF t
<1>5. \A i \in DOMAIN s : t[i] = s[i]
  BY <1>1, <1>2 DEF t
<1>6. Ids(t) = Ids(s) \cup {x.id}
  BY <1>3, <1>4, <1>5 DEF Ids
<1>7. Apart(s) /\ x.id \notin Ids(s) => Apart(t)
  BY <1>3 DEF Apart, Ids
<1>8. QED
  BY <1>1, <1>4, <1>5, <1>6, <1>7 DEF t

(* An edit in place: every element keeps its place and its name. *)
InPlace(s, t) == DOMAIN s = DOMAIN t /\ \A i \in DOMAIN s : t[i].id = s[i].id

LEMMA InPlaceApart ==
  ASSUME NEW s, NEW t, InPlace(s, t)
  PROVE  Ids(t) = Ids(s) /\ (Apart(s) => Apart(t))
BY DEF InPlace, Ids, Apart

LEMMA MappedSeq ==
  ASSUME NEW S, NEW T, NEW s \in Seq(S), NEW t, t = [i \in 1 .. Len(s) |-> t[i]],
         \A i \in DOMAIN s : t[i] \in T
  PROVE  t \in Seq(T) /\ DOMAIN t = DOMAIN s
<1>1. Len(s) \in Nat /\ DOMAIN s = 1 .. Len(s)
  OBVIOUS
<1>2. t \in [1 .. Len(s) -> T]
  BY <1>1
<1>3. QED
  BY <1>1, <1>2

LEMMA RestyledInPlace ==
  ASSUME NEW S \in {Block, Constant, Port}, NEW s \in Seq(S), NEW id, NEW look \in Looks
  PROVE  /\ Restyled(s, id, look) \in Seq(S)
         /\ InPlace(s, Restyled(s, id, look))
         /\ S = Block => \A i \in DOMAIN s : Restyled(s, id, look)[i].type = s[i].type
<1> DEFINE t == Restyled(s, id, look)
<1>1. /\ DOMAIN t = DOMAIN s
      /\ \A i \in DOMAIN s :
           t[i] = IF s[i].id = id THEN [s[i] EXCEPT !.look = look] ELSE s[i]
  BY DEF Restyled
<1> HIDE DEF t
<1>2. ASSUME NEW x \in S
      PROVE  /\ [x EXCEPT !.look = look] \in S
             /\ [x EXCEPT !.look = look].id = x.id
             /\ S = Block => [x EXCEPT !.look = look].type = x.type
  <2>1. CASE S = Block
    BY <2>1 DEF Block
  <2>2. CASE S = Constant /\ S # Block
    BY <2>2 DEF Constant
  <2>3. CASE S = Port /\ S # Block
    BY <2>3 DEF Port
  <2>4. QED
    BY <2>1, <2>2, <2>3
<1>3. ASSUME NEW i \in DOMAIN s
      PROVE  t[i] \in S /\ t[i].id = s[i].id /\ (S = Block => t[i].type = s[i].type)
  <2>1. s[i] \in S
    OBVIOUS
  <2>2. QED
    BY <1>1, <1>2, <2>1
<1>4. t = [i \in 1 .. Len(s) |-> t[i]]
  BY DEF t, Restyled
<1>5. t \in Seq(S)
  BY <1>3, <1>4, MappedSeq
<1>6. QED
  BY <1>1, <1>3, <1>5 DEF InPlace, t

LEMMA AtIndexInPlace ==
  ASSUME NEW s \in Seq(Port), NEW k, NEW look \in Looks
  PROVE  AtIndex(s, k, look) \in Seq(Port) /\ InPlace(s, AtIndex(s, k, look))
<1> DEFINE t == AtIndex(s, k, look)
<1>1. /\ DOMAIN t = DOMAIN s
      /\ \A i \in DOMAIN s : t[i] = IF i = k THEN [s[i] EXCEPT !.look = look] ELSE s[i]
  BY DEF AtIndex
<1>2. t = [i \in 1 .. Len(s) |-> t[i]]
  BY DEF AtIndex
<1> HIDE DEF t
<1>3. ASSUME NEW i \in DOMAIN s PROVE t[i] \in Port /\ t[i].id = s[i].id
  <2>1. s[i] \in Port
    OBVIOUS
  <2>2. QED
    BY <1>1, <2>1 DEF Port
<1>4. t \in Seq(Port)
  BY <1>2, <1>3, MappedSeq
<1>5. QED
  BY <1>1, <1>3, <1>4 DEF InPlace, t

-----------------------------------------------------------------------------
(* One field of a page replaced. *)
LEMMA PutBlocks ==
  ASSUME NEW d \in PageDoc, NEW s \in Seq(Block)
  PROVE  /\ [d EXCEPT !.blocks = s] \in PageDoc
         /\ [d EXCEPT !.blocks = s].blocks = s
         /\ [d EXCEPT !.blocks = s].constants = d.constants
         /\ [d EXCEPT !.blocks = s].interface = d.interface
         /\ [d EXCEPT !.blocks = s].connections = d.connections
BY DEF PageDoc

LEMMA PutConstants ==
  ASSUME NEW d \in PageDoc, NEW s \in Seq(Constant)
  PROVE  /\ [d EXCEPT !.constants = s] \in PageDoc
         /\ [d EXCEPT !.constants = s].blocks = d.blocks
         /\ [d EXCEPT !.constants = s].constants = s
         /\ [d EXCEPT !.constants = s].interface = d.interface
         /\ [d EXCEPT !.constants = s].connections = d.connections
BY DEF PageDoc

LEMMA PutPorts ==
  ASSUME NEW d \in PageDoc, NEW a \in Dirs, NEW s \in Seq(Port)
  PROVE  /\ [d EXCEPT !.interface[a] = s] \in PageDoc
         /\ [d EXCEPT !.interface[a] = s].blocks = d.blocks
         /\ [d EXCEPT !.interface[a] = s].constants = d.constants
         /\ [d EXCEPT !.interface[a] = s].interface[a] = s
         /\ \A b \in Dirs \ {a} : [d EXCEPT !.interface[a] = s].interface[b] = d.interface[b]
         /\ [d EXCEPT !.interface[a] = s].connections = d.connections
BY DEF PageDoc

LEMMA PutWires ==
  ASSUME NEW d \in PageDoc, NEW s \in Seq(Connection)
  PROVE  /\ [d EXCEPT !.connections = s] \in PageDoc
         /\ [d EXCEPT !.connections = s].blocks = d.blocks
         /\ [d EXCEPT !.connections = s].constants = d.constants
         /\ [d EXCEPT !.connections = s].interface = d.interface
         /\ [d EXCEPT !.connections = s].connections = s
BY DEF PageDoc

LEMMA DocParts ==
  ASSUME NEW d \in PageDoc
  PROVE  /\ d.blocks \in Seq(Block) /\ d.constants \in Seq(Constant)
         /\ \A a \in Dirs : d.interface[a] \in Seq(Port)
         /\ d.connections \in Seq(Connection)
BY DEF PageDoc

-----------------------------------------------------------------------------
(* Pins. *)

NodePin(d, p) ==
  \/ \E i \in DOMAIN d.blocks : p \in BlockPins(d.blocks[i])
  \/ \E i \in DOMAIN d.constants : p = Pin(d.constants[i].id, "OUT", "output")
PortPin(d, p) ==
  \E a \in Dirs : \E i \in DOMAIN d.interface[a] :
    \/ a # "output" /\ p = Pin(INTERFACE, d.interface[a][i].id, "output")
    \/ a # "input"  /\ p = Pin(INTERFACE, d.interface[a][i].id, "input")

LEMMA PinsAre ==
  ASSUME NEW d, NEW p
  PROVE  p \in pinMap(d) <=> NodePin(d, p) \/ PortPin(d, p)
<1> DEFINE Bs == UNION {BlockPins(d.blocks[i]) : i \in DOMAIN d.blocks}
           Cs == {Pin(c, "OUT", "output") : c \in Ids(d.constants)}
           Is == UNION {{Pin(INTERFACE, n, "output") : n \in Ids(d.interface[dir])} :
                          dir \in Dirs \ {"output"}}
           Os == UNION {{Pin(INTERFACE, n, "input") : n \in Ids(d.interface[dir])} :
                          dir \in Dirs \ {"input"}}
<1>1. NodePin(d, p) <=> p \in Bs \/ p \in Cs
  BY DEF NodePin, Ids
<1>2. PortPin(d, p) <=> p \in Is \/ p \in Os
  BY DEF PortPin, Ids
<1>3. pinMap(d) = Bs \cup Cs \cup Is \cup Os
  BY DEF pinMap
<1>4. QED
  BY <1>1, <1>2, <1>3

(* The pins of a block carry its id, and depend on its id and type alone. *)
LEMMA BlockPinIs ==
  ASSUME NEW b \in Block, NEW p \in BlockPins(b)
  PROVE  p \in PinPoint /\ p.block = b.id
<1>1. pinsOf(b) \in [inputs : SUBSET Text, outputs : SUBSET Text]
  BY SheetAssumption DEF pinsOf
<1>2. \E n \in Text, dir \in {"input", "output"} : p = Pin(b.id, n, dir)
  BY <1>1 DEF BlockPins, Text
<1>3. b.id \in Name \ {INTERFACE}
  BY DEF Block
<1>4. QED
  BY <1>2, <1>3 DEF Pin, PinPoint

LEMMA BlockPinsSame ==
  ASSUME NEW b, NEW c, b.id = c.id, b.type = c.type
  PROVE  BlockPins(b) = BlockPins(c)
<1>1. pinsOf(b) = pinsOf(c)
  BY DEF pinsOf
<1>2. QED
  BY <1>1 DEF BlockPins

LEMMA NodePinIs ==
  ASSUME NEW d \in PageDoc, NEW p, NodePin(d, p)
  PROVE  p \in PinPoint /\ p.block \in NodeIds(d) /\ p.block # INTERFACE
<1>1. d.blocks \in Seq(Block) /\ d.constants \in Seq(Constant)
  BY DocParts
<1>2. CASE \E i \in DOMAIN d.blocks : p \in BlockPins(d.blocks[i])
  <2>1. PICK i \in DOMAIN d.blocks : p \in BlockPins(d.blocks[i])
    BY <1>2
  <2>2. d.blocks[i] \in Block
    BY <1>1
  <2>3. p \in PinPoint /\ p.block = d.blocks[i].id /\ d.blocks[i].id # INTERFACE
    BY <2>1, <2>2, BlockPinIs DEF Block
  <2>4. QED
    BY <2>1, <2>3 DEF NodeIds, Ids
<1>3. CASE \E i \in DOMAIN d.constants : p = Pin(d.constants[i].id, "OUT", "output")
  <2>1. PICK i \in DOMAIN d.constants : p = Pin(d.constants[i].id, "OUT", "output")
    BY <1>3
  <2>2. d.constants[i] \in Constant
    BY <1>1
  <2>3. d.constants[i].id \in Name \ {INTERFACE}
    BY <2>2 DEF Constant
  <2>4. p \in PinPoint /\ p.block = d.constants[i].id
    BY <2>1, <2>3 DEF PinPoint, Pin, Text
  <2>5. QED
    BY <2>1, <2>3, <2>4 DEF NodeIds, Ids
<1>4. QED
  BY <1>2, <1>3 DEF NodePin

LEMMA PortPinIs ==
  ASSUME NEW d \in PageDoc, NEW p, PortPin(d, p)
  PROVE  p \in PinPoint /\ p.block = INTERFACE /\ p.port \in PortNames(d)
<1>0. PICK a \in Dirs : \E i \in DOMAIN d.interface[a] : \E dir \in {"input", "output"} :
        p = Pin(INTERFACE, d.interface[a][i].id, dir)
  BY DEF PortPin
<1>1. PICK i \in DOMAIN d.interface[a] : \E dir \in {"input", "output"} :
        p = Pin(INTERFACE, d.interface[a][i].id, dir)
  BY <1>0
<1>2. d.interface[a] \in Seq(Port)
  BY DocParts
<1>3. d.interface[a][i] \in Port
  BY <1>2
<1>4. d.interface[a][i].id \in Name
  BY <1>3 DEF Port
<1>5. p \in PinPoint /\ p.block = INTERFACE /\ p.port = d.interface[a][i].id
  BY <1>1, <1>4 DEF Pin, PinPoint
<1>6. QED
  BY <1>5 DEF PortNames, Ids

LEMMA PinIs ==
  ASSUME NEW d \in PageDoc
  PROVE  pinMap(d) \subseteq PinPoint
BY PinsAre, NodePinIs, PortPinIs

LEMMA PinRecord ==
  ASSUME NEW p \in PinPoint
  PROVE  /\ p = Pin(p.block, p.port, p.dir) /\ p.dir \in {"input", "output"}
         /\ End(p) \in Endpoint
         /\ End(p).block = p.block /\ End(p).port = p.port
BY DEF PinPoint, Pin, End, Endpoint

(* A page that keeps every element at its place, with its name and type, keeps
   every pin. *)
Stay(s, t) == \A i \in DOMAIN s : i \in DOMAIN t /\ t[i].id = s[i].id
Covers(d, e) ==
  /\ Stay(d.blocks, e.blocks) /\ Stay(d.constants, e.constants)
  /\ \A i \in DOMAIN d.blocks : e.blocks[i].type = d.blocks[i].type
  /\ \A a \in Dirs : Stay(d.interface[a], e.interface[a])

LEMMA CoversPins ==
  ASSUME NEW d, NEW e, Covers(d, e)
  PROVE  pinMap(d) \subseteq pinMap(e)
<1>1. SUFFICES ASSUME NEW p, p \in pinMap(d) PROVE p \in pinMap(e)
  OBVIOUS
<1>2. CASE \E i \in DOMAIN d.blocks : p \in BlockPins(d.blocks[i])
  <2>1. PICK i \in DOMAIN d.blocks : p \in BlockPins(d.blocks[i])
    BY <1>2
  <2>2. i \in DOMAIN e.blocks /\ BlockPins(e.blocks[i]) = BlockPins(d.blocks[i])
    BY BlockPinsSame DEF Covers, Stay
  <2>3. QED
    BY <2>1, <2>2, PinsAre DEF NodePin
<1>3. CASE \E i \in DOMAIN d.constants : p = Pin(d.constants[i].id, "OUT", "output")
  BY <1>3, PinsAre DEF Covers, Stay, NodePin
<1>4. CASE PortPin(d, p)
  <2>1. PortPin(e, p)
    BY <1>4 DEF Covers, Stay, PortPin
  <2>2. QED
    BY <2>1, PinsAre
<1>5. QED
  BY <1>1, <1>2, <1>3, <1>4, PinsAre DEF NodePin

-----------------------------------------------------------------------------
(* Steps that put elements on the page or change them in place. *)

LEMMA CoverStep ==
  ASSUME SheetInv, page' \in PageDoc, Covers(page, page'),
         page'.connections = page.connections, sel' \in Selection,
         NamedApart(page) => NamedApart(page'),
         UNCHANGED <<drag, draft, former, blame>>
  PROVE  SheetInv'
<1>1. SheetTypes'
  BY DEF SheetInv, SheetTypes
<1>2. pinMap(page) \subseteq pinMap(page')
  BY CoversPins
<1>3. NamesApart'
  BY DEF SheetInv, NamesApart
<1>4. WiresAnchored'
  BY <1>2 DEF SheetInv, WiresAnchored, Anchored
<1>5. OneDriver'
  BY DEF SheetInv, OneDriver, SingleDriven
<1>6. DraftJoins'
  BY <1>2 DEF SheetInv, DraftJoins
<1>7. DragInPlace'
  BY DEF SheetInv, SheetTypes, DragInPlace, Covers, Stay, Selection
<1>8. QED
  BY <1>1, <1>3, <1>4, <1>5, <1>6, <1>7 DEF SheetInv

(* Steps of the pointer and of the selection only. *)
LEMMA PointerStep ==
  ASSUME SheetInv, UNCHANGED <<page, former, blame>>, sel' \in Selection,
         drag' \in Selection, DraftJoins', DragInPlace',
         draft' \in [on : BOOLEAN, from : SUBSET PinPoint, target : SUBSET PinPoint]
  PROVE  SheetInv'
<1>1. SheetTypes'
  BY DEF SheetInv, SheetTypes
<1>2. NamesApart' /\ WiresAnchored' /\ OneDriver'
  BY DEF SheetInv, NamesApart, WiresAnchored, OneDriver
<1>3. QED
  BY <1>1, <1>2 DEF SheetInv

LEMMA StayFacts ==
  ASSUME NEW s, NEW t
  PROVE  /\ Stay(s, s)
         /\ InPlace(s, t) => Stay(s, t)
BY DEF Stay, InPlace

(* The names of the nodes and of the ports, and the two of them counted. *)
LEMMA NamesFinite ==
  ASSUME NEW d \in PageDoc
  PROVE  IsFiniteSet(NodeIds(d)) /\ IsFiniteSet(PortNames(d))
<1>1. IsFiniteSet(Ids(d.blocks)) /\ IsFiniteSet(Ids(d.constants))
  BY DocParts, IdsCount
<1>2. \A a \in Dirs : IsFiniteSet(Ids(d.interface[a]))
  BY DocParts, IdsCount
<1>3. IsFiniteSet((Ids(d.interface["input"]) \cup Ids(d.interface["output"]))
                    \cup Ids(d.interface["in_out"]))
  BY <1>2, FS_Union DEF Dirs
<1>4. PortNames(d) = (Ids(d.interface["input"]) \cup Ids(d.interface["output"]))
                       \cup Ids(d.interface["in_out"])
  BY DEF PortNames, Dirs
<1>5. QED
  BY <1>1, <1>3, <1>4, FS_Union DEF NodeIds

LEMMA SelectedIs ==
  ASSUME NEW kind \in {"block", "constant", "port", "wire"}, NEW dir \in Dirs,
         NEW id \in Name, NEW i \in Nat
  PROVE  Selected(kind, dir, id, i) \in Selection
BY DEF Selected, Selection

LEMMA UnselectedIs == Unselected \in Selection /\ Unnamed \in Name /\ Unselected.kind = "none"
BY DEF Unselected, Unnamed, Selection, Dirs, Name, Text

(* A generated name is a name, and not that of the interface. *)
LEMMA NewName ==
  ASSUME NEW taken, IsFiniteSet(taken), NEW stem \in Text
  PROVE  uniqueId(taken, stem) \in Name \ {INTERFACE} /\ uniqueId(taken, stem) \notin taken
<1>1. PICK n \in Nat \ {0} : uniqueId(taken, stem) = <<stem, n>>
  BY UniqueIdFresh
<1>2. <<stem, n>> \in Name /\ <<stem, n>> # INTERFACE
  BY DEF Name, INTERFACE
<1>3. QED
  BY <1>1, <1>2, UniqueIdFresh

LEMMA CreatedIs ==
  ASSUME NEW kind \in {"block", "constant", "port"}, NEW dir \in Dirs, NEW id \in Name,
         SelectCreated(kind, dir, id)
  PROVE  sel' \in Selection
BY SelectedIs, UnselectedIs DEF SelectCreated

LEMMA PageIs == ASSUME SheetInv PROVE page \in PageDoc
BY DEF SheetInv, SheetTypes

LEMMA DropBlockStep ==
  ASSUME SheetInv, NEW type \in DOMAIN Library, dropBlock(type)
  PROVE  SheetInv'
<1> DEFINE id == uniqueId(NodeIds(page), type)
           x  == [id |-> id, type |-> type, look |-> 0]
           s  == Append(page.blocks, x)
<1>1. id \in Name \ {INTERFACE} /\ id \notin NodeIds(page) /\ type \in Text
  BY PageIs, NamesFinite, NewName, SheetAssumption
<1>2. page' = [page EXCEPT !.blocks = s]
  BY DEF dropBlock, patch
<1>3. SelectCreated("block", "input", id) /\ UNCHANGED <<drag, draft, former, blame>>
  BY DEF dropBlock
<1> HIDE DEF id
<1>4. x \in Block /\ x.id = id
  BY <1>1 DEF Block, Looks
<1> HIDE DEF x
<1>5. page.blocks \in Seq(Block)
  BY PageIs, DocParts
<1>6. /\ s \in Seq(Block) /\ Ids(s) = Ids(page.blocks) \cup {id}
      /\ Apart(page.blocks) /\ id \notin Ids(page.blocks) => Apart(s)
      /\ \A i \in DOMAIN page.blocks : i \in DOMAIN s /\ s[i] = page.blocks[i]
  BY <1>4, <1>5, AppendApart
<1> HIDE DEF s
<1>7. /\ page' \in PageDoc /\ page'.blocks = s /\ page'.constants = page.constants
      /\ page'.interface = page.interface /\ page'.connections = page.connections
  BY <1>2, <1>6, PageIs, PutBlocks
<1>8. Covers(page, page')
  BY <1>6, <1>7, StayFacts DEF Covers, Stay
<1>9. NamedApart(page) => NamedApart(page')
  BY <1>1, <1>6, <1>7 DEF NamedApart, NodeIds
<1>10. sel' \in Selection
  BY <1>1, <1>3, CreatedIs DEF Dirs
<1>11. QED
  BY <1>3, <1>7, <1>8, <1>9, <1>10, CoverStep

LEMMA AddConstantStep == ASSUME SheetInv, addConstant PROVE SheetInv'
<1> DEFINE id == uniqueId(NodeIds(page), "k")
           x  == [id |-> id, look |-> 0]
           s  == Append(page.constants, x)
<1>1. id \in Name \ {INTERFACE} /\ id \notin NodeIds(page)
  BY PageIs, NamesFinite, NewName DEF Text
<1>2. page' = [page EXCEPT !.constants = s]
  BY DEF addConstant, patch
<1>3. SelectCreated("constant", "input", id) /\ UNCHANGED <<drag, draft, former, blame>>
  BY DEF addConstant
<1> HIDE DEF id
<1>4. x \in Constant /\ x.id = id
  BY <1>1 DEF Constant, Looks
<1> HIDE DEF x
<1>5. page.constants \in Seq(Constant)
  BY PageIs, DocParts
<1>6. /\ s \in Seq(Constant) /\ Ids(s) = Ids(page.constants) \cup {id}
      /\ Apart(page.constants) /\ id \notin Ids(page.constants) => Apart(s)
      /\ \A i \in DOMAIN page.constants : i \in DOMAIN s /\ s[i] = page.constants[i]
  BY <1>4, <1>5, AppendApart
<1> HIDE DEF s
<1>7. /\ page' \in PageDoc /\ page'.constants = s /\ page'.blocks = page.blocks
      /\ page'.interface = page.interface /\ page'.connections = page.connections
  BY <1>2, <1>6, PageIs, PutConstants
<1>8. Covers(page, page')
  BY <1>6, <1>7, StayFacts DEF Covers, Stay
<1>9. NamedApart(page) => NamedApart(page')
  BY <1>1, <1>6, <1>7 DEF NamedApart, NodeIds
<1>10. sel' \in Selection
  BY <1>1, <1>3, CreatedIs DEF Dirs
<1>11. QED
  BY <1>3, <1>7, <1>8, <1>9, <1>10, CoverStep

LEMMA AddPortStep ==
  ASSUME SheetInv, NEW a \in Dirs, NEW name \in Name \ PortNames(page), AddPort(a, name),
         sel' \in Selection
  PROVE  SheetInv'
<1> DEFINE x == [id |-> name, look |-> 0]
           s == Append(page.interface[a], x)
<1>1. page' = [page EXCEPT !.interface[a] = s]
  BY DEF AddPort, patch
<1>2. x \in Port /\ x.id = name
  BY DEF Port, Looks
<1> HIDE DEF x
<1>3. page.interface[a] \in Seq(Port)
  BY PageIs, DocParts
<1>4. /\ s \in Seq(Port) /\ Ids(s) = Ids(page.interface[a]) \cup {name}
      /\ Apart(page.interface[a]) /\ name \notin Ids(page.interface[a]) => Apart(s)
      /\ \A i \in DOMAIN page.interface[a] : i \in DOMAIN s /\ s[i] = page.interface[a][i]
  BY <1>2, <1>3, AppendApart
<1> HIDE DEF s
<1>5. /\ page' \in PageDoc /\ page'.constants = page.constants /\ page'.blocks = page.blocks
      /\ page'.interface[a] = s /\ page'.connections = page.connections
      /\ \A b \in Dirs \ {a} : page'.interface[b] = page.interface[b]
  BY <1>1, <1>4, PageIs, PutPorts
<1>6. Covers(page, page')
  <2>1. \A b \in Dirs : Stay(page.interface[b], page'.interface[b])
    BY <1>4, <1>5 DEF Stay
  <2>2. QED
    BY <1>5, <2>1 DEF Covers, Stay
<1>7. \A b \in Dirs : name \notin Ids(page.interface[b])
  BY DEF PortNames
<1>8. NamedApart(page) => NamedApart(page')
  <2>1. \A b \in Dirs : Apart(page.interface[b]) => Apart(page'.interface[b])
    BY <1>4, <1>5, <1>7
  <2>2. \A b \in Dirs : \A n \in Ids(page'.interface[b]) :
          n \in Ids(page.interface[b]) \/ (b = a /\ n = name)
    BY <1>4, <1>5
  <2>3. ASSUME NamedApart(page), NEW b \in Dirs, NEW c \in Dirs, b # c
        PROVE  Ids(page'.interface[b]) \cap Ids(page'.interface[c]) = {}
    BY <1>7, <2>2, <2>3 DEF NamedApart
  <2>4. QED
    BY <1>5, <2>1, <2>3 DEF NamedApart
<1>9. UNCHANGED <<drag, draft, former, blame>>
  BY DEF AddPort
<1>10. QED
  BY <1>5, <1>6, <1>8, <1>9, CoverStep

LEMMA AddPortsStep ==
  ASSUME SheetInv,
         (\E dir \in Dirs : addNewPort(dir))
           \/ (\E dir \in Dirs, name \in Points : addOfferedPort(dir, name))
  PROVE  SheetInv'
<1>1. ASSUME NEW dir \in Dirs, addNewPort(dir) PROVE SheetInv'
  <2> DEFINE name == uniqueId(PortNames(page), "var")
  <2>1. name \in Name \ PortNames(page)
    BY PageIs, NamesFinite, NewName DEF Text
  <2>2. AddPort(dir, name) /\ SelectCreated("port", dir, name)
    BY <1>1 DEF addNewPort
  <2> HIDE DEF name
  <2>3. QED
    BY <2>1, <2>2, CreatedIs, AddPortStep
<1>2. ASSUME NEW dir \in Dirs, NEW name \in Points, addOfferedPort(dir, name)
      PROVE  SheetInv'
  <2>1. name \in Name \ PortNames(page) /\ AddPort(dir, name)
    BY <1>2, SheetAssumption DEF addOfferedPort, Offered
  <2>2. sel' \in Selection
    BY <1>2, <2>1, SelectedIs DEF addOfferedPort
  <2>3. QED
    BY <2>1, <2>2, AddPortStep
<1>3. QED
  BY <1>1, <1>2

(* A list replaced in place. *)
LEMMA PutInPlace ==
  ASSUME SheetInv, UNCHANGED <<drag, draft, former, blame>>, sel' \in Selection,
         \/ \E s \in Seq(Block) : /\ page' = [page EXCEPT !.blocks = s]
                                  /\ InPlace(page.blocks, s)
                                  /\ \A i \in DOMAIN s : s[i].type = page.blocks[i].type
         \/ \E s \in Seq(Constant) : /\ page' = [page EXCEPT !.constants = s]
                                     /\ InPlace(page.constants, s)
         \/ \E a \in Dirs : \E s \in Seq(Port) :
              page' = [page EXCEPT !.interface[a] = s] /\ InPlace(page.interface[a], s)
  PROVE  SheetInv'
<1>1. ASSUME NEW s \in Seq(Block), page' = [page EXCEPT !.blocks = s],
             InPlace(page.blocks, s), \A i \in DOMAIN s : s[i].type = page.blocks[i].type
      PROVE  SheetInv'
  <2>1. /\ page' \in PageDoc /\ page'.blocks = s /\ page'.constants = page.constants
        /\ page'.interface = page.interface /\ page'.connections = page.connections
    BY <1>1, PageIs, PutBlocks
  <2>2. Covers(page, page')
    BY <1>1, <2>1, StayFacts DEF Covers, InPlace
  <2>3. NamedApart(page) => NamedApart(page')
    BY <1>1, <2>1, InPlaceApart DEF NamedApart
  <2>4. QED
    BY <2>1, <2>2, <2>3, CoverStep
<1>2. ASSUME NEW s \in Seq(Constant), page' = [page EXCEPT !.constants = s],
             InPlace(page.constants, s)
      PROVE  SheetInv'
  <2>1. /\ page' \in PageDoc /\ page'.blocks = page.blocks /\ page'.constants = s
        /\ page'.interface = page.interface /\ page'.connections = page.connections
    BY <1>2, PageIs, PutConstants
  <2>2. Covers(page, page')
    BY <1>2, <2>1, StayFacts DEF Covers
  <2>3. NamedApart(page) => NamedApart(page')
    BY <1>2, <2>1, InPlaceApart DEF NamedApart
  <2>4. QED
    BY <2>1, <2>2, <2>3, CoverStep
<1>3. ASSUME NEW a \in Dirs, NEW s \in Seq(Port), page' = [page EXCEPT !.interface[a] = s],
             InPlace(page.interface[a], s)
      PROVE  SheetInv'
  <2>1. /\ page' \in PageDoc /\ page'.constants = page.constants /\ page'.blocks = page.blocks
        /\ page'.interface[a] = s /\ page'.connections = page.connections
        /\ \A b \in Dirs \ {a} : page'.interface[b] = page.interface[b]
    BY <1>3, PageIs, PutPorts
  <2>2. \A b \in Dirs : Stay(page.interface[b], page'.interface[b])
    BY <1>3, <2>1, StayFacts
  <2>3. Covers(page, page')
    BY <2>1, <2>2, StayFacts DEF Covers
  <2>4. \A b \in Dirs : /\ Ids(page'.interface[b]) = Ids(page.interface[b])
                        /\ Apart(page.interface[b]) => Apart(page'.interface[b])
    BY <1>3, <2>1, InPlaceApart
  <2>5. NamedApart(page) => NamedApart(page')
    BY <2>1, <2>4 DEF NamedApart
  <2>6. QED
    BY <2>1, <2>3, <2>5, CoverStep
<1>4. QED
  BY <1>1, <1>2, <1>3

LEMMA PatchSelectedStep ==
  ASSUME SheetInv, NEW look \in Looks, patchSelected(look)
  PROVE  SheetInv'
<1>1. UNCHANGED <<sel, drag, draft, former, blame>> /\ sel \in Selection
  BY DEF patchSelected, SheetInv, SheetTypes
<1>2. sel.dir \in Dirs
  BY <1>1 DEF Selection
<1>3. CASE patch([page EXCEPT !.blocks = Restyled(@, sel.id, look)])
  <2> DEFINE s == Restyled(page.blocks, sel.id, look)
  <2>1. page.blocks \in Seq(Block)
    BY PageIs, DocParts
  <2>2. /\ s \in Seq(Block) /\ InPlace(page.blocks, s)
        /\ \A i \in DOMAIN page.blocks : s[i].type = page.blocks[i].type
    BY <2>1, RestyledInPlace
  <2>3. page' = [page EXCEPT !.blocks = s]
    BY <1>3 DEF patch
  <2> HIDE DEF s
  <2>4. QED
    BY <1>1, <2>2, <2>3, PutInPlace DEF InPlace
<1>4. CASE patch([page EXCEPT !.constants = Restyled(@, sel.id, look)])
  <2> DEFINE s == Restyled(page.constants, sel.id, look)
  <2>1. page.constants \in Seq(Constant)
    BY PageIs, DocParts
  <2>2. s \in Seq(Constant) /\ InPlace(page.constants, s)
    BY <2>1, RestyledInPlace
  <2>3. page' = [page EXCEPT !.constants = s]
    BY <1>4 DEF patch
  <2> HIDE DEF s
  <2>4. QED
    BY <1>1, <2>2, <2>3, PutInPlace
<1>5. CASE patch([page EXCEPT !.interface[sel.dir] = Restyled(@, sel.id, look)])
  <2> DEFINE s == Restyled(page.interface[sel.dir], sel.id, look)
  <2>1. page.interface[sel.dir] \in Seq(Port)
    BY <1>2, PageIs, DocParts
  <2>2. s \in Seq(Port) /\ InPlace(page.interface[sel.dir], s)
    BY <2>1, RestyledInPlace
  <2>3. page' = [page EXCEPT !.interface[sel.dir] = s]
    BY <1>5 DEF patch
  <2> HIDE DEF s
  <2>4. QED
    BY <1>1, <1>2, <2>2, <2>3, PutInPlace
<1>6. QED
  BY <1>3, <1>4, <1>5 DEF patchSelected

(* What a pointer move does to the page. *)
LEMMA MovedIs ==
  ASSUME page \in PageDoc, drag \in Selection, NEW look \in Looks
  PROVE  \/ /\ drag.kind = "port"
            /\ \E s \in Seq(Port) :
                 /\ s = AtIndex(page.interface[drag.dir], drag.index, look)
                 /\ Moved(look) = [page EXCEPT !.interface[drag.dir] = s]
                 /\ InPlace(page.interface[drag.dir], s)
         \/ /\ drag.kind = "constant"
            /\ \E s \in Seq(Constant) :
                 /\ s = Restyled(page.constants, drag.id, look)
                 /\ Moved(look) = [page EXCEPT !.constants = s]
                 /\ InPlace(page.constants, s)
         \/ /\ drag.kind \notin {"port", "constant"}
            /\ \E s \in Seq(Block) :
                 /\ s = Restyled(page.blocks, drag.id, look)
                 /\ Moved(look) = [page EXCEPT !.blocks = s]
                 /\ InPlace(page.blocks, s)
                 /\ \A i \in DOMAIN s : s[i].type = page.blocks[i].type
<1>1. drag.dir \in Dirs
  BY DEF Selection
<1>2. CASE drag.kind = "port"
  <2> DEFINE s == AtIndex(page.interface[drag.dir], drag.index, look)
  <2>1. page.interface[drag.dir] \in Seq(Port)
    BY <1>1, DocParts
  <2>2. s \in Seq(Port) /\ InPlace(page.interface[drag.dir], s)
    BY <2>1, AtIndexInPlace
  <2>3. Moved(look) = [page EXCEPT !.interface[drag.dir] = s]
    BY <1>2 DEF Moved
  <2> HIDE DEF s
  <2>4. QED
    BY <1>2, <2>2, <2>3 DEF s
<1>3. CASE drag.kind = "constant"
  <2> DEFINE s == Restyled(page.constants, drag.id, look)
  <2>1. page.constants \in Seq(Constant)
    BY DocParts
  <2>2. s \in Seq(Constant) /\ InPlace(page.constants, s)
    BY <2>1, RestyledInPlace
  <2>3. Moved(look) = [page EXCEPT !.constants = s]
    BY <1>3 DEF Moved
  <2> HIDE DEF s
  <2>4. QED
    BY <1>3, <2>2, <2>3 DEF s
<1>4. CASE drag.kind \notin {"port", "constant"}
  <2> DEFINE s == Restyled(page.blocks, drag.id, look)
  <2>1. page.blocks \in Seq(Block)
    BY DocParts
  <2>2. /\ s \in Seq(Block) /\ InPlace(page.blocks, s)
        /\ \A i \in DOMAIN page.blocks : s[i].type = page.blocks[i].type
    BY <2>1, RestyledInPlace
  <2>3. Moved(look) = [page EXCEPT !.blocks = s]
    BY <1>4 DEF Moved
  <2> HIDE DEF s
  <2>4. QED
    BY <1>4, <2>2, <2>3 DEF s, InPlace
<1>5. QED
  BY <1>2, <1>3, <1>4

LEMMA MoveElementStep ==
  ASSUME SheetInv, NEW look \in Looks, moveElement(look)
  PROVE  SheetInv'
<1>1. /\ UNCHANGED <<sel, drag, draft, former, blame>> /\ sel \in Selection
      /\ drag \in Selection /\ drag.dir \in Dirs /\ page' = Moved(look)
  BY DEF moveElement, patch, SheetInv, SheetTypes, Selection
<1>2. QED
  BY <1>1, PageIs, MovedIs, PutInPlace

-----------------------------------------------------------------------------
(* Steps that take elements or names away. *)

(* Such a step during a gesture is on record; otherwise there is no gesture. *)
LEMMA CutStep ==
  ASSUME SheetInv, page' \in PageDoc, sel' \in Selection, former' \in SUBSET Name,
         blame' \in SUBSET {"collided", "reloaded", "cut", "crossed"},
         ~Free => "cut" \in blame', UNCHANGED <<drag, draft>>,
         NamesApart', WiresAnchored', OneDriver'
  PROVE  SheetInv'
<1>1. SheetTypes'
  BY DEF SheetInv, SheetTypes
<1>2. blame' = {} => ~draft.on /\ drag.kind = "none"
  BY DEF Free
<1>3. DragInPlace'
  BY <1>2 DEF DragInPlace
<1>4. DraftJoins'
  <2>1. ~draft.on => draft = NoDraft
    BY DEF SheetInv, DraftJoins
  <2>2. blame' = {} => draft.from \cup draft.target = {}
    BY <1>2, <2>1 DEF NoDraft
  <2>3. QED
    BY <2>1, <2>2 DEF SheetInv, DraftJoins
<1>5. QED
  BY <1>1, <1>3, <1>4 DEF SheetInv

LEMMA WithoutIs ==
  ASSUME NEW S, NEW s \in Seq(S), NEW id
  PROVE  /\ Without(s, id) \in Seq(S)
         /\ Ids(Without(s, id)) \subseteq Ids(s)
         /\ Apart(s) => Apart(Without(s, id))
         /\ \A i \in DOMAIN s : s[i].id # id =>
              \E n \in DOMAIN Without(s, id) : Without(s, id)[n] = s[i]
<1> DEFINE K == {i \in DOMAIN s : s[i].id # id}
<1>1. K \in SUBSET DOMAIN s /\ \A i \in DOMAIN s : s[i].id # id => i \in K
  OBVIOUS
<1>2. Without(s, id) = Kept(s, K)
  BY DEF Without
<1> HIDE DEF K
<1>3. {s[k].id : k \in K} \subseteq Ids(s)
  BY <1>1 DEF Ids
<1>4. QED
  BY <1>1, <1>2, <1>3, KeptElements, KeptApart

LEMMA DeletedIs ==
  ASSUME SheetInv
  PROVE  /\ deleteSelection \in PageDoc
         /\ deleteSelection.blocks =
              IF sel.kind = "block" THEN Without(page.blocks, sel.id) ELSE page.blocks
         /\ deleteSelection.constants =
              IF sel.kind = "constant" THEN Without(page.constants, sel.id)
              ELSE page.constants
         /\ \A a \in Dirs : deleteSelection.interface[a] =
              IF sel.kind = "port" /\ sel.dir = a THEN Without(page.interface[a], sel.id)
              ELSE page.interface[a]
         /\ deleteSelection.connections = WiresKept
<1>1. /\ page.blocks \in Seq(Block) /\ page.constants \in Seq(Constant)
      /\ \A a \in Dirs : page.interface[a] \in Seq(Port)
      /\ page.connections \in Seq(Connection)
  BY PageIs, DocParts
<1>2. /\ Without(page.blocks, sel.id) \in Seq(Block)
      /\ Without(page.constants, sel.id) \in Seq(Constant)
      /\ \A a \in Dirs : Without(page.interface[a], sel.id) \in Seq(Port)
  BY <1>1, WithoutIs
<1>3. WiresKept \in Seq(Connection)
  BY <1>1, KeptElements DEF WiresKept
<1> HIDE DEF Without, WiresKept
<1>4. QED
  BY <1>1, <1>2, <1>3 DEF deleteSelection, PageDoc

(* A pin that is not of the deleted element is still there. *)
LEMMA PinSurvives ==
  ASSUME SheetInv, NEW e, NEW p \in pinMap(page), e.block = p.block, e.port = p.port,
         ~Gone(e)
  PROVE  p \in pinMap(deleteSelection)
<1> DEFINE d == deleteSelection
<1>1. page.blocks \in Seq(Block) /\ page.constants \in Seq(Constant)
      /\ \A a \in Dirs : page.interface[a] \in Seq(Port)
  BY PageIs, DocParts
<1>2. CASE \E i \in DOMAIN page.blocks : p \in BlockPins(page.blocks[i])
  <2>1. PICK i \in DOMAIN page.blocks : p \in BlockPins(page.blocks[i])
    BY <1>2
  <2>2. page.blocks[i] \in Block
    BY <1>1
  <2>3. p.block = page.blocks[i].id
    BY <2>1, <2>2, BlockPinIs
  <2>4. \E n \in DOMAIN d.blocks : d.blocks[n] = page.blocks[i]
    BY <1>1, <2>3, DeletedIs, WithoutIs DEF Gone
  <2> HIDE DEF d
  <2>5. p \in pinMap(d)
    BY <2>1, <2>4, PinsAre DEF NodePin
  <2>6. QED
    BY <2>5 DEF d
<1>3. CASE \E i \in DOMAIN page.constants : p = Pin(page.constants[i].id, "OUT", "output")
  <2>1. PICK i \in DOMAIN page.constants : p = Pin(page.constants[i].id, "OUT", "output")
    BY <1>3
  <2>2. p.block = page.constants[i].id
    BY <2>1 DEF Pin
  <2>3. \E n \in DOMAIN d.constants : d.constants[n] = page.constants[i]
    BY <1>1, <2>2, DeletedIs, WithoutIs DEF Gone
  <2> HIDE DEF d
  <2>4. p \in pinMap(d)
    BY <2>1, <2>3, PinsAre DEF NodePin
  <2>5. QED
    BY <2>4 DEF d
<1>4. CASE PortPin(page, p)
  <2>1. PICK a \in Dirs : \E i \in DOMAIN page.interface[a] :
          \/ a # "output" /\ p = Pin(INTERFACE, page.interface[a][i].id, "output")
          \/ a # "input"  /\ p = Pin(INTERFACE, page.interface[a][i].id, "input")
    BY <1>4 DEF PortPin
  <2>2. PICK i \in DOMAIN page.interface[a] :
          \/ a # "output" /\ p = Pin(INTERFACE, page.interface[a][i].id, "output")
          \/ a # "input"  /\ p = Pin(INTERFACE, page.interface[a][i].id, "input")
    BY <2>1
  <2>3. p.block = INTERFACE /\ p.port = page.interface[a][i].id
    BY <2>2 DEF Pin
  <2>4. \E n \in DOMAIN d.interface[a] : d.interface[a][n] = page.interface[a][i]
    <3>1. page.interface[a] \in Seq(Port)
      BY <1>1
    <3>2. CASE sel.kind = "port" /\ sel.dir = a
      <4>1. d.interface[a] = Without(page.interface[a], sel.id)
        BY <3>2, DeletedIs
      <4>2. page.interface[a][i].id # sel.id
        BY <2>3, <3>2 DEF Gone
      <4>3. QED
        BY <3>1, <4>1, <4>2, WithoutIs
    <3>3. CASE ~(sel.kind = "port" /\ sel.dir = a)
      BY <3>3, DeletedIs
    <3>4. QED
      BY <3>2, <3>3
  <2> HIDE DEF d
  <2>5. PortPin(d, p)
    BY <2>2, <2>4 DEF PortPin
  <2>6. p \in pinMap(d)
    BY <2>5, PinsAre
  <2>7. QED
    BY <2>6 DEF d
<1>5. QED
  BY <1>2, <1>3, <1>4, PinsAre DEF NodePin

LEMMA RemoveSelectionStep == ASSUME SheetInv, removeSelection PROVE SheetInv'
<1> DEFINE d == deleteSelection
<1>1. /\ page' = d /\ sel' = Unselected /\ UNCHANGED <<drag, draft, former>>
      /\ blame \subseteq blame' /\ blame' \subseteq blame \cup {"cut"}
      /\ ~Free => "cut" \in blame'
  BY DEF removeSelection, patch
<1>2. /\ page.blocks \in Seq(Block) /\ page.constants \in Seq(Constant)
      /\ \A a \in Dirs : page.interface[a] \in Seq(Port)
      /\ page.connections \in Seq(Connection)
  BY PageIs, DocParts
<1>3. NamedApart(page) => NamedApart(d)
  <2>1. /\ Ids(d.blocks) \subseteq Ids(page.blocks)
        /\ Apart(page.blocks) => Apart(d.blocks)
    BY <1>2, DeletedIs, WithoutIs
  <2>2. /\ Ids(d.constants) \subseteq Ids(page.constants)
        /\ Apart(page.constants) => Apart(d.constants)
    BY <1>2, DeletedIs, WithoutIs
  <2>3. ASSUME NEW a \in Dirs
        PROVE  /\ Ids(d.interface[a]) \subseteq Ids(page.interface[a])
               /\ Apart(page.interface[a]) => Apart(d.interface[a])
    <3>1. page.interface[a] \in Seq(Port)
      BY <1>2
    <3>2. \/ d.interface[a] = Without(page.interface[a], sel.id)
          \/ d.interface[a] = page.interface[a]
      BY DeletedIs
    <3> HIDE DEF d
    <3>3. QED
      BY <3>1, <3>2, WithoutIs
  <2> HIDE DEF d
  <2>4. QED
    BY <2>1, <2>2, <2>3 DEF NamedApart
<1> DEFINE Stays(i) == IF sel.kind = "wire" THEN i # sel.index
                       ELSE /\ ~Gone(page.connections[i].from)
                            /\ ~Gone(page.connections[i].to)
           K == {i \in DOMAIN page.connections : Stays(i)}
<1>4. d.connections = Kept(page.connections, K) /\ K \in SUBSET DOMAIN page.connections
  BY DeletedIs DEF WiresKept
<1>5. \A k \in K : ~Gone(page.connections[k].from) /\ ~Gone(page.connections[k].to)
  BY DEF Gone
<1> HIDE DEF d, K
<1>6. SingleDriven(page) => SingleDriven(d)
  BY <1>2, <1>4, KeptSingle DEF SingleDriven
<1>7. ASSUME Anchored(page, former) PROVE Anchored(d, former)
  <2>1. SUFFICES ASSUME NEW n \in DOMAIN d.connections
        PROVE  LET w == d.connections[n] IN
               /\ Pin(w.from.block, w.from.port, "output") \in pinMap(d)
                    \/ w.from.block \in former
               /\ Pin(w.to.block, w.to.port, "input") \in pinMap(d)
                    \/ w.to.block \in former
    BY DEF Anchored
  <2>2. PICK k \in K : d.connections[n] = page.connections[k]
    BY <1>2, <1>4, <2>1, KeptElements
  <2>3. k \in DOMAIN page.connections
    BY <1>4
  <2> DEFINE w == page.connections[k]
             a == Pin(w.from.block, w.from.port, "output")
             b == Pin(w.to.block, w.to.port, "input")
  <2>4. /\ a \in pinMap(page) \/ w.from.block \in former
        /\ b \in pinMap(page) \/ w.to.block \in former
    BY <1>7, <2>3 DEF Anchored
  <2>5. /\ a.block = w.from.block /\ a.port = w.from.port
        /\ b.block = w.to.block /\ b.port = w.to.port
    BY DEF Pin
  <2>6. ~Gone(w.from) /\ ~Gone(w.to)
    BY <1>5
  <2>7. a \in pinMap(page) => a \in pinMap(d)
    BY <2>5, <2>6, PinSurvives DEF d
  <2>8. b \in pinMap(page) => b \in pinMap(d)
    BY <2>5, <2>6, PinSurvives DEF d
  <2>9. QED
    BY <2>2, <2>4, <2>7, <2>8
<1>8. NamesApart' /\ WiresAnchored' /\ OneDriver'
  BY <1>1, <1>3, <1>6, <1>7 DEF SheetInv, NamesApart, WiresAnchored, OneDriver
<1>9. d \in PageDoc /\ sel' \in Selection
  BY <1>1, DeletedIs, UnselectedIs DEF d
<1>10. former' \in SUBSET Name /\ blame' \in SUBSET {"collided", "reloaded", "cut", "crossed"}
  BY <1>1 DEF SheetInv, SheetTypes
<1>11. QED
  BY <1>1, <1>8, <1>9, <1>10, CutStep

(* A rename: the element of that id gets the new one, the others stay. *)
LEMMA RenamedIs ==
  ASSUME NEW S \in {Block, Constant, Port}, NEW s \in Seq(S), NEW old, NEW new,
         new \in Name, S = Port \/ new # INTERFACE
  PROVE  /\ Renamed(s, old, new) \in Seq(S)
         /\ DOMAIN Renamed(s, old, new) = DOMAIN s
         /\ \A i \in DOMAIN s :
              /\ s[i].id = old => Renamed(s, old, new)[i].id = new
              /\ s[i].id # old => Renamed(s, old, new)[i] = s[i]
              /\ S = Block => Renamed(s, old, new)[i].type = s[i].type
         /\ \A n \in Ids(Renamed(s, old, new)) : n = new \/ (n # old /\ n \in Ids(s))
         /\ Apart(s) /\ new \notin Ids(s) => Apart(Renamed(s, old, new))
<1> DEFINE t == Renamed(s, old, new)
<1>1. /\ DOMAIN t = DOMAIN s
      /\ \A i \in DOMAIN s : t[i] = IF s[i].id = old THEN [s[i] EXCEPT !.id = new] ELSE s[i]
  BY DEF Renamed
<1>2. t = [i \in 1 .. Len(s) |-> t[i]]
  BY DEF Renamed
<1> HIDE DEF t
<1>3. ASSUME NEW x \in S
      PROVE  /\ [x EXCEPT !.id = new] \in S
             /\ [x EXCEPT !.id = new].id = new
             /\ S = Block => [x EXCEPT !.id = new].type = x.type
  <2>1. CASE S = Port
    BY <2>1 DEF Port
  <2>2. CASE S = Block
    BY <2>1, <2>2 DEF Block
  <2>3. CASE S = Constant
    BY <2>1, <2>3 DEF Constant
  <2>4. S = Block => [x EXCEPT !.id = new].type = x.type
    BY DEF Block
  <2>5. QED
    BY <2>1, <2>2, <2>3, <2>4
<1>4. ASSUME NEW i \in DOMAIN s
      PROVE  /\ t[i] \in S
             /\ s[i].id = old => t[i].id = new
             /\ s[i].id # old => t[i] = s[i]
             /\ S = Block => t[i].type = s[i].type
  <2>1. s[i] \in S
    OBVIOUS
  <2>2. QED
    BY <1>1, <1>3, <2>1
<1>5. t \in Seq(S)
  BY <1>2, <1>4, MappedSeq
<1>6. \A n \in Ids(t) : n = new \/ (n # old /\ n \in Ids(s))
  BY <1>1, <1>4 DEF Ids
<1>7. Apart(s) /\ new \notin Ids(s) => Apart(t)
  BY <1>1, <1>4 DEF Apart, Ids
<1>8. QED
  BY <1>1, <1>4, <1>5, <1>6, <1>7 DEF t

LEMMA NodeNames ==
  ASSUME SheetInv
  PROVE  NodeIds(page) \subseteq Name \ {INTERFACE} /\ PortNames(page) \subseteq Name
<1>1. \A i \in DOMAIN page.blocks : page.blocks[i].id \in Name \ {INTERFACE}
  <2>1. \A i \in DOMAIN page.blocks : page.blocks[i] \in Block
    BY PageIs, DocParts
  <2>2. QED
    BY <2>1 DEF Block
<1>2. \A i \in DOMAIN page.constants : page.constants[i].id \in Name \ {INTERFACE}
  <2>1. \A i \in DOMAIN page.constants : page.constants[i] \in Constant
    BY PageIs, DocParts
  <2>2. QED
    BY <2>1 DEF Constant
<1>3. ASSUME NEW a \in Dirs, NEW i \in DOMAIN page.interface[a]
      PROVE  page.interface[a][i].id \in Name
  <2>1. page.interface[a] \in Seq(Port)
    BY PageIs, DocParts
  <2>2. page.interface[a][i] \in Port
    BY <2>1
  <2>3. QED
    BY <2>2 DEF Port
<1>4. QED
  BY <1>1, <1>2, <1>3 DEF NodeIds, PortNames, Ids

LEMMA TypedName == <<"typed", 1>> \in Name \ {INTERFACE}
BY DEF Name, Text, INTERFACE

LEMMA CollideIs ==
  ASSUME SheetInv, NEW taken, NEW new
  PROVE  /\ blame \subseteq Collide(taken, new)
         /\ Collide(taken, new) \subseteq blame \cup {"collided", "cut"}
         /\ ~Free => "cut" \in Collide(taken, new)
         /\ new \in taken => "collided" \in Collide(taken, new)
BY DEF Collide

LEMMA RenameBlockStep ==
  ASSUME SheetInv, NEW new \in Typed(NodeIds(page)), renameBlock(new)
  PROVE  SheetInv'
<1> DEFINE s == Renamed(page.blocks, sel.id, new)
<1>1. /\ page' = [page EXCEPT !.blocks = s] /\ former' = former \cup {sel.id}
      /\ blame' = Collide(NodeIds(page), new) /\ UNCHANGED <<sel, drag, draft>>
  BY DEF renameBlock, patch
<1>2. new \in Name \ {INTERFACE}
  BY NodeNames, TypedName DEF Typed
<1>3. page.blocks \in Seq(Block)
  BY PageIs, DocParts
<1>4. /\ s \in Seq(Block) /\ DOMAIN s = DOMAIN page.blocks
      /\ \A i \in DOMAIN page.blocks : page.blocks[i].id # sel.id => s[i] = page.blocks[i]
      /\ \A n \in Ids(s) : n = new \/ n \in Ids(page.blocks)
      /\ Apart(page.blocks) /\ new \notin Ids(page.blocks) => Apart(s)
  BY <1>2, <1>3, RenamedIs
<1> HIDE DEF s
<1>5. /\ page' \in PageDoc /\ page'.blocks = s /\ page'.constants = page.constants
      /\ page'.interface = page.interface /\ page'.connections = page.connections
  BY <1>1, <1>4, PageIs, PutBlocks
<1>6. NamedApart(page) /\ new \notin NodeIds(page) => NamedApart(page')
  BY <1>4, <1>5 DEF NamedApart, NodeIds
<1>7. ASSUME NEW p \in pinMap(page), p.block # sel.id PROVE p \in pinMap(page')
  <2>1. CASE \E i \in DOMAIN page.blocks : p \in BlockPins(page.blocks[i])
    <3>1. PICK i \in DOMAIN page.blocks : p \in BlockPins(page.blocks[i])
      BY <2>1
    <3>2. page.blocks[i] \in Block
      BY <1>3
    <3>3. page.blocks[i].id # sel.id
      BY <1>7, <3>1, <3>2, BlockPinIs
    <3>4. QED
      BY <1>4, <1>5, <3>1, <3>3, PinsAre DEF NodePin
  <2>2. CASE \E i \in DOMAIN page.constants : p = Pin(page.constants[i].id, "OUT", "output")
    BY <1>5, <2>2, PinsAre DEF NodePin
  <2>3. CASE PortPin(page, p)
    BY <1>5, <2>3, PinsAre DEF PortPin
  <2>4. QED
    BY <1>7, <2>1, <2>2, <2>3, PinsAre DEF NodePin
<1>8. Anchored(page, former) => Anchored(page', former')
  BY <1>1, <1>5, <1>7 DEF Anchored, Pin
<1>9. NamesApart' /\ WiresAnchored' /\ OneDriver'
  BY <1>1, <1>5, <1>6, <1>8, CollideIs
     DEF SheetInv, NamesApart, WiresAnchored, OneDriver, SingleDriven
<1>10. /\ former' \in SUBSET Name /\ sel' \in Selection
       /\ blame' \in SUBSET {"collided", "reloaded", "cut", "crossed"}
       /\ ~Free => "cut" \in blame'
  BY <1>1, CollideIs DEF SheetInv, SheetTypes, Selection
<1>11. QED
  BY <1>1, <1>5, <1>9, <1>10, CutStep

LEMMA RenameConstantStep ==
  ASSUME SheetInv, NEW new \in Typed(NodeIds(page)), renameConstant(new)
  PROVE  SheetInv'
<1> DEFINE s == Renamed(page.constants, sel.id, new)
<1>1. /\ page' = [page EXCEPT !.constants = s] /\ former' = former \cup {sel.id}
      /\ blame' = Collide(NodeIds(page), new) /\ UNCHANGED <<sel, drag, draft>>
  BY DEF renameConstant, patch
<1>2. new \in Name \ {INTERFACE}
  BY NodeNames, TypedName DEF Typed
<1>3. page.constants \in Seq(Constant)
  BY PageIs, DocParts
<1>4. /\ s \in Seq(Constant) /\ DOMAIN s = DOMAIN page.constants
      /\ \A i \in DOMAIN page.constants :
           page.constants[i].id # sel.id => s[i] = page.constants[i]
      /\ \A n \in Ids(s) : n = new \/ n \in Ids(page.constants)
      /\ Apart(page.constants) /\ new \notin Ids(page.constants) => Apart(s)
  BY <1>2, <1>3, RenamedIs
<1> HIDE DEF s
<1>5. /\ page' \in PageDoc /\ page'.blocks = page.blocks /\ page'.constants = s
      /\ page'.interface = page.interface /\ page'.connections = page.connections
  BY <1>1, <1>4, PageIs, PutConstants
<1>6. NamedApart(page) /\ new \notin NodeIds(page) => NamedApart(page')
  BY <1>4, <1>5 DEF NamedApart, NodeIds
<1>7. ASSUME NEW p \in pinMap(page), p.block # sel.id PROVE p \in pinMap(page')
  <2>1. CASE \E i \in DOMAIN page.constants : p = Pin(page.constants[i].id, "OUT", "output")
    <3>1. PICK i \in DOMAIN page.constants : p = Pin(page.constants[i].id, "OUT", "output")
      BY <2>1
    <3>2. page.constants[i].id # sel.id
      BY <1>7, <3>1 DEF Pin
    <3>3. QED
      BY <1>4, <1>5, <3>1, <3>2, PinsAre DEF NodePin
  <2>2. CASE \E i \in DOMAIN page.blocks : p \in BlockPins(page.blocks[i])
    BY <1>5, <2>2, PinsAre DEF NodePin
  <2>3. CASE PortPin(page, p)
    BY <1>5, <2>3, PinsAre DEF PortPin
  <2>4. QED
    BY <1>7, <2>1, <2>2, <2>3, PinsAre DEF NodePin
<1>8. Anchored(page, former) => Anchored(page', former')
  BY <1>1, <1>5, <1>7 DEF Anchored, Pin
<1>9. NamesApart' /\ WiresAnchored' /\ OneDriver'
  BY <1>1, <1>5, <1>6, <1>8, CollideIs
     DEF SheetInv, NamesApart, WiresAnchored, OneDriver, SingleDriven
<1>10. /\ former' \in SUBSET Name /\ sel' \in Selection
       /\ blame' \in SUBSET {"collided", "reloaded", "cut", "crossed"}
       /\ ~Free => "cut" \in blame'
  BY <1>1, CollideIs DEF SheetInv, SheetTypes, Selection
<1>11. QED
  BY <1>1, <1>5, <1>9, <1>10, CutStep

(* An interface wire end follows the name of its port; ends that were apart stay
   apart unless one has the new name already. *)
LEMMA FollowIs ==
  ASSUME NEW e \in Endpoint, NEW new \in Name
  PROVE  /\ Follow(e, new) \in Endpoint /\ Follow(e, new).block = e.block
         /\ IF e.block = INTERFACE /\ e.port = sel.id
            THEN Follow(e, new).port = new ELSE Follow(e, new) = e
BY DEF Follow, Endpoint

LEMMA FollowApart ==
  ASSUME NEW e \in Endpoint, NEW f \in Endpoint, NEW new \in Name,
         Follow(e, new) = Follow(f, new),
         e.block = INTERFACE => e.port # new, f.block = INTERFACE => f.port # new
  PROVE  e = f
<1>1. e.block = f.block
  BY FollowIs
<1>2. e.port = f.port
  <2>1. CASE e.block = INTERFACE
    BY <1>1, <2>1, FollowIs
  <2>2. CASE e.block # INTERFACE
    BY <1>1, <2>2, FollowIs
  <2>3. QED
    BY <2>1, <2>2
<1>3. QED
  BY <1>1, <1>2 DEF Endpoint

LEMMA RenamePortStep ==
  ASSUME SheetInv, NEW new \in Typed(PortNames(page) \cup WiredPorts), renamePort(new)
  PROVE  SheetInv'
<1> DEFINE a == sel.dir
           s == Renamed(page.interface[a], sel.id, new)
           C == page.connections
           c == [i \in DOMAIN C |->
                   [from |-> Follow(C[i].from, new), to |-> Follow(C[i].to, new)]]
<1>1. /\ page' = [page EXCEPT !.interface[a] = s, !.connections = c]
      /\ sel.kind = "port" /\ sel.id \in Ids(page.interface[a])
      /\ blame' = Collide(PortNames(page), new)
                    \cup (IF new \in WiredPorts \ PortNames(page) THEN {"crossed"} ELSE {})
      /\ UNCHANGED <<sel, drag, draft, former>>
  BY DEF renamePort, patch
<1>2. a \in Dirs
  BY DEF SheetInv, SheetTypes, Selection
<1>3. page.interface[a] \in Seq(Port) /\ C \in Seq(Connection)
  BY <1>2, PageIs, DocParts
<1> HIDE DEF C
<1>4. ASSUME NEW i \in DOMAIN C
      PROVE  /\ C[i].from \in Endpoint /\ C[i].to \in Endpoint
             /\ C[i] = [from |-> C[i].from, to |-> C[i].to]
  <2>1. C[i] \in Connection
    BY <1>3, <1>4
  <2>2. QED
    BY <2>1 DEF Connection
<1>5. new \in Name
  <2>1. ASSUME NEW x \in WiredPorts PROVE x \in Name
    <3>1. PICK i \in DOMAIN C : \E e \in {C[i].from, C[i].to} : e.block = INTERFACE /\ x = e.port
      BY <2>1 DEF WiredPorts, C
    <3>2. PICK e \in Endpoint : e.block = INTERFACE /\ x = e.port
      BY <1>4, <3>1
    <3>3. QED
      BY <3>2 DEF Endpoint
  <2>2. QED
    BY <2>1, NodeNames, TypedName DEF Typed
<1>6. /\ s \in Seq(Port) /\ DOMAIN s = DOMAIN page.interface[a]
      /\ \A i \in DOMAIN page.interface[a] :
           /\ page.interface[a][i].id = sel.id => s[i].id = new
           /\ page.interface[a][i].id # sel.id => s[i] = page.interface[a][i]
      /\ \A n \in Ids(s) : n = new \/ n \in Ids(page.interface[a])
      /\ Apart(page.interface[a]) /\ new \notin Ids(page.interface[a]) => Apart(s)
  BY <1>3, <1>5, RenamedIs
<1>7. /\ c \in Seq(Connection) /\ DOMAIN c = DOMAIN C
      /\ \A i \in DOMAIN C : c[i].from = Follow(C[i].from, new) /\ c[i].to = Follow(C[i].to, new)
  <2>1. DOMAIN c = DOMAIN C /\ c = [i \in 1 .. Len(C) |-> c[i]]
    BY <1>3
  <2>2. \A i \in DOMAIN C : c[i].from = Follow(C[i].from, new) /\ c[i].to = Follow(C[i].to, new)
    OBVIOUS
  <2>3. \A i \in DOMAIN C : c[i] \in Connection
    BY <1>4, <1>5, FollowIs DEF Connection
  <2> HIDE DEF c
  <2>4. c \in Seq(Connection)
    BY <1>3, <2>1, <2>3, MappedSeq
  <2>5. QED
    BY <2>1, <2>2, <2>4
<1> HIDE DEF s, c
<1>8. /\ page' \in PageDoc /\ page'.blocks = page.blocks /\ page'.constants = page.constants
      /\ page'.interface[a] = s /\ page'.connections = c
      /\ \A b \in Dirs \ {a} : page'.interface[b] = page.interface[b]
  <2> DEFINE e == [page EXCEPT !.interface[a] = s, !.connections = c]
  <2> HIDE DEF a, e
  <2>1. /\ e \in PageDoc /\ e.blocks = page.blocks /\ e.constants = page.constants
        /\ e.interface[a] = s /\ \A b \in Dirs \ {a} : e.interface[b] = page.interface[b]
        /\ e.connections = c
    BY <1>2, <1>6, <1>7, PageIs DEF e, PageDoc
  <2>2. page' = e
    BY <1>1 DEF a, e
  <2>3. QED
    BY <2>1, <2>2
<1>9. ASSUME NamedApart(page), new \notin PortNames(page) PROVE NamedApart(page')
  <2>1. \A b \in Dirs : new \notin Ids(page.interface[b])
    BY <1>9 DEF PortNames
  <2>2. \A b \in Dirs : Apart(page'.interface[b])
    BY <1>2, <1>6, <1>8, <1>9, <2>1 DEF NamedApart
  <2>3. \A b \in Dirs : \A n \in Ids(page'.interface[b]) :
          n \in Ids(page.interface[b]) \/ (b = a /\ n = new)
    BY <1>6, <1>8
  <2>4. ASSUME NEW b \in Dirs, NEW e \in Dirs, b # e
        PROVE  Ids(page'.interface[b]) \cap Ids(page'.interface[e]) = {}
    BY <1>9, <2>1, <2>3, <2>4 DEF NamedApart
  <2>5. QED
    BY <1>8, <1>9, <2>2, <2>4 DEF NamedApart
<1>10. ASSUME NamedApart(page), NEW p \in pinMap(page), NEW e \in Endpoint,
              e.block = p.block, e.port = p.port
       PROVE  Pin(Follow(e, new).block, Follow(e, new).port, p.dir) \in pinMap(page')
  <2>1. p = Pin(p.block, p.port, p.dir)
    BY PageIs, PinIs, PinRecord
  <2>2. CASE NodePin(page, p)
    <3>1. e.block # INTERFACE
      BY <1>10, <2>2, PageIs, NodePinIs
    <3>2. Follow(e, new) = e
      BY <1>5, <3>1, FollowIs
    <3>3. p \in pinMap(page')
      BY <1>8, <2>2, PinsAre DEF NodePin
    <3>4. QED
      BY <1>10, <2>1, <3>2, <3>3
  <2>3. CASE PortPin(page, p)
    <3>1. PICK b \in Dirs : \E i \in DOMAIN page.interface[b] :
            \/ b # "output" /\ p = Pin(INTERFACE, page.interface[b][i].id, "output")
            \/ b # "input"  /\ p = Pin(INTERFACE, page.interface[b][i].id, "input")
      BY <2>3 DEF PortPin
    <3>2. PICK i \in DOMAIN page.interface[b] :
            \/ b # "output" /\ p = Pin(INTERFACE, page.interface[b][i].id, "output")
            \/ b # "input"  /\ p = Pin(INTERFACE, page.interface[b][i].id, "input")
      BY <3>1
    <3>3. /\ p.block = INTERFACE /\ p.port = page.interface[b][i].id
          /\ (p.dir = "output" /\ b # "output") \/ (p.dir = "input" /\ b # "input")
      BY <3>2 DEF Pin
    <3> DEFINE q == Pin(INTERFACE, Follow(e, new).port, p.dir)
    <3>4. CASE p.port = sel.id
      <4>1. Follow(e, new).port = new /\ Follow(e, new).block = INTERFACE
        BY <1>5, <1>10, <3>3, <3>4, FollowIs
      <4>2. b = a
        BY <1>1, <1>2, <1>10, <3>3, <3>4 DEF NamedApart, Ids
      <4>3. i \in DOMAIN page'.interface[b] /\ page'.interface[b][i].id = new
        BY <1>6, <1>8, <3>3, <3>4, <4>2
      <4>4. PortPin(page', q)
        BY <3>3, <4>1, <4>3 DEF PortPin
      <4>5. QED
        BY <4>1, <4>4, PinsAre
    <3>5. CASE p.port # sel.id
      <4>1. Follow(e, new) = e
        BY <1>5, <1>10, <3>5, FollowIs
      <4>2. i \in DOMAIN page'.interface[b] /\ page'.interface[b][i] = page.interface[b][i]
        BY <1>6, <1>8, <3>3, <3>5
      <4>3. PortPin(page', p)
        BY <3>2, <4>2 DEF PortPin
      <4>4. QED
        BY <1>10, <2>1, <4>1, <4>3, PinsAre
    <3>6. QED
      BY <3>4, <3>5
  <2>4. QED
    BY <1>10, <2>2, <2>3, PinsAre
<1>11. ASSUME NamedApart(page), Anchored(page, former) PROVE Anchored(page', former)
  <2>1. SUFFICES ASSUME NEW i \in DOMAIN C
        PROVE  /\ Pin(c[i].from.block, c[i].from.port, "output") \in pinMap(page')
                    \/ c[i].from.block \in former
               /\ Pin(c[i].to.block, c[i].to.port, "input") \in pinMap(page')
                    \/ c[i].to.block \in former
    BY <1>7, <1>8 DEF Anchored, C
  <2> DEFINE p == Pin(C[i].from.block, C[i].from.port, "output")
             q == Pin(C[i].to.block, C[i].to.port, "input")
  <2>2. /\ p \in pinMap(page) \/ C[i].from.block \in former
        /\ q \in pinMap(page) \/ C[i].to.block \in former
    BY <1>11, <2>1 DEF Anchored, C
  <2>3. /\ p.block = C[i].from.block /\ p.port = C[i].from.port /\ p.dir = "output"
        /\ q.block = C[i].to.block /\ q.port = C[i].to.port /\ q.dir = "input"
    BY DEF Pin
  <2>4. c[i].from.block = C[i].from.block /\ c[i].to.block = C[i].to.block
    <3>1. C[i].from \in Endpoint /\ C[i].to \in Endpoint
      BY <1>4, <2>1
    <3>2. QED
      BY <1>5, <1>7, <2>1, <3>1, FollowIs
  <2> HIDE DEF p, q
  <2>5. p \in pinMap(page) => Pin(c[i].from.block, c[i].from.port, "output") \in pinMap(page')
    BY <1>4, <1>7, <1>10, <1>11, <2>1, <2>3
  <2>6. q \in pinMap(page) => Pin(c[i].to.block, c[i].to.port, "input") \in pinMap(page')
    BY <1>4, <1>7, <1>10, <1>11, <2>1, <2>3
  <2>7. QED
    BY <2>2, <2>4, <2>5, <2>6
<1>12. ASSUME SingleDriven(page), new \notin WiredPorts PROVE SingleDriven(page')
  <2>1. ASSUME NEW i \in DOMAIN C PROVE C[i].to.block = INTERFACE => C[i].to.port # new
    BY <1>12, <2>1 DEF WiredPorts, C
  <2>2. ASSUME NEW i \in DOMAIN C, NEW j \in DOMAIN C, c[i].to = c[j].to PROVE i = j
    <3>1. C[i].to = C[j].to
      <4>1. C[i].to \in Endpoint /\ C[j].to \in Endpoint
        BY <1>4, <2>2
      <4>2. Follow(C[i].to, new) = Follow(C[j].to, new)
        BY <1>7, <2>2
      <4>3. /\ C[i].to.block = INTERFACE => C[i].to.port # new
            /\ C[j].to.block = INTERFACE => C[j].to.port # new
        BY <2>1, <2>2
      <4>4. QED
        BY <1>5, <4>1, <4>2, <4>3, FollowApart
    <3>2. QED
      BY <1>12, <2>2, <3>1 DEF SingleDriven, C
  <2>3. QED
    BY <1>7, <1>8, <2>2 DEF SingleDriven
<1>13. /\ blame \subseteq blame' /\ blame' \subseteq blame \cup {"collided", "cut", "crossed"}
       /\ ~Free => "cut" \in blame'
       /\ new \in PortNames(page) => "collided" \in blame'
       /\ new \in WiredPorts \ PortNames(page) => "crossed" \in blame'
  BY <1>1, CollideIs
<1>14. NamesApart'
  BY <1>9, <1>13 DEF SheetInv, NamesApart
<1>15. WiresAnchored'
  BY <1>1, <1>11, <1>13 DEF SheetInv, NamesApart, WiresAnchored
<1>16. OneDriver'
  BY <1>12, <1>13 DEF SheetInv, OneDriver
<1>17. /\ former' \in SUBSET Name /\ sel' \in Selection
       /\ blame' \in SUBSET {"collided", "reloaded", "cut", "crossed"}
  BY <1>1, <1>13 DEF SheetInv, SheetTypes
<1>18. QED
  BY <1>1, <1>8, <1>13, <1>14, <1>15, <1>16, <1>17, CutStep

-----------------------------------------------------------------------------
(* The pointer. *)

LEMMA FocusPortStep ==
  ASSUME SheetInv, NEW name \in PortNames(page), focusPort(name)
  PROVE  SheetInv'
<1>1. portDirectionOnPage(name) \in Dirs /\ name \in Name
  BY NodeNames DEF portDirectionOnPage, Dirs
<1>2. sel' \in Selection /\ UNCHANGED <<page, drag, draft, former, blame>>
  BY <1>1, SelectedIs DEF focusPort
<1>3. DraftJoins' /\ DragInPlace'
  BY <1>2 DEF SheetInv, DraftJoins, DragInPlace
<1>4. QED
  BY <1>2, <1>3, PointerStep DEF SheetInv, SheetTypes

LEMMA GrabElementStep == ASSUME SheetInv, grabElement PROVE SheetInv'
<1>1. /\ drag' \in PortsDrawn \cup ConstantsDrawn \cup BlocksDrawn
      /\ sel' = [drag' EXCEPT !.index = 0] /\ UNCHANGED <<page, draft, former, blame>>
  BY DEF grabElement
<1>2. /\ drag' \in Selection
      /\ drag'.kind = "port" =>
           /\ drag'.index \in DOMAIN page.interface[drag'.dir]
           /\ page.interface[drag'.dir][drag'.index].id = drag'.id
  <2>1. CASE drag' \in PortsDrawn
    <3>1. PICK a \in Dirs : drag' \in {Selected("port", a, page.interface[a][i].id, i) :
                                         i \in DOMAIN page.interface[a]}
      BY <2>1 DEF PortsDrawn
    <3>2. PICK i \in DOMAIN page.interface[a] :
            drag' = Selected("port", a, page.interface[a][i].id, i)
      BY <3>1
    <3>3. page.interface[a] \in Seq(Port)
      BY PageIs, DocParts
    <3>4. i \in Nat /\ page.interface[a][i].id \in Name
      BY <3>3, NodeNames DEF PortNames, Ids
    <3>5. /\ drag' \in Selection /\ drag'.dir = a /\ drag'.index = i
          /\ drag'.id = page.interface[a][i].id
      BY <3>2, <3>4, SelectedIs DEF Selected
    <3>6. QED
      BY <3>5
  <2>2. CASE drag' \in ConstantsDrawn \cup BlocksDrawn
    <3>1. PICK kind \in {"block", "constant"}, id \in NodeIds(page) :
            drag' = Selected(kind, "input", id, 0)
      BY <2>2 DEF ConstantsDrawn, BlocksDrawn, NodeIds
    <3>2. id \in Name
      BY NodeNames
    <3>3. drag' \in Selection /\ drag'.kind = kind
      BY <3>1, <3>2, SelectedIs DEF Selected, Dirs
    <3>4. QED
      BY <3>3
  <2>3. QED
    BY <1>1, <2>1, <2>2
<1>3. sel' \in Selection
  <2>1. PICK x \in Selection : x = drag'
    BY <1>2
  <2>2. [x EXCEPT !.index = 0] \in Selection
    BY DEF Selection
  <2>3. QED
    BY <1>1, <2>1, <2>2
<1>4. DraftJoins'
  BY <1>1 DEF SheetInv, DraftJoins
<1>5. DragInPlace'
  BY <1>1, <1>2 DEF DragInPlace
<1>6. QED
  BY <1>1, <1>2, <1>3, <1>4, <1>5, PointerStep DEF SheetInv, SheetTypes

LEMMA SelectWireStep ==
  ASSUME SheetInv, NEW i \in DOMAIN page.connections, selectWire(i)
  PROVE  SheetInv'
<1>1. i \in Nat
  BY PageIs, DocParts
<1>2. sel' \in Selection /\ UNCHANGED <<page, drag, draft, former, blame>>
  BY <1>1, UnselectedIs, SelectedIs DEF selectWire, Dirs
<1>3. DraftJoins' /\ DragInPlace'
  BY <1>2 DEF SheetInv, DraftJoins, DragInPlace
<1>4. QED
  BY <1>2, <1>3, PointerStep DEF SheetInv, SheetTypes

LEMMA DraftStep ==
  ASSUME SheetInv, moveDraft \/ \E pin \in pinMap(page) : grabPin(pin)
  PROVE  SheetInv'
<1>1. pinMap(page) \subseteq PinPoint
  BY PageIs, PinIs
<1>2. CASE moveDraft
  <2>1. PICK target \in SUBSET pinMap(page) :
          /\ \A a \in draft.from, b \in target : connectable(a, b)
          /\ draft' = [draft EXCEPT !.target = target]
    BY <1>2 DEF moveDraft
  <2>2. UNCHANGED <<page, sel, drag, former, blame>> /\ draft.on
    BY <1>2 DEF moveDraft
  <2>3. draft \in [on : BOOLEAN, from : SUBSET PinPoint, target : SUBSET PinPoint]
    BY DEF SheetInv, SheetTypes
  <2>4. /\ draft' \in [on : BOOLEAN, from : SUBSET PinPoint, target : SUBSET PinPoint]
        /\ draft'.on /\ draft'.from = draft.from /\ draft'.target = target
    BY <1>1, <2>1, <2>2, <2>3
  <2>5. DraftJoins'
    BY <2>1, <2>2, <2>4 DEF SheetInv, DraftJoins
  <2>6. DragInPlace'
    BY <2>2 DEF SheetInv, DragInPlace
  <2>7. QED
    BY <2>2, <2>4, <2>5, <2>6, PointerStep DEF SheetInv, SheetTypes
<1>3. ASSUME NEW pin \in pinMap(page), grabPin(pin) PROVE SheetInv'
  <2>1. /\ draft' = [on |-> TRUE, from |-> {pin}, target |-> {}]
        /\ sel' = Unselected /\ UNCHANGED <<page, drag, former, blame>>
    BY <1>3 DEF grabPin
  <2>2. draft' \in [on : BOOLEAN, from : SUBSET PinPoint, target : SUBSET PinPoint]
    BY <1>1, <1>3, <2>1
  <2>3. DraftJoins'
    BY <1>3, <2>1 DEF DraftJoins
  <2>4. DragInPlace'
    BY <2>1 DEF SheetInv, DragInPlace
  <2>5. QED
    BY <2>1, <2>2, <2>3, <2>4, UnselectedIs, PointerStep DEF SheetInv, SheetTypes
<1>4. QED
  BY <1>2, <1>3

LEMMA GestureEnds ==
  ASSUME SheetInv, draft' = NoDraft, drag' = Unselected
  PROVE  /\ DraftJoins' /\ DragInPlace' /\ drag' \in Selection
         /\ draft' \in [on : BOOLEAN, from : SUBSET PinPoint, target : SUBSET PinPoint]
BY UnselectedIs DEF DraftJoins, DragInPlace, NoDraft

(* The wire a gesture makes joins the output it captured to the input. *)
LEMMA WireIs ==
  ASSUME NEW a \in PinPoint, NEW b \in PinPoint, connectable(a, b)
  PROVE  /\ Wire(a, b) \in Connection
         /\ Pin(Wire(a, b).from.block, Wire(a, b).from.port, "output") \in {a, b}
         /\ Pin(Wire(a, b).to.block, Wire(a, b).to.port, "input") \in {a, b}
<1>1. /\ End(a) \in Endpoint /\ End(b) \in Endpoint
      /\ a = Pin(End(a).block, End(a).port, a.dir) /\ b = Pin(End(b).block, End(b).port, b.dir)
  BY PinRecord
<1>2. \/ a.dir = "output" /\ b.dir = "input"
      \/ b.dir = "output" /\ a.dir = "input"
  BY PinRecord DEF connectable
<1>3. \/ a.dir = "output" /\ Wire(a, b) = [from |-> End(a), to |-> End(b)]
      \/ a.dir # "output" /\ Wire(a, b) = [from |-> End(b), to |-> End(a)]
  BY DEF Wire
<1> HIDE DEF End, Pin, Wire
<1>4. Wire(a, b) \in Connection
  BY <1>1, <1>3 DEF Connection
<1>5. QED
  BY <1>1, <1>2, <1>3, <1>4

LEMMA WiredIs ==
  ASSUME SheetInv, NEW w \in Connection
  PROVE  \/ Wired(w) = page
         \/ \E c \in Seq(Connection) :
              /\ Wired(w) = [page EXCEPT !.connections = c]
              /\ \A n \in DOMAIN c :
                   c[n] = w \/ \E i \in DOMAIN page.connections : c[n] = page.connections[i]
              /\ SingleDriven(page) => \A m, n \in DOMAIN c : c[m].to = c[n].to => m = n
<1> DEFINE C == page.connections
           K == {i \in DOMAIN C : C[i].to # w.to}
           t == IF driverOn(page, w.to) THEN Kept(C, K) ELSE C
           c == Append(t, w)
<1>1. C \in Seq(Connection) /\ K \in SUBSET DOMAIN C
  BY PageIs, DocParts
<1>2. Wired(w) = page \/ Wired(w) = [page EXCEPT !.connections = c]
  BY DEF Wired
<1>3. /\ t \in Seq(Connection)
      /\ \A n \in DOMAIN t : \E i \in DOMAIN C : t[n] = C[i] /\ C[i].to # w.to
  <2>1. CASE driverOn(page, w.to)
    <3>1. t = Kept(C, K)
      BY <2>1
    <3>2. \A k \in K : k \in DOMAIN C /\ C[k].to # w.to
      OBVIOUS
    <3> HIDE DEF C, K, t
    <3>3. QED
      BY <1>1, <3>1, <3>2, KeptElements
  <2>2. CASE ~driverOn(page, w.to)
    <3>1. t = C /\ \A i \in DOMAIN C : C[i].to # w.to
      BY <2>2 DEF driverOn
    <3> HIDE DEF C, t
    <3>2. QED
      BY <1>1, <3>1
  <2>3. QED
    BY <2>1, <2>2
<1>4. SingleDriven(page) => \A m, n \in DOMAIN t : t[m].to = t[n].to => m = n
  BY <1>1, KeptSingle DEF SingleDriven
<1> HIDE DEF C, K, t
<1>5. /\ c \in Seq(Connection) /\ Len(t) \in Nat /\ DOMAIN t = 1 .. Len(t)
      /\ DOMAIN c = 1 .. Len(t) + 1 /\ c[Len(t) + 1] = w
      /\ \A n \in 1 .. Len(t) : c[n] = t[n]
  BY <1>3
<1> HIDE DEF c
<1>6. \A n \in DOMAIN c : (n \in DOMAIN t /\ c[n] = t[n]) \/ (n = Len(t) + 1 /\ c[n] = w)
  BY <1>5
<1>7. \A n \in DOMAIN c : c[n] = w \/ \E i \in DOMAIN C : c[n] = C[i]
  BY <1>3, <1>6
<1>8. \A n \in DOMAIN t : t[n].to # w.to
  BY <1>3
<1>9. SingleDriven(page) => \A m, n \in DOMAIN c : c[m].to = c[n].to => m = n
  BY <1>4, <1>6, <1>8
<1>10. QED
  BY <1>2, <1>5, <1>7, <1>9 DEF C

LEMMA HandleUpStep == ASSUME SheetInv, handleUp PROVE SheetInv'
<1>1. /\ draft' = NoDraft /\ drag' = Unselected /\ UNCHANGED <<sel, former, blame>>
      /\ sel \in Selection
  BY DEF handleUp, SheetInv, SheetTypes
<1>2. CASE page' = page
  BY <1>1, <1>2, GestureEnds, PointerStep
<1>3. CASE commitDraft /\ page' # page
  <2>1. PICK a \in draft.from, b \in draft.target : page' = Wired(Wire(a, b))
    BY <1>3 DEF commitDraft, patch
  <2>2. a \in PinPoint /\ b \in PinPoint /\ connectable(a, b)
    BY DEF SheetInv, SheetTypes, DraftJoins
  <2> DEFINE w == Wire(a, b)
  <2>3. /\ w \in Connection
        /\ Pin(w.from.block, w.from.port, "output") \in {a, b}
        /\ Pin(w.to.block, w.to.port, "input") \in {a, b}
    BY <2>2, WireIs
  <2>4. PICK c \in Seq(Connection) :
          /\ page' = [page EXCEPT !.connections = c]
          /\ \A n \in DOMAIN c :
               c[n] = w \/ \E i \in DOMAIN page.connections : c[n] = page.connections[i]
          /\ SingleDriven(page) => \A m, n \in DOMAIN c : c[m].to = c[n].to => m = n
    BY <1>3, <2>1, <2>3, WiredIs
  <2> HIDE DEF w
  <2>5. /\ page' \in PageDoc /\ page'.blocks = page.blocks /\ page'.constants = page.constants
        /\ page'.interface = page.interface /\ page'.connections = c
    BY <2>4, PageIs, PutWires
  <2>6. pinMap(page) \subseteq pinMap(page')
    BY <2>5, StayFacts, CoversPins DEF Covers
  <2>7. NamesApart'
    BY <1>1, <2>5 DEF SheetInv, NamesApart, NamedApart
  <2>8. OneDriver'
    BY <1>1, <2>4, <2>5 DEF SheetInv, OneDriver, SingleDriven
  <2>9. blame = {} => a \in pinMap(page) /\ b \in pinMap(page)
    BY DEF SheetInv, DraftJoins
  <2>10. WiresAnchored'
    <3>1. SUFFICES ASSUME blame = {}, NEW n \in DOMAIN c
          PROVE  /\ Pin(c[n].from.block, c[n].from.port, "output") \in pinMap(page')
                      \/ c[n].from.block \in former
                 /\ Pin(c[n].to.block, c[n].to.port, "input") \in pinMap(page')
                      \/ c[n].to.block \in former
      BY <1>1, <2>5 DEF WiresAnchored, Anchored
    <3>2. CASE c[n] = w
      BY <2>3, <2>6, <2>9, <3>1, <3>2
    <3>3. CASE \E i \in DOMAIN page.connections : c[n] = page.connections[i]
      BY <2>6, <3>1, <3>3 DEF SheetInv, WiresAnchored, Anchored
    <3>4. QED
      BY <2>4, <3>2, <3>3
  <2>11. SheetTypes'
    BY <1>1, <2>5, GestureEnds DEF SheetInv, SheetTypes
  <2>12. QED
    BY <1>1, <2>7, <2>8, <2>10, <2>11, GestureEnds DEF SheetInv
<1>4. QED
  BY <1>2, <1>3 DEF handleUp

LEMMA PressSheetStep == ASSUME SheetInv, pressSheet PROVE SheetInv'
BY UnselectedIs, GestureEnds, PointerStep DEF pressSheet

-----------------------------------------------------------------------------
(* Another page, and the whole. *)

LEMMA ArriveStep ==
  ASSUME SheetInv, StoredSoundly, NEW d \in Arrivals, Arrive(d)
  PROVE  SheetInv'
<1>1. /\ page' = d /\ former' = {} /\ UNCHANGED <<drag, draft>>
      /\ blame' = IF draft.on \/ drag.kind # "none" THEN {"reloaded"} ELSE {}
  BY DEF Arrive
<1>2. d \in PageDoc /\ NamedApart(d) /\ Anchored(d, {}) /\ SingleDriven(d)
  BY SheetAssumption DEF StoredSoundly
<1>3. sel' \in Selection
  <2>1. \A i \in DOMAIN d.blocks : d.blocks[i] \in Block
    BY <1>2, DocParts
  <2>2. \A id \in Ids(d.blocks) : id \in Name
    BY <2>1 DEF Ids, Block
  <2>3. ASSUME NEW a \in Dirs, NEW id \in Ids(d.interface[a]) PROVE id \in Name
    <3>1. d.interface[a] \in Seq(Port)
      BY <1>2, DocParts
    <3>2. \A i \in DOMAIN d.interface[a] : d.interface[a][i] \in Port
      BY <3>1
    <3>3. QED
      BY <3>2 DEF Ids, Port
  <2>4. QED
    BY <2>2, <2>3, UnselectedIs, SelectedIs DEF Arrive, Dirs
<1>4. SheetTypes'
  BY <1>1, <1>2, <1>3 DEF SheetInv, SheetTypes
<1>5. NamesApart' /\ WiresAnchored' /\ OneDriver'
  BY <1>1, <1>2 DEF NamesApart, WiresAnchored, OneDriver
<1>6. blame' = {} => draft = NoDraft /\ drag.kind = "none"
  BY <1>1 DEF SheetInv, DraftJoins
<1>7. DraftJoins'
  BY <1>1, <1>6 DEF SheetInv, DraftJoins, NoDraft
<1>8. DragInPlace'
  BY <1>1, <1>6 DEF DragInPlace
<1>9. QED
  BY <1>4, <1>5, <1>7, <1>8 DEF SheetInv

LEMMA SheetInitInv == StoredSoundly /\ SheetInit => SheetInv
<1>1. SUFFICES ASSUME StoredSoundly, SheetInit PROVE SheetInv
  OBVIOUS
<1>2. /\ page \in PageDoc /\ NamedApart(page) /\ Anchored(page, {}) /\ SingleDriven(page)
      /\ sel = Unselected /\ drag = Unselected /\ draft = NoDraft /\ former = {} /\ blame = {}
  BY <1>1, SheetAssumption DEF SheetInit, StoredSoundly
<1>3. NamesApart /\ WiresAnchored /\ OneDriver
  BY <1>2 DEF NamesApart, WiresAnchored, OneDriver
<1>4. SheetTypes
  BY <1>2, UnselectedIs DEF SheetTypes, NoDraft
<1>5. DraftJoins /\ DragInPlace
  BY <1>2, UnselectedIs DEF DraftJoins, DragInPlace, NoDraft
<1>6. QED
  BY <1>3, <1>4, <1>5 DEF SheetInv

LEMMA SheetNextInv == StoredSoundly /\ SheetInv /\ [SheetNext]_sheetVars => SheetInv'
<1>1. SUFFICES ASSUME StoredSoundly, SheetInv, [SheetNext]_sheetVars PROVE SheetInv'
  OBVIOUS
<1>2. CASE \/ \E type \in DOMAIN Library : dropBlock(type)
           \/ addConstant
           \/ \E dir \in Dirs : addNewPort(dir)
           \/ \E dir \in Dirs, name \in Points : addOfferedPort(dir, name)
  BY <1>1, <1>2, DropBlockStep, AddConstantStep, AddPortsStep
<1>3. CASE \/ removeSelection
           \/ \E new \in Typed(NodeIds(page)) : renameBlock(new) \/ renameConstant(new)
           \/ \E new \in Typed(PortNames(page) \cup WiredPorts) : renamePort(new)
  BY <1>1, <1>3, RemoveSelectionStep, RenameBlockStep, RenameConstantStep, RenamePortStep
<1>4. CASE \E look \in Looks : patchSelected(look) \/ moveElement(look)
  BY <1>1, <1>4, PatchSelectedStep, MoveElementStep
<1>5. CASE \/ \E name \in PortNames(page) : focusPort(name)
           \/ grabElement
           \/ \E i \in DOMAIN page.connections : selectWire(i)
           \/ \E pin \in pinMap(page) : grabPin(pin)
           \/ moveDraft
  BY <1>1, <1>5, FocusPortStep, GrabElementStep, SelectWireStep, DraftStep
<1>6. CASE handleUp \/ pressSheet
  BY <1>1, <1>6, HandleUpStep, PressSheetStep
<1>7. CASE \E d \in Arrivals : Arrive(d)
  BY <1>1, <1>7, ArriveStep
<1>8. CASE UNCHANGED sheetVars
  BY <1>1, <1>8 DEF sheetVars, SheetInv, SheetTypes, NamesApart, WiresAnchored, OneDriver,
                    DraftJoins, DragInPlace
<1>9. QED
  BY <1>1, <1>2, <1>3, <1>4, <1>5, <1>6, <1>7, <1>8 DEF SheetNext

(* The inductive invariant of the sheet: types, names, wires, and what the two
   gestures hold on to while the page changes under them. *)
THEOREM SheetInvariant == StoredSoundly => (SheetSpec => []SheetInv)
<1>1. SUFFICES ASSUME StoredSoundly PROVE SheetSpec => []SheetInv
  OBVIOUS
<1>2. SheetInit => SheetInv
  BY <1>1, SheetInitInv
<1>3. SheetInv /\ [SheetNext]_sheetVars => SheetInv'
  BY <1>1, SheetNextInv
<1>4. QED
  BY <1>2, <1>3, PTL DEF SheetSpec

(* Wires end on pins whatever is dropped, wired, renamed and deleted in what
   order (deleteSelection, commitDraft, the inspector's name fields). *)
THEOREM WiresStayAnchored == StoredSoundly => (SheetSpec => []WiresAnchored)
<1>1. SheetInv => WiresAnchored
  BY DEF SheetInv
<1>2. QED
  BY <1>1, SheetInvariant, PTL

(* An input is re-wired, never driven twice (commitDraft). *)
THEOREM InputsSingleDriven == StoredSoundly => (SheetSpec => []OneDriver)
<1>1. SheetInv => OneDriver
  BY DEF SheetInv
<1>2. QED
  BY <1>1, SheetInvariant, PTL

LEMMA DisjointCount ==
  ASSUME NEW A, IsFiniteSet(A), NEW B, IsFiniteSet(B), A \cap B = {}
  PROVE  /\ IsFiniteSet(A \cup B)
         /\ Cardinality(A \cup B) = Cardinality(A) + Cardinality(B)
<1>1. /\ IsFiniteSet(A \cup B)
      /\ Cardinality(A \cup B) = Cardinality(A) + Cardinality(B) - Cardinality(A \cap B)
  BY FS_Union
<1>2. Cardinality(A \cap B) = 0
  BY FS_EmptySet
<1>3. Cardinality(A) \in Nat /\ Cardinality(B) \in Nat
  BY FS_CardinalityType
<1> DEFINE a == Cardinality(A)
           b == Cardinality(B)
<1> HIDE DEF a, b
<1>4. a + b - 0 = a + b
  BY <1>3 DEF a, b
<1>5. QED
  BY <1>1, <1>2, <1>4 DEF a, b

(* Names that are apart are as many as the elements that have them. *)
LEMMA NamesCounted ==
  ASSUME NEW d \in PageDoc, NamedApart(d)
  PROVE  /\ Cardinality(NodeIds(d)) = Len(d.blocks) + Len(d.constants)
         /\ Cardinality(PortNames(d)) = Len(d.interface["input"])
              + Len(d.interface["output"]) + Len(d.interface["in_out"])
<1>1. /\ IsFiniteSet(Ids(d.blocks)) /\ Cardinality(Ids(d.blocks)) = Len(d.blocks)
      /\ Cardinality(Ids(d.blocks)) \in Nat
  BY DocParts, IdsCount DEF NamedApart
<1>2. /\ IsFiniteSet(Ids(d.constants)) /\ Cardinality(Ids(d.constants)) = Len(d.constants)
      /\ Cardinality(Ids(d.constants)) \in Nat
  BY DocParts, IdsCount DEF NamedApart
<1>3. Ids(d.blocks) \cap Ids(d.constants) = {}
  BY DEF NamedApart
<1>4. Cardinality(NodeIds(d)) = Len(d.blocks) + Len(d.constants)
  <2>1. NodeIds(d) = Ids(d.blocks) \cup Ids(d.constants)
    BY DEF NodeIds
  <2>2. Cardinality(NodeIds(d)) = Cardinality(Ids(d.blocks)) + Cardinality(Ids(d.constants))
    BY <1>1, <1>2, <1>3, <2>1, DisjointCount
  <2>3. QED
    BY <1>1, <1>2, <2>2
<1> DEFINE I(a) == Ids(d.interface[a])
<1>5. \A a \in Dirs : /\ IsFiniteSet(I(a)) /\ Cardinality(I(a)) = Len(d.interface[a])
                      /\ Cardinality(I(a)) \in Nat
  BY DocParts, IdsCount DEF NamedApart
<1>6. /\ I("input") \cap I("output") = {}
      /\ (I("input") \cup I("output")) \cap I("in_out") = {}
  BY DEF NamedApart, Dirs
<1>7. PortNames(d) = (I("input") \cup I("output")) \cup I("in_out")
  BY DEF PortNames, Dirs
<1>8. {"input", "output", "in_out"} \subseteq Dirs
  BY DEF Dirs
<1> HIDE DEF I
<1>9. /\ IsFiniteSet(I("input") \cup I("output"))
      /\ Cardinality(I("input") \cup I("output")) =
           Cardinality(I("input")) + Cardinality(I("output"))
  BY <1>5, <1>6, <1>8, DisjointCount
<1>10. Cardinality(PortNames(d)) =
         Cardinality(I("input") \cup I("output")) + Cardinality(I("in_out"))
  BY <1>5, <1>6, <1>7, <1>8, <1>9, DisjointCount
<1>11. /\ Cardinality(I("input")) = Len(d.interface["input"])
       /\ Cardinality(I("output")) = Len(d.interface["output"])
       /\ Cardinality(I("in_out")) = Len(d.interface["in_out"])
  BY <1>5, <1>8
<1>12. QED
  BY <1>4, <1>9, <1>10, <1>11

(* uniqueId and the palette never give two elements one name, whatever was
   renamed or deleted before, for any library and any page size. *)
THEOREM NamesStayUnique == StoredSoundly => (SheetSpec => []NamesUnique)
<1>1. SheetInv => NamesUnique
  BY PageIs, NamesCounted DEF SheetInv, NamesApart, NamesUnique, PortCount
<1>2. QED
  BY <1>1, SheetInvariant, PTL

-----------------------------------------------------------------------------
(* What a pointer move touches. *)

LEMMA TouchedSame == ASSUME NEW kind, NEW s PROVE Touched(kind, s, s) = {}
BY DEF Touched

LEMMA SomeDiffers ==
  ASSUME NEW S, NEW s \in Seq(S), NEW t \in Seq(S), DOMAIN t = DOMAIN s, t # s
  PROVE  \E i \in DOMAIN s : t[i] # s[i]
<1>1. Len(s) \in Nat /\ Len(t) \in Nat /\ DOMAIN s = 1 .. Len(s) /\ DOMAIN t = 1 .. Len(t)
  OBVIOUS
<1>2. s = [i \in DOMAIN s |-> s[i]] /\ t = [i \in DOMAIN t |-> t[i]]
  OBVIOUS
<1>3. QED
  BY <1>1, <1>2

LEMMA RestyledTouches ==
  ASSUME NEW s, NEW id, NEW look
  PROVE  \A i \in DOMAIN s : Restyled(s, id, look)[i] # s[i] => s[i].id = id
BY DEF Restyled

LEMMA AtIndexTouches ==
  ASSUME NEW s, NEW k, NEW look
  PROVE  \A i \in DOMAIN s : AtIndex(s, k, look)[i] # s[i] => i = k
BY DEF AtIndex

(* A page whose field is replaced by itself is the page. *)
LEMMA PutSame ==
  ASSUME NEW d \in PageDoc
  PROVE  /\ [d EXCEPT !.blocks = d.blocks] = d
         /\ [d EXCEPT !.constants = d.constants] = d
         /\ \A a \in Dirs : [d EXCEPT !.interface[a] = d.interface[a]] = d
BY DEF PageDoc

LEMMA MoveTouches ==
  ASSUME SheetInv, drag.kind # "wire", NEW look \in Looks, moveElement(look), blame = {}
  PROVE  Touched("block", page.blocks, page'.blocks)
           \cup Touched("constant", page.constants, page'.constants)
           \cup (UNION {Touched("port", page.interface[dir], page'.interface[dir])
                         : dir \in Dirs})
         = {[kind |-> drag.kind, id |-> drag.id]}
<1>1. /\ page' = Moved(look) /\ page' # page /\ drag.kind # "none" /\ drag \in Selection
      /\ page \in PageDoc /\ drag.dir \in Dirs
  BY DEF moveElement, patch, SheetInv, SheetTypes, Selection
<1>3. CASE drag.kind = "port"
  <2>1. PICK s \in Seq(Port) : /\ s = AtIndex(page.interface[drag.dir], drag.index, look)
                               /\ page' = [page EXCEPT !.interface[drag.dir] = s]
                               /\ InPlace(page.interface[drag.dir], s)
    BY <1>1, <1>3, MovedIs
  <2>2. /\ page'.blocks = page.blocks /\ page'.constants = page.constants
        /\ page'.interface[drag.dir] = s
        /\ \A b \in Dirs \ {drag.dir} : page'.interface[b] = page.interface[b]
    BY <1>1, <2>1, PutPorts
  <2>3. s # page.interface[drag.dir]
    BY <1>1, <2>1, PutSame
  <2>4. page.interface[drag.dir][drag.index].id = drag.id
    BY <1>3 DEF SheetInv, DragInPlace
  <2>5. \A i \in DOMAIN page.interface[drag.dir] :
          s[i] # page.interface[drag.dir][i] => page.interface[drag.dir][i].id = drag.id
    BY <2>1, <2>4, AtIndexTouches
  <2>6. Touched("port", page.interface[drag.dir], s) = {[kind |-> "port", id |-> drag.id]}
    <3>1. page.interface[drag.dir] \in Seq(Port) /\ DOMAIN s = DOMAIN page.interface[drag.dir]
      BY <1>1, <2>1, DocParts DEF InPlace
    <3>2. \E i \in DOMAIN page.interface[drag.dir] : s[i] # page.interface[drag.dir][i]
      BY <3>1, <2>3, SomeDiffers
    <3>3. QED
      BY <3>1, <3>2, <2>5 DEF Touched
  <2>7. \A b \in Dirs : Touched("port", page.interface[b], page'.interface[b]) =
                          IF b = drag.dir THEN {[kind |-> "port", id |-> drag.id]} ELSE {}
    BY <2>2, <2>6, TouchedSame
  <2>8. (UNION {Touched("port", page.interface[dir], page'.interface[dir]) : dir \in Dirs})
          = {[kind |-> "port", id |-> drag.id]}
    BY <1>1, <2>7
  <2>9. QED
    BY <1>3, <2>2, <2>8, TouchedSame
<1>4. CASE drag.kind # "port"
  <2>1. CASE drag.kind = "constant"
    <3>1. PICK s \in Seq(Constant) : /\ s = Restyled(page.constants, drag.id, look)
                                     /\ page' = [page EXCEPT !.constants = s]
                                     /\ InPlace(page.constants, s)
      BY <1>1, <2>1, MovedIs
    <3>2. /\ page'.blocks = page.blocks /\ page'.constants = s
          /\ page'.interface = page.interface
      BY <1>1, <3>1, PutConstants
    <3>3. Touched("constant", page.constants, s) = {[kind |-> "constant", id |-> drag.id]}
      <4>1. page.constants \in Seq(Constant) /\ DOMAIN s = DOMAIN page.constants
        BY <1>1, <3>1, DocParts DEF InPlace
      <4>2. s # page.constants
        BY <1>1, <3>1, PutSame
      <4>3. \A i \in DOMAIN page.constants : s[i] # page.constants[i] => page.constants[i].id = drag.id
        BY <3>1, RestyledTouches
      <4>4. \E i \in DOMAIN page.constants : s[i] # page.constants[i]
        BY <4>1, <4>2, SomeDiffers
      <4>5. QED
        BY <4>1, <4>3, <4>4 DEF Touched
    <3>4. \A b \in Dirs : Touched("port", page.interface[b], page'.interface[b]) = {}
      BY <3>2, TouchedSame
    <3>5. QED
      BY <2>1, <3>2, <3>3, <3>4, TouchedSame
  <2>2. CASE drag.kind # "constant"
    <3>1. drag.kind = "block"
      BY <1>1, <1>4, <2>2 DEF Selection
    <3>2. PICK s \in Seq(Block) : /\ s = Restyled(page.blocks, drag.id, look)
                                  /\ page' = [page EXCEPT !.blocks = s]
                                  /\ InPlace(page.blocks, s)
      BY <1>1, <3>1, MovedIs
    <3>3. /\ page'.blocks = s /\ page'.constants = page.constants
          /\ page'.interface = page.interface
      BY <1>1, <3>2, PutBlocks
    <3>4. Touched("block", page.blocks, s) = {[kind |-> "block", id |-> drag.id]}
      <4>1. page.blocks \in Seq(Block) /\ DOMAIN s = DOMAIN page.blocks
        BY <1>1, <3>2, DocParts DEF InPlace
      <4>2. s # page.blocks
        BY <1>1, <3>2, PutSame
      <4>3. \A i \in DOMAIN page.blocks : s[i] # page.blocks[i] => page.blocks[i].id = drag.id
        BY <3>2, RestyledTouches
      <4>4. \E i \in DOMAIN page.blocks : s[i] # page.blocks[i]
        BY <4>1, <4>2, SomeDiffers
      <4>5. QED
        BY <4>1, <4>3, <4>4 DEF Touched
    <3>5. \A b \in Dirs : Touched("port", page.interface[b], page'.interface[b]) = {}
      BY <3>3, TouchedSame
    <3>6. QED
      BY <3>1, <3>3, <3>4, <3>5, TouchedSame
  <2>3. QED
    BY <2>1, <2>2
<1>5. QED
  BY <1>3, <1>4

(* Nobody drags a wire (the canvas starts a drag on blocks, constants, ports). *)
LEMMA NoWireDragged == SheetSpec => [](drag.kind # "wire")
<1>1. SheetInit => drag.kind # "wire"
  BY DEF SheetInit, Unselected, Selected
<1>2. ASSUME drag.kind # "wire", [SheetNext]_sheetVars PROVE (drag.kind # "wire")'
  <2>1. CASE drag' = drag
    BY <1>2, <2>1
  <2>2. CASE drag' = Unselected
    BY <2>2 DEF Unselected, Selected
  <2>3. CASE grabElement
    BY <2>3 DEF grabElement, PortsDrawn, ConstantsDrawn, BlocksDrawn, Selected
  <2>4. \/ \E type \in DOMAIN Library : dropBlock(type)
        \/ addConstant
        \/ \E dir \in Dirs : addNewPort(dir)
        \/ \E dir \in Dirs, name \in Points : addOfferedPort(dir, name)
        \/ \E name \in PortNames(page) : focusPort(name)
        \/ removeSelection
        => drag' = drag
    BY DEF dropBlock, addConstant, addNewPort, addOfferedPort, AddPort, focusPort,
           removeSelection
  <2>5. \/ \E new \in Typed(NodeIds(page)) : renameBlock(new) \/ renameConstant(new)
        \/ \E new \in Typed(PortNames(page) \cup WiredPorts) : renamePort(new)
        \/ \E look \in Looks : patchSelected(look) \/ moveElement(look)
        => drag' = drag
    BY DEF renameBlock, renameConstant, renamePort, patchSelected, moveElement
  <2>6. \/ \E i \in DOMAIN page.connections : selectWire(i)
        \/ \E pin \in pinMap(page) : grabPin(pin)
        \/ moveDraft
        \/ \E d \in Arrivals : Arrive(d)
        => drag' = drag
    BY DEF selectWire, grabPin, moveDraft, Arrive
  <2>7. handleUp \/ pressSheet => drag' = Unselected
    BY DEF handleUp, pressSheet
  <2>8. UNCHANGED sheetVars => drag' = drag
    BY DEF sheetVars
  <2>9. QED
    BY <1>2, <2>1, <2>2, <2>3, <2>4, <2>5, <2>6, <2>7, <2>8 DEF SheetNext
<1>3. QED
  BY <1>1, <1>2, PTL DEF SheetSpec

(* A pointer move moves the element that was grabbed and no other, although it
   is looked up by its place or its name at every move (moveElement). *)
THEOREM MovesOnlyGrabbed == StoredSoundly => (SheetSpec => MovesGrabbed)
<1>1. ASSUME SheetInv, drag.kind # "wire",
             NEW look \in Looks, moveElement(look), blame = {}
      PROVE  Touched("block", page.blocks, page'.blocks)
           \cup Touched("constant", page.constants, page'.constants)
           \cup (UNION {Touched("port", page.interface[dir], page'.interface[dir])
                         : dir \in Dirs})
         = {[kind |-> drag.kind, id |-> drag.id]}
  BY <1>1, MoveTouches
<1>2. SheetInv /\ drag.kind # "wire" /\ [SheetNext]_sheetVars =>
        [\A look \in Looks :
           moveElement(look) /\ blame = {} =>
             Touched("block", page.blocks, page'.blocks)
               \cup Touched("constant", page.constants, page'.constants)
               \cup (UNION {Touched("port", page.interface[dir], page'.interface[dir])
                             : dir \in Dirs})
             = {[kind |-> drag.kind, id |-> drag.id]}]_sheetVars
  BY <1>1
<1>3. QED
  BY <1>2, SheetInvariant, NoWireDragged, PTL DEF SheetSpec, MovesGrabbed

-----------------------------------------------------------------------------
(* The results. *)

Call == [op : {"idle", "check", "analysis", "sim"}, st : {"sent", "served", "refused"},
         of : Nat, cycles : Nat, check : BOOLEAN]
Result == [shown : BOOLEAN, of : Nat, cycles : Nat]

CallsOK  == rev \in Nat /\ saved \in Nat /\ task \in [Slots -> Call]
ResultOK == result \in [Runs -> Result] /\ cycle \in Nat
MarksOK  == stale \in [Runs -> BOOLEAN] /\ matched \in [Runs -> BOOLEAN]

Inv == CallsOK /\ ResultOK /\ MarksOK /\ RunsOfThisChart /\ ShownCycleExists

(* What a step leaves alone keeps its part. *)
LEMMA ResultSame ==
  ASSUME Inv, UNCHANGED <<rev, stale, result, matched, cycle>>
  PROVE  ResultOK' /\ MarksOK' /\ RunsOfThisChart' /\ ShownCycleExists'
BY DEF Inv, ResultOK, MarksOK, RunsOfThisChart, ShownCycleExists, Fresh, Count

(* A call put into a slot is a call. *)
LEMMA PutCall ==
  ASSUME CallsOK, NEW i \in Slots, NEW t \in Call, task' = [task EXCEPT ![i] = t],
         UNCHANGED chart
  PROVE  CallsOK'
BY DEF CallsOK, chart

LEMMA IdleCall == Idle \in Call
BY DEF Idle, Call

LEMMA SentCall ==
  ASSUME NEW op \in {"check", "analysis", "sim"}, NEW n \in Nat, NEW b \in BOOLEAN
  PROVE  Sent(op, n, b) \in Call
BY DEF Sent, Call

LEMMA AnswerCall ==
  ASSUME CallsOK, NEW i \in Slots, NEW st \in {"served", "refused"}, NEW of \in Nat,
         Answer(i, st, of), UNCHANGED chart
  PROVE  CallsOK'
<1> DEFINE t == [op |-> task[i].op, st |-> st, of |-> of, cycles |-> task[i].cycles,
                 check |-> task[i].check]
<1>1. task[i] \in Call
  BY DEF CallsOK
<1>2. t \in Call
  BY <1>1 DEF Call
<1> HIDE DEF t
<1>3. task' = [task EXCEPT ![i] = t]
  BY DEF Answer, t
<1>4. QED
  BY <1>2, <1>3, PutCall

LEMMA PatchStep == ASSUME Inv, Patch PROVE Inv'
<1>1. CallsOK' /\ ResultOK'
  BY DEF Inv, Patch, CallsOK, ResultOK
<1>2. MarksOK' /\ \A m \in Runs : stale'[m]
  BY DEF Inv, Patch, MarksOK
<1>3. RunsOfThisChart'
  BY <1>2 DEF RunsOfThisChart, Fresh
<1>4. ShownCycleExists'
  BY DEF Inv, Patch, ShownCycleExists, Count
<1>5. QED
  BY <1>1, <1>2, <1>3, <1>4 DEF Inv

LEMMA StoredStep == ASSUME Inv, Stored PROVE Inv'
<1>1. CallsOK'
  BY DEF Inv, Stored, CallsOK
<1>2. QED
  BY <1>1, ResultSame DEF Inv, Stored, marks

LEMMA ReplayStep ==
  ASSUME Inv, Tick \/ \E n \in 0 .. MaxCycles : Scrub(n)
  PROVE  Inv'
<1>1. CallsOK' /\ MarksOK' /\ RunsOfThisChart' /\ result' = result
  BY DEF Inv, Tick, Scrub, chart, marks, CallsOK, MarksOK, RunsOfThisChart, Fresh
<1>2. Count \in Nat
  BY DEF Inv, ResultOK, Result, Runs, Count
<1>3. cycle' \in Nat /\ cycle' < Count
  BY <1>2 DEF Inv, ResultOK, Tick, Scrub
<1>4. QED
  BY <1>1, <1>3 DEF Inv, ResultOK, ShownCycleExists, Count

(* Starting, serving or refusing a call shows nothing yet. *)
LEMMA CallStep ==
  ASSUME Inv, NEW i \in Slots,
         RunAnalysis(i) \/ AutoAnalysis(i) \/ RunCheck(i) \/ RunSim(i)
           \/ Serve(i) \/ Refuse(i)
  PROVE  Inv'
<1>1. UNCHANGED <<rev, saved, stale, result, matched, cycle>>
  BY DEF RunAnalysis, AutoAnalysis, RunCheck, RunSim, Serve, Refuse, chart, marks
<1>2. ASSUME NEW op \in {"check", "analysis", "sim"}, NEW n \in Nat, Start(i, op, n)
      PROVE  CallsOK'
  BY <1>1, <1>2, SentCall, PutCall DEF Start, Inv, chart
<1>3. CASE Serve(i) \/ Refuse(i)
  BY <1>1, <1>3, AnswerCall, ResultSame DEF Serve, Refuse, Inv, CallsOK, chart
<1>4. CASE RunAnalysis(i) \/ AutoAnalysis(i) \/ RunCheck(i) \/ RunSim(i)
  <2>1. \E op \in {"check", "analysis", "sim"}, n \in Nat : Start(i, op, n)
    BY <1>4 DEF RunAnalysis, AutoAnalysis, RunCheck, RunSim
  <2>2. QED
    BY <1>1, <1>2, <2>1, ResultSame DEF Inv
<1>5. QED
  BY <1>3, <1>4

LEMMA AnalysisAnswerStep ==
  ASSUME Inv, NEW i \in Slots, AnalysisAnswer(i)
  PROVE  Inv'
<1>1. CallsOK'
  BY IdleCall, PutCall DEF Inv, AnalysisAnswer
<1>2. UNCHANGED <<rev, cycle>> /\ task[i] \in Call
  BY DEF Inv, CallsOK, AnalysisAnswer, chart
<1>3. CASE task[i].st = "served"
  <2> DEFINE r == [shown |-> TRUE, of |-> task[i].of, cycles |-> 0]
  <2>1. r \in Result
    BY <1>2 DEF Call, Result
  <2>2. result' = [result EXCEPT !["analysis"] = r]
    BY <1>3 DEF AnalysisAnswer
  <2>3. result'["analysis"].of = task[i].of /\ result'["sim"] = result["sim"]
        /\ result' \in [Runs -> Result]
    BY <2>1, <2>2 DEF Inv, ResultOK, Runs
  <2>4. /\ stale' \in [Runs -> BOOLEAN] /\ matched' \in [Runs -> BOOLEAN]
        /\ stale'["sim"] = stale["sim"] /\ matched'["sim"] = matched["sim"]
        /\ matched'["analysis"] = (task[i].of = rev)
    BY <1>3 DEF Inv, MarksOK, AnalysisAnswer, Runs
  <2>5. RunsOfThisChart'
    BY <1>2, <2>3, <2>4 DEF Inv, RunsOfThisChart, Fresh, Runs
  <2>6. ShownCycleExists'
    BY <1>2, <2>3 DEF Inv, ShownCycleExists, Count
  <2>7. QED
    BY <1>1, <1>2, <2>3, <2>4, <2>5, <2>6 DEF Inv, ResultOK, MarksOK
<1>4. CASE task[i].st # "served"
  BY <1>1, <1>2, <1>4, ResultSame DEF Inv, AnalysisAnswer
<1>5. QED
  BY <1>3, <1>4

LEMMA CheckAnswerStep ==
  ASSUME Inv, NEW i \in Slots, NEW ok \in BOOLEAN, CheckAnswer(i, ok)
  PROVE  Inv'
<1>1. UNCHANGED <<rev, saved, stale, result, matched, cycle>>
  BY DEF CheckAnswer, chart
<1>2. \E t \in Call : task' = [task EXCEPT ![i] = t]
  BY IdleCall, SentCall DEF CheckAnswer
<1>3. QED
  BY <1>1, <1>2, PutCall, ResultSame DEF Inv, chart

LEMMA SimAnswerStep ==
  ASSUME Inv, NEW i \in Slots, NEW ok \in BOOLEAN, SimAnswer(i, ok)
  PROVE  Inv'
<1>1. CallsOK'
  BY IdleCall, PutCall DEF Inv, SimAnswer
<1>2. rev' = rev /\ task[i] \in Call
  BY DEF Inv, CallsOK, SimAnswer, chart
<1>3. CASE task[i].st = "served"
  <2> DEFINE r == [shown |-> TRUE, of |-> task[i].of,
                   cycles |-> IF ok THEN task[i].cycles ELSE 0]
  <2>1. r \in Result /\ r.of = task[i].of
    BY <1>2 DEF Call, Result
  <2>2. result' = [result EXCEPT !["sim"] = r]
    BY <1>3 DEF SimAnswer
  <2> HIDE DEF r
  <2>3. result'["sim"].of = task[i].of /\ result'["analysis"] = result["analysis"]
        /\ result' \in [Runs -> Result]
    BY <2>1, <2>2 DEF Inv, ResultOK, Runs
  <2>4. /\ stale' \in [Runs -> BOOLEAN] /\ matched' \in [Runs -> BOOLEAN]
        /\ stale'["analysis"] = stale["analysis"]
        /\ matched'["analysis"] = matched["analysis"]
        /\ matched'["sim"] = (task[i].of = rev)
    BY <1>3 DEF Inv, MarksOK, SimAnswer, Runs
  <2>5. RunsOfThisChart'
    BY <1>2, <2>3, <2>4 DEF Inv, RunsOfThisChart, Fresh, Runs
  <2>6. cycle' = 0
    BY <1>3 DEF SimAnswer
  <2>7. ShownCycleExists'
    BY <2>3, <2>6 DEF ShownCycleExists, Count, Result, Runs
  <2>8. QED
    BY <1>1, <2>3, <2>4, <2>5, <2>6, <2>7 DEF Inv, ResultOK, MarksOK
<1>4. CASE task[i].st # "served"
  <2>1. result' = [result EXCEPT !["sim"] = Nothing] /\ UNCHANGED <<stale, cycle, matched>>
    BY <1>4 DEF SimAnswer
  <2>2. Nothing \in Result /\ ~Nothing.shown /\ Nothing.cycles = 0
    BY DEF Nothing, Result
  <2>3. result'["sim"] = Nothing /\ result'["analysis"] = result["analysis"]
        /\ result' \in [Runs -> Result]
    BY <2>1, <2>2 DEF Inv, ResultOK, Runs
  <2>4. RunsOfThisChart'
    BY <1>2, <2>1, <2>2, <2>3 DEF Inv, RunsOfThisChart, Fresh, Runs
  <2>5. ShownCycleExists'
    BY <2>2, <2>3 DEF ShownCycleExists, Count
  <2>6. QED
    BY <1>1, <2>1, <2>3, <2>4, <2>5 DEF Inv, ResultOK, MarksOK
<1>5. QED
  BY <1>3, <1>4

LEMMA InitInv == Init => Inv
<1>1. SUFFICES ASSUME Init PROVE Inv
  OBVIOUS
<1>2. CallsOK
  BY <1>1, IdleCall DEF Init, CallsOK
<1>3. Nothing \in Result /\ ~Nothing.shown /\ Nothing.cycles = 0
  BY DEF Nothing, Result
<1>4. ResultOK /\ MarksOK
  BY <1>1, <1>3 DEF Init, ResultOK, MarksOK
<1>5. RunsOfThisChart
  BY <1>1, <1>3 DEF Init, RunsOfThisChart, Fresh
<1>6. ShownCycleExists
  BY <1>1, <1>3 DEF Init, ShownCycleExists, Count, Runs
<1>7. QED
  BY <1>2, <1>4, <1>5, <1>6 DEF Inv

LEMMA NextInv == Inv /\ [Next]_vars => Inv'
<1>1. SUFFICES ASSUME Inv, [Next]_vars PROVE Inv'
  OBVIOUS
<1>2. CASE Patch \/ Stored \/ Tick \/ \E n \in 0 .. MaxCycles : Scrub(n)
  BY <1>1, <1>2, PatchStep, StoredStep, ReplayStep
<1>3. ASSUME NEW i \in Slots,
             RunAnalysis(i) \/ AutoAnalysis(i) \/ RunCheck(i) \/ RunSim(i)
               \/ Serve(i) \/ Refuse(i)
      PROVE  Inv'
  BY <1>1, <1>3, CallStep
<1>4. ASSUME NEW i \in Slots, Handle(i) PROVE Inv'
  BY <1>1, <1>4, AnalysisAnswerStep, CheckAnswerStep, SimAnswerStep DEF Handle
<1>5. CASE UNCHANGED vars
  <2>1. UNCHANGED <<rev, saved, task, stale, result, matched, cycle>>
    BY <1>5 DEF vars, chart, marks
  <2>2. CallsOK'
    BY <1>1, <2>1 DEF Inv, CallsOK
  <2>3. QED
    BY <1>1, <2>1, <2>2, ResultSame DEF Inv
<1>6. QED
  BY <1>1, <1>2, <1>3, <1>4, <1>5 DEF Next

(* A result that was of the chart on the sheet when it came never passes for
   fresh after an edit, whatever answers come in whatever order. *)
THEOREM FreshRunsMatch == Spec => []RunsOfThisChart
<1>1. Inv => RunsOfThisChart
  BY DEF Inv
<1>2. QED
  BY <1>1, InitInv, NextInv, PTL DEF Spec

(* The replayed cycle is a cycle of the run that is shown, for runs of any
   length replacing one another during a replay. *)
THEOREM ReplayInRange == Spec => []ShownCycleExists
<1>1. Inv => ShownCycleExists
  BY DEF Inv
<1>2. QED
  BY <1>1, InitInv, NextInv, PTL DEF Spec
===============================================================================
