---------------------------- MODULE Labels_proofs ----------------------------
(***************************************************************************)
(* Proofs about Labels and Topology: the arithmetic is exact wherever it   *)
(* does not refuse, and the first source that knows the accelerator is the *)
(* one that is believed.                                                   *)
(***************************************************************************)
EXTENDS Labels, SequenceTheorems, TLAPS

-----------------------------------------------------------------------------
(* The arithmetic.                                                         *)

\* Division as the loop's guard uses it.
LEMMA DivisionBound ==
  ASSUME NEW m \in Nat, NEW c \in Int, c > 0, NEW t \in Int, t <= m \div c
  PROVE  t * c <= m
<1>1. m \div c \in Int /\ (m \div c) * c <= m
  OBVIOUS
<1>2. t * c <= (m \div c) * c
  BY <1>1
<1> QED
  BY <1>1, <1>2

\* A machine integer is itself.
LEMMA WrappedInRange ==
  ASSUME NEW n \in Int, 0 <= n, n < IntLimit
  PROVE  Wrapped(n) = n
<1>1. (n + IntLimit) % (2 * IntLimit) = n + IntLimit
  BY BoundsAssumption
<1> QED
  BY <1>1, BoundsAssumption DEF Wrapped

\* One turn of the loop never wraps: it refuses, or returns the exact product
\* within the bound.
LEMMA MultiplyExact ==
  ASSUME NEW t \in Int, 1 <= t, NEW c \in Int
  PROVE  \A r \in Multiply(t, c) : r = t * c /\ r \in 1..MaxTotalChips
<1> SUFFICES ASSUME NEW r \in Multiply(t, c)
             PROVE  r = t * c /\ r \in 1..MaxTotalChips
  OBVIOUS
<1>1. c > 0 /\ t <= MaxTotalChips \div c /\ r = Wrapped(t * c)
  BY BoundsAssumption DEF Multiply, None, Some
<1>2. t * c <= MaxTotalChips
  BY <1>1, BoundsAssumption, DivisionBound
<1>3. t * c \in Int /\ 1 <= t * c
  BY <1>1
<1>4. Wrapped(t * c) = t * c
  BY <1>2, <1>3, BoundsAssumption, WrappedInRange
<1> QED
  BY <1>1, <1>2, <1>3, <1>4, BoundsAssumption

\* calculateTotalChips is exact: it refuses, or returns the true product of the
\* three dimensions, which is then at most maxTotalChips.
THEOREM TotalChipsExact ==
  ASSUME NEW dims \in Seq(Int), Len(dims) = 3
  PROVE  \A n \in TotalChips(dims) :
           n = SliceChips(dims) /\ n \in 1..MaxTotalChips
<1> SUFFICES ASSUME NEW n \in TotalChips(dims)
             PROVE  n = SliceChips(dims) /\ n \in 1..MaxTotalChips
  OBVIOUS
<1>1. dims # <<>> /\ dims[1] \in Int /\ dims[2] \in Int /\ dims[3] \in Int
  <2>1. dims # <<>>
    <3> SUFFICES ASSUME dims = <<>> PROVE FALSE
      OBVIOUS
    <3>1. Len(dims) = 0
      OBVIOUS
    <3> QED
      BY <3>1
  <2>2. 1 \in DOMAIN dims /\ 2 \in DOMAIN dims /\ 3 \in DOMAIN dims
    OBVIOUS
  <2> QED
    BY <2>1, <2>2
<1>2. PICK a \in Multiply(1, dims[1]) :
        n \in UNION {Multiply(ab, dims[3]) : ab \in Multiply(a, dims[2])}
  BY <1>1 DEF TotalChips
<1>3. PICK ab \in Multiply(a, dims[2]) : n \in Multiply(ab, dims[3])
  BY <1>2
<1>4. a = dims[1] /\ a \in 1..MaxTotalChips
  BY <1>1, <1>2, MultiplyExact
<1>5. ab = a * dims[2] /\ ab \in 1..MaxTotalChips
  <2>1. a \in Int /\ 1 <= a
    BY <1>4, BoundsAssumption
  <2> QED
    BY <2>1, <1>1, <1>3, MultiplyExact
<1>6. n = ab * dims[3] /\ n \in 1..MaxTotalChips
  <2>1. ab \in Int /\ 1 <= ab
    BY <1>5, BoundsAssumption
  <2> QED
    BY <2>1, <1>1, <1>3, MultiplyExact
<1> QED
  BY <1>4, <1>5, <1>6 DEF SliceChips

\* getTopologyDims returns three dimensions.
LEMMA ThreeDims ==
  ASSUME NEW t \in Seq(Int), NEW dims \in TopologyDims(t)
  PROVE  dims \in Seq(Int) /\ Len(dims) = 3
<1>1. Len(t) \in {2, 3} /\ dims = IF Len(t) = 2 THEN <<t[1], t[2], 1>> ELSE t
  BY DEF TopologyDims, None, Some
<1>2. CASE Len(t) = 2
  <2>1. t[1] \in Int /\ t[2] \in Int
    BY <1>2, \A i \in 1..Len(t) : t[i] \in Int
  <2>2. <<t[1], t[2], 1>> \in Seq(Int) /\ Len(<<t[1], t[2], 1>>) = 3
    BY <2>1
  <2> QED
    BY <1>1, <1>2, <2>2
<1>3. CASE Len(t) = 3
  BY <1>1, <1>3
<1> QED
  BY <1>1, <1>2, <1>3

-----------------------------------------------------------------------------
(* What is not refused.                                                    *)

\* The product of small dimensions is not refused.
LEMMA MultiplyAccepts ==
  ASSUME NEW t \in {1, 2}, NEW c \in {1, 2, 4}
  PROVE  Multiply(t, c) = {t * c}
<1>1. 8 \in DOMAIN ChipsPerHost /\ MaxTotalChips >= 8
  BY CapAssumption DEF ChipsPerHost
<1>2. t <= MaxTotalChips \div c
  <2>1. CASE c = 1
    BY <1>1, <2>1, BoundsAssumption
  <2>2. CASE c = 2
    BY <1>1, <2>2, BoundsAssumption
  <2>3. CASE c = 4
    BY <1>1, <2>3, BoundsAssumption
  <2> QED
    BY <2>1, <2>2, <2>3
<1>3. t * c \in Int /\ 0 <= t * c /\ t * c < IntLimit
  BY <1>1, BoundsAssumption
<1>4. Wrapped(t * c) = t * c
  BY <1>3, WrappedInRange
<1>5. ~(c <= 0 \/ t > MaxTotalChips \div c)
  BY <1>2, BoundsAssumption
<1> QED
  BY <1>4, <1>5 DEF Multiply, Some

\* Nor are topologies of a single host.
LEMMA HostTopologyAccepted ==
  ASSUME NEW a \in {1, 2}, NEW b \in {1, 2, 4}, NEW t, t = <<a, b>>
  PROVE  \E dims \in TopologyDims(t) : TotalChips(dims) # None
<1>1. TopologyDims(t) = {<<a, b, 1>>}
  <2>1. Len(t) = 2 /\ t[1] = a /\ t[2] = b /\ DOMAIN t = 1..2
    OBVIOUS
  <2>2. \A i \in DOMAIN t : t[i] > 0
    BY <2>1
  <2> QED
    BY <2>1, <2>2 DEF TopologyDims, Some
<1> DEFINE dims == <<a, b, 1>>
<1>2. dims # <<>> /\ dims[1] = a /\ dims[2] = b /\ dims[3] = 1
  <2>1. Len(dims) = 3 /\ Len(<<>>) = 0
    OBVIOUS
  <2> QED
    BY <2>1
<1>3. Multiply(1, a) = {a} /\ Multiply(a, b) = {a * b}
  BY MultiplyAccepts
<1>4. Multiply(a * b, 1) # {}
  <2>1. 8 \in DOMAIN ChipsPerHost /\ MaxTotalChips >= 8
    BY CapAssumption DEF ChipsPerHost
  <2>2. MaxTotalChips \div 1 = MaxTotalChips /\ a * b <= 8
    BY BoundsAssumption
  <2> QED
    BY <2>1, <2>2, BoundsAssumption DEF Multiply, Some
<1>5. TotalChips(dims) = UNION {UNION {Multiply(ab, dims[3]) : ab \in Multiply(x, dims[2])} :
                                  x \in Multiply(1, dims[1])}
  BY <1>2 DEF TotalChips
<1>6. TotalChips(dims) = Multiply(a * b, 1)
  BY <1>2, <1>3, <1>5
<1> QED
  BY <1>1, <1>4, <1>6 DEF None

\* singleHostTopology does not make up what is refused.
LEMMA InferredTopologyAccepted ==
  ASSUME NEW n \in DOMAIN ChipsPerHost
  PROVE  \E t \in SingleHostTopology(n) :
           \E dims \in TopologyDims(t) : TotalChips(dims) # None
<1>1. SingleHostTopology(n) = {SubSeq(ChipsPerHost[n], 1, 2)}
  BY DEF SingleHostTopology, Some
<1>2. SingleHostTopology(n) \in {{<<1, 1>>}, {<<1, 2>>}, {<<2, 2>>}, {<<2, 4>>}}
  <2>1. CASE n = 1
    BY <1>1, <2>1 DEF ChipsPerHost
  <2>2. CASE n = 2
    BY <1>1, <2>2 DEF ChipsPerHost
  <2>3. CASE n = 4
    BY <1>1, <2>3 DEF ChipsPerHost
  <2>4. CASE n = 8
    BY <1>1, <2>4 DEF ChipsPerHost
  <2> QED
    BY <2>1, <2>2, <2>3, <2>4 DEF ChipsPerHost
<1>3. PICK a \in {1, 2}, b \in {1, 2, 4} : SingleHostTopology(n) = {<<a, b>>}
  BY <1>2
<1> QED
  BY <1>3, HostTopologyAccepted

\* Labels with a valid accelerator, a number of chips a host may have and a
\* topology that is not refused have an environment.
LEMMA LabelsAccepted ==
  ASSUME NEW l, NEW n \in DOMAIN ChipsPerHost, n \in ChipCount(l),
         \E a \in l.accelerator : AcceleratorGen(a) # None,
         \E t \in l.topology : \E dims \in TopologyDims(t) : TotalChips(dims) # None
  PROVE  InitEnvs(l) # None
<1> DEFINE slice  == OnPodslice(l) /\ l.topology # None
           gens   == UNION {AcceleratorGen(a) : a \in l.accelerator}
           counts == {m \in ChipCount(l) : slice => m \in DOMAIN ChipsPerHost}
           dims   == IF l.topology = None THEN Some(<<>>)
                     ELSE {d \in Dims(l) : TotalChips(d) # None}
<1>1. PICK gen \in gens : TRUE
  BY DEF None
<1>2. n \in counts
  OBVIOUS
<1>3. PICK d \in dims : TRUE
  BY DEF Dims, None
<1>4. <<gen, n, d>> \in gens \X counts \X dims
  BY <1>1, <1>2, <1>3
<1>5. InitEnvs(l) = {Envs(x[1], x[2], x[3], slice) : x \in gens \X counts \X dims}
  BY DEF InitEnvs
<1> QED
  BY <1>4, <1>5 DEF None

-----------------------------------------------------------------------------
(* The sources.                                                            *)

\* A source that knows the accelerator, when none before it does, is believed.
LEMMA FirstIsFound ==
  ASSUME NEW offer, NEW failed, NEW n \in Nat, DOMAIN offer = 1..n,
         NEW i \in 1..n, Knows(offer, i, failed),
         \A j \in 1..(i - 1) : ~Knows(offer, j, failed)
  PROVE  Found(offer, failed) = Value(offer[i])
<1>1. FirstSource(offer, failed) = {i}
  <2>1. i \in FirstSource(offer, failed)
    BY DEF FirstSource
  <2>2. ASSUME NEW k \in FirstSource(offer, failed) PROVE k = i
    <3>1. k \in 1..n /\ Knows(offer, k, failed)
          /\ \A j \in 1..(k - 1) : ~Knows(offer, j, failed)
      BY DEF FirstSource
    <3>2. ~(k < i) /\ ~(i < k)
      BY <3>1
    <3> QED
      BY <3>1, <3>2
  <2> QED
    BY <2>1, <2>2
<1>2. Value(FirstSource(offer, failed)) = i
  BY <1>1 DEF Value
<1> QED
  BY <1>1, <1>2 DEF Found, None

\* When no source knows it, the labels are empty.
LEMMA NothingFound ==
  ASSUME NEW offer, NEW failed,
         \A j \in DOMAIN offer : ~Knows(offer, j, failed)
  PROVE  Found(offer, failed) = Unlabelled
<1>1. FirstSource(offer, failed) = {}
  BY DEF FirstSource
<1> QED
  BY <1>1 DEF Found, None
=============================================================================
