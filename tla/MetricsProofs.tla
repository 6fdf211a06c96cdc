--------------------------- MODULE MetricsProofs ----------------------------
(***************************************************************************)
(* Proofs about Metrics, for any threads and connections and any number of *)
(* datagrams: what a scrape answers lies between what was counted when it  *)
(* took the registry's lock and what is counted when it writes, and lacks  *)
(* the bytes of no more datagrams than there are threads.                  *)
(*                                                                         *)
(* A family in which anything is counted is registered (Registration), and *)
(* the registry stands still under a scrape, whose answer is made of       *)
(* values since its beginning, one for each family in turn (Encoding).     *)
(***************************************************************************)
EXTENDS Metrics, FiniteSetTheorems, SequenceTheorems, TLAPS

(* The types, without the bounds.                                            *)
Types ==
  /\ lazy \in [Family -> {"unset", "set"} \cup Threads]
  /\ registry \in Seq(Family)
  /\ counter \in [Family -> Nat]
  /\ readers \subseteq Clients
  /\ scrape_pc \in [Clients -> {"none", "read", "header", "lock", "encode", "write"}]
  /\ answer \in [Clients -> Seq(Nat)]
  /\ floor \in [Clients -> [Family -> Nat]]
  /\ process \in {"up", "aborted"}

Registered(f) == \E i \in 1 .. Len(registry) : registry[i] = f

Registration ==
  \A f \in Family :
    /\ lazy[f] = "set" => Registered(f)
    /\ counter[f] # 0 => Registered(f)

(* What a connection has encoded; one that does not hold the lock has        *)
(* nothing.                                                                  *)
Encoding(c) ==
  /\ c \in readers <=> scrape_pc[c] \in {"encode", "write"}
  /\ c \notin readers => answer[c] = <<>>
  /\ Len(answer[c]) <= Len(registry)
  /\ scrape_pc[c] = "write" => Len(answer[c]) = Len(registry)
  /\ \A f \in Family : floor[c][f] <= counter[f]
  /\ \A i \in 1 .. Len(answer[c]) :
       floor[c][registry[i]] <= answer[c][i] /\ answer[c][i] <= counter[registry[i]]

IInv == Types /\ Registration /\ \A c \in Clients : Encoding(c)

-----------------------------------------------------------------------------
(* Lemma: the initial state satisfies the invariant.                         *)
LEMMA InitHolds == Init => IInv
BY DEF Init, IInv, Types, Registration, Registered, Encoding, Zero

(* Lemma: what begins anew satisfies it.                                     *)
LEMMA RestartHolds == Restart => IInv'
BY DEF Restart, IInv, Types, Registration, Registered, Encoding, Zero

(* Lemma: a family that is forced is not set yet.                            *)
LEMMA ForceKeeps ==
  ASSUME IInv, NEW t \in Threads, NEW f \in Family, ForceLazy(t, f)
  PROVE  IInv'
<1> USE DEF ForceLazy, scrapeVars
<1>1. t # "set"
  BY MetricsAssumption
<1>2. Types'
  BY DEF IInv, Types
<1>3. Registration'
  BY <1>1 DEF IInv, Types, Registration, Registered
<1>4. \A c \in Clients : Encoding(c)'
  BY DEF IInv, Encoding
<1> QED BY <1>2, <1>3, <1>4 DEF IInv

(* Lemma: the registry grows only while no scrape is under way.              *)
LEMMA RegisterKeeps ==
  ASSUME IInv, NEW t \in Threads, NEW f \in Family, register(t, f)
  PROVE  IInv'
<1> USE DEF register, scrapeVars
<1>0. registry \in Seq(Family) /\ registry' = Append(registry, f)
  BY DEF IInv, Types
<1>1. /\ Len(registry') = Len(registry) + 1
      /\ \A i \in 1 .. Len(registry) : registry'[i] = registry[i]
      /\ registry'[Len(registry) + 1] = f
      /\ Len(registry) \in Nat
  BY <1>0
<1>2. Types'
  BY <1>0 DEF IInv, Types
<1>3. Registration'
  <2>1. \A g \in Family : Registered(g) => Registered(g)'
    BY <1>1 DEF Registered
  <2>2. Registered(f)'
    BY <1>1 DEF Registered
  <2> QED BY <2>1, <2>2 DEF IInv, Types, Registration
<1>4. ASSUME NEW c \in Clients PROVE Encoding(c)'
  <2>1. answer[c] = <<>> /\ scrape_pc[c] \notin {"encode", "write"}
    BY DEF IInv, Encoding
  <2> QED BY <1>1, <2>1 DEF IInv, Encoding
<1> QED BY <1>2, <1>3, <1>4 DEF IInv

(* Lemma: a count raises one counter, of a family that is registered.        *)
LEMMA IncrementKeeps ==
  ASSUME IInv, NEW t \in Threads, NEW f \in Family, Increment(t, f)
  PROVE  IInv'
<1> USE DEF Increment, scrapeVars
<1>1. Types'
  BY DEF IInv, Types
<1>2. \A g \in Family : /\ counter[g] \in Nat /\ counter'[g] \in Nat
                        /\ counter[g] <= counter'[g]
                        /\ g # f => counter'[g] = counter[g]
  BY DEF IInv, Types
<1>3. Registration'
  BY <1>2 DEF IInv, Registration, Registered
<1>4. ASSUME NEW c \in Clients PROVE Encoding(c)'
  <2>1. answer[c] \in Seq(Nat) /\ registry \in Seq(Family) /\ floor[c] \in [Family -> Nat]
    BY DEF IInv, Types
  <2>2. Encoding(c) /\ Len(answer[c]) \in Nat /\ Len(registry) \in Nat
    BY <2>1 DEF IInv
  <2>3. \A i \in 1 .. Len(answer[c]) :
          answer[c][i] \in Nat /\ registry[i] \in Family
    <3> HIDE DEF Increment
    <3> QED BY <2>1, <2>2 DEF Encoding
  <2>4. UNCHANGED <<registry, readers, scrape_pc, answer, floor>>
    OBVIOUS
  <2>5. \A i \in 1 .. Len(answer[c]) :
          answer[c][i] <= counter[registry[i]] => answer[c][i] <= counter'[registry[i]]
    <3> HIDE DEF Increment
    <3> QED BY <1>2, <2>3
  <2>6. \A g \in Family : floor[c][g] <= counter[g] => floor[c][g] <= counter'[g]
    <3> HIDE DEF Increment
    <3> QED BY <1>2, <2>1
  <2> HIDE DEF Increment
  <2> QED BY <2>2, <2>4, <2>5, <2>6 DEF Encoding
<1> QED BY <1>1, <1>3, <1>4 DEF IInv

(* Lemma: so do the steps of a connection before and after it holds the lock.*)
LEMMA ConnectionKeeps ==
  ASSUME IInv, NEW c \in Clients,
         Accept(c) \/ handle_read(c) \/ handle_read_panics(c) \/ WriteHeader(c)
           \/ LockRegistry(c) \/ WriteAnswer(c)
  PROVE  IInv'
<1> USE DEF IInv, Types, countVars, scrapeVars
<1>0. Registration'
  BY DEF Accept, handle_read, handle_read_panics, WriteHeader, LockRegistry, WriteAnswer,
         Registration, Registered
<1>1. CASE Accept(c) \/ handle_read(c) \/ handle_read_panics(c) \/ WriteHeader(c)
  BY <1>0, <1>1 DEF Accept, handle_read, handle_read_panics, WriteHeader, Encoding
<1>2. CASE LockRegistry(c)
  BY <1>0, <1>2 DEF LockRegistry, Encoding
<1>3. CASE WriteAnswer(c)
  BY <1>0, <1>3 DEF WriteAnswer, Encoding, Zero
<1> QED BY <1>1, <1>2, <1>3

(* Lemma: the next family's value is its counter, which is not below the     *)
(* floor.                                                                    *)
LEMMA EncodeKeeps ==
  ASSUME IInv, NEW c \in Clients, EncodeFamily(c)
  PROVE  IInv'
<1> USE DEF countVars
<1>0. /\ answer[c] \in Seq(Nat) /\ registry \in Seq(Family)
      /\ counter \in [Family -> Nat]
      /\ scrape_pc[c] = "encode" /\ Len(answer[c]) \in Nat /\ Len(registry) \in Nat
  BY DEF IInv, Types, EncodeFamily
<1>1. Registration'
  BY DEF IInv, Registration, Registered, EncodeFamily
<1>2. ASSUME NEW b \in Clients, b # c PROVE Encoding(b)'
  BY <1>2 DEF IInv, Types, Encoding, EncodeFamily
<1>3. CASE Len(answer[c]) < Len(registry)
  <2>1. Encoded(c) \in Family
    BY <1>0, <1>3 DEF Encoded
  <2>2. answer' = [answer EXCEPT ![c] = Append(answer[c], counter[Encoded(c)])]
    BY <1>3 DEF EncodeFamily
  <2>3. Types'
    BY <1>0, <1>3, <2>1, <2>2 DEF IInv, Types, EncodeFamily
  <2>4. /\ answer'[c] = Append(answer[c], counter[Encoded(c)])
        /\ Len(answer'[c]) = Len(answer[c]) + 1
        /\ \A i \in 1 .. Len(answer[c]) : answer'[c][i] = answer[c][i]
        /\ answer'[c][Len(answer[c]) + 1] = counter[Encoded(c)]
    BY <1>0, <2>1, <2>2 DEF IInv, Types
  <2>5. Encoding(c)'
    <3>1. Encoding(c) /\ c \in readers
      BY <1>0 DEF IInv, Encoding
    <3>2. UNCHANGED <<registry, counter, readers, floor, scrape_pc>>
      BY <1>3 DEF EncodeFamily
    <3>3. floor[c][Encoded(c)] <= counter[Encoded(c)] /\ counter[Encoded(c)] \in Nat
      BY <1>0, <2>1, <3>1 DEF Encoding
    <3>4. ASSUME NEW i \in 1 .. Len(answer'[c])
          PROVE  /\ floor[c][registry[i]] <= answer'[c][i]
                 /\ answer'[c][i] <= counter[registry[i]]
      <4>1. CASE i = Len(answer[c]) + 1
        BY <2>4, <3>3, <4>1 DEF Encoded
      <4>2. CASE i \in 1 .. Len(answer[c])
        BY <2>4, <3>1, <4>2 DEF Encoding
      <4> QED BY <1>0, <2>4, <4>1, <4>2
    <3>5. Len(answer'[c]) <= Len(registry)
      BY <1>0, <1>3, <2>4
    <3> QED BY <1>0, <3>1, <3>2, <3>4, <3>5 DEF Encoding
  <2> QED BY <1>1, <1>2, <2>3, <2>5 DEF IInv
<1>4. CASE ~(Len(answer[c]) < Len(registry))
  <2>1. Types'
    BY <1>4 DEF IInv, Types, EncodeFamily
  <2>2. Encoding(c)'
    BY <1>0, <1>4 DEF IInv, Types, Encoding, EncodeFamily
  <2> QED BY <1>1, <1>2, <2>1, <2>2 DEF IInv
<1> QED BY <1>3, <1>4

(* Lemma: every step keeps the invariant.                                    *)
LEMMA NextKeeps == IInv /\ [Next]_vars => IInv'
<1> SUFFICES ASSUME IInv, [Next]_vars PROVE IInv'
  OBVIOUS
<1>1. ASSUME NEW t \in Threads, Count(t) PROVE IInv'
  BY <1>1, ForceKeeps, RegisterKeeps, IncrementKeeps DEF Count
<1>2. ASSUME NEW t \in Threads, NEW d \in Directions, Datagram(t, d) PROVE IInv'
  BY <1>2 DEF Datagram, scrapeVars, IInv, Types, Registration, Registered, Encoding
<1>3. ASSUME NEW c \in Clients,
             Accept(c) \/ handle_read(c) \/ handle_read_panics(c) \/ handle_write(c)
      PROVE  IInv'
  BY <1>3, ConnectionKeeps, EncodeKeeps DEF handle_write
<1>4. CASE UNCHANGED vars
  BY <1>4 DEF vars, countVars, scrapeVars, IInv, Types, Registration, Registered, Encoding
<1> QED BY <1>1, <1>2, <1>3, <1>4, RestartHolds DEF Next

-----------------------------------------------------------------------------
(* Every value of an answer was true at some time since its scrape began,    *)
(* and so was 0 for each family that it does not have.                       *)
THEOREM ScrapesAreFaithful == Spec => []ScrapeFaithful
<1>1. IInv => ScrapeFaithful
  <2> SUFFICES ASSUME IInv, NEW c \in Clients, NEW f \in Family, scrape_pc[c] = "write"
               PROVE  Answered(c, f) \in floor[c][f] .. counter[f]
    BY DEF ScrapeFaithful
  <2> DEFINE places == {i \in DOMAIN answer[c] : registry[i] = f}
  <2>0. /\ DOMAIN answer[c] = 1 .. Len(answer[c])
        /\ Len(answer[c]) = Len(registry)
        /\ floor[c][f] \in Nat /\ counter[f] \in Nat /\ floor[c][f] <= counter[f]
        /\ \A i \in 1 .. Len(answer[c]) : answer[c][i] \in Nat
    BY DEF IInv, Types, Encoding
  <2>1. CASE places = {}
    <3>1. ~Registered(f)
      BY <2>0, <2>1 DEF Registered
    <3>2. counter[f] = 0
      BY <3>1 DEF IInv, Registration
    <3>3. Answered(c, f) = 0
      BY <2>1 DEF Answered
    <3> QED BY <2>0, <3>2, <3>3
  <2>2. CASE places # {}
    <3> DEFINE i == CHOOSE i \in places : TRUE
    <3>1. i \in places
      BY <2>2
    <3>2. Answered(c, f) = answer[c][i]
      BY <2>2 DEF Answered
    <3>3. i \in 1 .. Len(answer[c]) /\ registry[i] = f
      BY <2>0, <3>1
    <3>4. answer[c][i] \in Nat /\ floor[c][f] <= answer[c][i] /\ answer[c][i] <= counter[f]
      <4> HIDE DEF i
      <4> QED BY <2>0, <3>3 DEF IInv, Encoding
    <3> QED
      <4> HIDE DEF i
      <4> QED BY <2>0, <3>2, <3>4
  <2> QED BY <2>1, <2>2
<1> QED BY <1>1, InitHolds, NextKeeps, PTL DEF Spec

-----------------------------------------------------------------------------
(* The second argument: the two families of a direction.                     *)

count(d) == <<d, "count">>
bytes(d) == <<d, "bytes">>

Owing(d) == {t \in Threads : calls[t] = <<bytes(d)>>}
Starting(d) == {t \in Threads : calls[t] = <<count(d), bytes(d)>>}

(* A thread counts, then adds the bytes.                                     *)
Calls ==
  /\ calls \in [Threads -> Seq(Family)]
  /\ \A t \in Threads :
       calls[t] = <<>> \/ \E d \in Directions : t \in Owing(d) \cup Starting(d)

(* The count lacks the datagrams a thread has begun to count, the bytes also *)
(* those whose bytes a thread has yet to add.                                *)
Sums ==
  \A d \in Directions :
    /\ counter[count(d)] = counter[bytes(d)] + Cardinality(Owing(d))
    /\ counter[count(d)] + Cardinality(Starting(d)) <= MaxDatagrams

(* The count of a direction comes before its bytes in all that a thread does.*)
CountFirst ==
  /\ \A d \in Directions : lazy[bytes(d)] # "unset" \/ Owing(d) # {} => lazy[count(d)] = "set"
  /\ \A i \in 1 .. Len(registry) : lazy[registry[i]] = "set"
  /\ \A i, j \in 1 .. Len(registry) : registry[i] = registry[j] => i = j
  /\ \A d \in Directions, j \in 1 .. Len(registry) :
       registry[j] = bytes(d) =>
         \E i \in 1 .. Len(registry) : i < j /\ registry[i] = count(d)

(* ... and so in an answer.                                                  *)
Behind ==
  \A c \in Clients, d \in Directions, i, j \in 1 .. Len(registry) :
    (i <= Len(answer[c]) /\ j <= Len(answer[c])
      /\ registry[i] = count(d) /\ registry[j] = bytes(d))
        => answer[c][i] <= answer[c][j] + Cardinality(Threads)

Order == IInv /\ Calls /\ Sums /\ CountFirst /\ Behind

(* Lemma: the families are told apart by direction and kind.                 *)
LEMMA Families ==
  /\ \A d \in Directions : count(d) \in Family /\ bytes(d) \in Family
  /\ \A d, e \in Directions : /\ count(d) # bytes(e)
                              /\ d # e => count(d) # count(e) /\ bytes(d) # bytes(e)
  /\ \A f \in Family : \E d \in Directions : f = count(d) \/ f = bytes(d)
BY DEF Family, count, bytes

(* Lemma: the calls of a datagram, before and after the first of them.       *)
LEMMA Hands ==
  ASSUME NEW d \in Directions
  PROVE  /\ Head(<<count(d), bytes(d)>>) = count(d)
         /\ Tail(<<count(d), bytes(d)>>) = <<bytes(d)>>
         /\ Head(<<bytes(d)>>) = bytes(d)
         /\ Tail(<<bytes(d)>>) = <<>>
         /\ <<bytes(d)>> # <<>> /\ <<count(d), bytes(d)>> # <<>>
         /\ \A e \in Directions : /\ <<count(d), bytes(d)>> # <<bytes(e)>>
                                 /\ d # e => /\ <<bytes(d)>> # <<bytes(e)>>
                                             /\ <<count(d), bytes(d)>> # <<count(e), bytes(e)>>
BY Families

(* Lemma: a set of threads is finite, and has no more than all of them.      *)
LEMMA ThreadSets ==
  ASSUME NEW T, T \subseteq Threads
  PROVE  /\ IsFiniteSet(T) /\ Cardinality(T) \in Nat
         /\ Cardinality(Threads) \in Nat /\ Cardinality(T) <= Cardinality(Threads)
         /\ \A t \in Threads : /\ t \notin T => Cardinality(T \cup {t}) = Cardinality(T) + 1
                               /\ t \in T => Cardinality(T \ {t}) = Cardinality(T) - 1
<1>1. IsFiniteSet(Threads)
  BY MetricsAssumption
<1>2. IsFiniteSet(T) /\ Cardinality(T) <= Cardinality(Threads)
  BY <1>1, FS_Subset
<1> QED BY <1>1, <1>2, FS_CardinalityType, FS_AddElement, FS_RemoveElement

(* Lemma: the initial state.                                                 *)
LEMMA OrderInit ==
  (/\ calls = [t \in Threads |-> <<>>] /\ lazy = [f \in Family |-> "unset"]
   /\ registry = <<>> /\ counter = Zero)
     => Calls /\ Sums /\ CountFirst /\ Behind
<1> SUFFICES ASSUME calls = [t \in Threads |-> <<>>], lazy = [f \in Family |-> "unset"],
                    registry = <<>>, counter = Zero
             PROVE  Calls /\ Sums /\ CountFirst /\ Behind
  OBVIOUS
<1>1. Calls
  BY DEF Calls
<1>2. \A d \in Directions : Owing(d) = {} /\ Starting(d) = {}
  BY DEF Owing, Starting
<1>3. Sums
  <2>1. \A d \in Directions : counter[count(d)] = 0 /\ counter[bytes(d)] = 0
    BY Families DEF Zero
  <2>2. Cardinality({}) = 0
    BY FS_EmptySet
  <2>3. \A d \in Directions : Cardinality(Owing(d)) = 0 /\ Cardinality(Starting(d)) = 0
    BY <1>2, <2>2
  <2>4. MaxDatagrams \in Nat
    BY MetricsAssumption
  <2> QED BY <2>1, <2>3, <2>4 DEF Sums
<1>4. CountFirst /\ Behind
  BY <1>2, Families DEF CountFirst, Behind
<1> QED BY <1>1, <1>3, <1>4

(* Lemma: the state after a restart.                                         *)
LEMMA OrderAnew ==
  (/\ calls' = [t \in Threads |-> <<>>] /\ lazy' = [f \in Family |-> "unset"]
   /\ registry' = <<>> /\ counter' = Zero)
     => Calls' /\ Sums' /\ CountFirst' /\ Behind'
<1>1. (/\ calls = [t \in Threads |-> <<>>] /\ lazy = [f \in Family |-> "unset"]
       /\ registry = <<>> /\ counter = Zero)'
        => (Calls /\ Sums /\ CountFirst /\ Behind)'
  BY OrderInit, PTL
<1>2. Zero' = Zero
  BY DEF Zero
<1> QED BY <1>1, <1>2

(* Lemma: what a thread that has work to do has in its hands.                *)
LEMMA InHand ==
  ASSUME Calls, NEW t \in Threads, NEW f \in Family, calls[t] # <<>>, f = Head(calls[t])
  PROVE  \E d \in Directions :
           \/ f = count(d) /\ t \in Starting(d) /\ Tail(calls[t]) = <<bytes(d)>>
           \/ f = bytes(d) /\ t \in Owing(d) /\ Tail(calls[t]) = <<>>
<1>1. PICK d \in Directions : t \in Owing(d) \cup Starting(d)
  BY DEF Calls
<1>2. CASE t \in Owing(d)
  BY <1>2, Hands DEF Owing
<1>3. CASE t \in Starting(d)
  BY <1>3, Hands DEF Starting
<1> QED BY <1>1, <1>2, <1>3

(* Lemma: a datagram is one more that is begun.                              *)
LEMMA DatagramOrder ==
  ASSUME Order, NEW t \in Threads, NEW d \in Directions, Datagram(t, d)
  PROVE  Calls' /\ Sums' /\ CountFirst' /\ Behind'
<1>1. /\ calls[t] = <<>> /\ calls' = [calls EXCEPT ![t] = <<count(d), bytes(d)>>]
      /\ Datagrams(d) < MaxDatagrams
      /\ UNCHANGED <<lazy, registry, counter, answer>>
  BY DEF Datagram, scrapeVars, count, bytes
<1>2. calls \in [Threads -> Seq(Family)] /\ <<count(d), bytes(d)>> \in Seq(Family)
  BY Families DEF Order, Calls
<1>3. /\ \A e \in Directions : Owing(e)' = Owing(e)
      /\ \A e \in Directions \ {d} : Starting(e)' = Starting(e)
      /\ Starting(d)' = Starting(d) \cup {t} /\ t \notin Starting(d)
  <2> DEFINE begin == <<count(d), bytes(d)>>
  <2>1. \A s \in Threads : calls'[s] = IF s = t THEN begin ELSE calls[s]
    BY <1>1, <1>2
  <2>2. \A e \in Directions : /\ begin # <<bytes(e)>> /\ <<>> # <<bytes(e)>>
                              /\ <<>> # <<count(e), bytes(e)>>
                              /\ e # d => begin # <<count(e), bytes(e)>>
    BY Hands
  <2>3. \A e \in Directions : Owing(e)' = Owing(e)
    <3> HIDE DEF begin
    <3> QED BY <1>1, <2>1, <2>2 DEF Owing
  <2>4. \A e \in Directions \ {d} : Starting(e)' = Starting(e)
    <3> HIDE DEF begin
    <3> QED BY <1>1, <2>1, <2>2 DEF Starting
  <2>5. Starting(d)' = Starting(d) \cup {t} /\ t \notin Starting(d)
    BY <1>1, <2>1, <2>2 DEF Starting
  <2> QED BY <2>3, <2>4, <2>5
<1>4. Calls'
  BY <1>1, <1>2, <1>3 DEF Order, Calls
<1>5. Sums'
  <2> DEFINE begun == {s \in Threads : <<d, "count">> \in ToSet(calls[s])}
  <2>1. Starting(d) \subseteq begun
    <3>1. ASSUME NEW s \in Starting(d) PROVE count(d) \in ToSet(calls[s])
      <4>1. calls[s] = <<count(d), bytes(d)>>
        BY DEF Starting
      <4>2. 1 \in DOMAIN calls[s] /\ calls[s][1] = count(d)
        BY <4>1
      <4> QED BY <4>2 DEF ToSet
    <3> QED BY <3>1 DEF count, Starting
  <2>2. IsFiniteSet(begun)
    BY ThreadSets
  <2>3. Cardinality(Starting(d)) <= Cardinality(begun)
    BY <2>1, <2>2, FS_Subset
  <2>4. counter[count(d)] + Cardinality(begun) < MaxDatagrams
    BY <1>1 DEF Datagrams, count
  <2>5. /\ Cardinality(Starting(d)') = Cardinality(Starting(d)) + 1
        /\ Cardinality(Starting(d)) \in Nat /\ Cardinality(begun) \in Nat
    <3>1. Starting(d) \subseteq Threads /\ begun \subseteq Threads
      BY DEF Starting
    <3> HIDE DEF begun
    <3> QED BY <1>3, <3>1, ThreadSets
  <2>6. counter[count(d)] \in Nat /\ MaxDatagrams \in Nat
    BY Families, MetricsAssumption DEF Order, IInv, Types
  <2>7. counter[count(d)] + Cardinality(Starting(d)') <= MaxDatagrams
    <3> HIDE DEF begun
    <3> QED BY <2>3, <2>4, <2>5, <2>6
  <2> QED BY <1>1, <1>3, <2>7 DEF Order, Sums
<1>6. CountFirst' /\ Behind'
  BY <1>1, <1>3 DEF Order, CountFirst, Behind
<1> QED BY <1>4, <1>5, <1>6

(* Lemma: a thread forces the bytes only after it has counted.               *)
LEMMA ForceOrder ==
  ASSUME Order, NEW t \in Threads, NEW f \in Family, ForceLazy(t, f)
  PROVE  Calls' /\ Sums' /\ CountFirst' /\ Behind'
<1>1. /\ calls[t] # <<>> /\ f = Head(calls[t]) /\ lazy[f] = "unset"
      /\ lazy' = [lazy EXCEPT ![f] = t]
      /\ UNCHANGED <<calls, registry, counter, answer>>
  BY DEF ForceLazy, scrapeVars
<1>2. \A d \in Directions : Owing(d)' = Owing(d) /\ Starting(d)' = Starting(d)
  BY <1>1 DEF Owing, Starting
<1>3. Calls' /\ Sums' /\ Behind'
  BY <1>1, <1>2 DEF Order, Calls, Sums, Behind
<1>4. /\ lazy \in [Family -> {"unset", "set"} \cup Threads]
      /\ registry \in Seq(Family)
  BY DEF Order, IInv, Types
<1>5. \A g \in Family : lazy[g] = "set" => lazy'[g] = "set"
  BY <1>1, <1>4
<1>6. \A d \in Directions : lazy'[bytes(d)] # "unset" \/ Owing(d) # {} => lazy[count(d)] = "set"
  <2>1. \A d \in Directions : f = bytes(d) => t \in Owing(d)
    BY <1>1, InHand, Families DEF Order
  <2>2. \A d \in Directions : f # bytes(d) => lazy'[bytes(d)] = lazy[bytes(d)]
    BY <1>1, <1>4, Families
  <2> QED BY <2>1, <2>2 DEF Order, CountFirst
<1>7. CountFirst'
  BY <1>1, <1>2, <1>4, <1>5, <1>6, Families DEF Order, CountFirst
<1> QED BY <1>3, <1>7

(* Lemma: families are registered once, and the bytes after the count.       *)
LEMMA RegisterOrder ==
  ASSUME Order, NEW t \in Threads, NEW f \in Family, register(t, f)
  PROVE  Calls' /\ Sums' /\ CountFirst' /\ Behind'
<1>1. /\ lazy[f] = t /\ readers = {}
      /\ registry' = Append(registry, f)
      /\ lazy' = [lazy EXCEPT ![f] = "set"]
      /\ UNCHANGED <<calls, counter, answer>>
      /\ t # "set" /\ t # "unset"
  BY MetricsAssumption DEF register, scrapeVars
<1>2. \A d \in Directions : Owing(d)' = Owing(d) /\ Starting(d)' = Starting(d)
  BY <1>1 DEF Owing, Starting
<1>3. /\ lazy \in [Family -> {"unset", "set"} \cup Threads]
      /\ registry \in Seq(Family)
  BY DEF Order, IInv, Types
<1>4. /\ Len(registry) \in Nat /\ Len(registry') = Len(registry) + 1
      /\ \A i \in 1 .. Len(registry) : registry'[i] = registry[i] /\ registry[i] \in Family
      /\ registry'[Len(registry) + 1] = f
  BY <1>1, <1>3
<1>5. Calls' /\ Sums'
  BY <1>1, <1>2 DEF Order, Calls, Sums
<1>6. Behind'
  <2>1. \A c \in Clients : answer[c] = <<>>
    BY <1>1 DEF Order, IInv, Encoding
  <2> QED BY <1>1, <1>4, <2>1 DEF Behind
<1>7. \A g \in Family : /\ lazy[g] = "set" => lazy'[g] = "set"
                        /\ lazy'[g] # "unset" => lazy[g] # "unset"
                        /\ lazy'[f] = "set"
  BY <1>1, <1>3
<1>8. \A i \in 1 .. Len(registry) : registry[i] # f
  BY <1>1 DEF Order, CountFirst
<1>9. ASSUME NEW d \in Directions, f = bytes(d)
      PROVE  \E i \in 1 .. Len(registry) : registry[i] = count(d)
  <2>1. lazy[count(d)] = "set"
    BY <1>1, <1>9 DEF Order, CountFirst
  <2> QED BY <2>1, Families DEF Order, IInv, Registration, Registered
<1>10. CountFirst'
  <2>1. \A d \in Directions : lazy'[bytes(d)] # "unset" \/ Owing(d)' # {} => lazy'[count(d)] = "set"
    BY <1>2, <1>7, Families DEF Order, CountFirst
  <2>2. \A i \in 1 .. Len(registry') : lazy'[registry'[i]] = "set"
    BY <1>4, <1>7 DEF Order, CountFirst
  <2>3. \A i, j \in 1 .. Len(registry') : registry'[i] = registry'[j] => i = j
    BY <1>4, <1>8 DEF Order, CountFirst
  <2>4. ASSUME NEW d \in Directions, NEW j \in 1 .. Len(registry'), registry'[j] = bytes(d)
        PROVE  \E i \in 1 .. Len(registry') : i < j /\ registry'[i] = count(d)
    <3>1. CASE j = Len(registry) + 1
      BY <1>4, <1>9, <2>4, <3>1
    <3>2. CASE j \in 1 .. Len(registry)
      <4>1. PICK i \in 1 .. Len(registry) : i < j /\ registry[i] = count(d)
        BY <1>4, <2>4, <3>2 DEF Order, CountFirst
      <4> QED BY <1>4, <4>1
    <3> QED BY <1>4, <3>1, <3>2
  <2> QED BY <2>1, <2>2, <2>3, <2>4 DEF CountFirst
<1> QED BY <1>5, <1>6, <1>10

(* Lemma: a datagram that is counted owes its bytes, and then it does not.   *)
LEMMA IncrementOrder ==
  ASSUME Order, NEW t \in Threads, NEW f \in Family, Increment(t, f)
  PROVE  Calls' /\ Sums' /\ CountFirst' /\ Behind'
<1>1. /\ calls[t] # <<>> /\ f = Head(calls[t]) /\ lazy[f] = "set"
      /\ counter' = [counter EXCEPT ![f] = counter[f] + 1]
      /\ calls' = [calls EXCEPT ![t] = Tail(calls[t])]
      /\ UNCHANGED <<lazy, registry, answer>>
  BY DEF Increment, scrapeVars
<1>2. calls \in [Threads -> Seq(Family)] /\ counter \in [Family -> Nat]
  BY DEF Order, Calls, IInv, Types
<1>3. PICK d \in Directions :
        \/ f = count(d) /\ t \in Starting(d) /\ Tail(calls[t]) = <<bytes(d)>>
        \/ f = bytes(d) /\ t \in Owing(d) /\ Tail(calls[t]) = <<>>
  BY <1>1, InHand DEF Order
<1>4. \A s \in Threads : calls'[s] = IF s = t THEN Tail(calls[t]) ELSE calls[s]
  BY <1>1, <1>2
<1>5. Tail(calls[t]) \in Seq(Family)
  <2>1. <<>> \in Seq(Family) /\ <<bytes(d)>> \in Seq(Family)
    BY Families
  <2> QED BY <1>3, <2>1
<1>6. /\ \A e \in Directions : e # d => Owing(e)' = Owing(e) /\ Starting(e)' = Starting(e)
      /\ \A e \in Directions : e # d => /\ counter'[count(e)] = counter[count(e)]
                                        /\ counter'[bytes(e)] = counter[bytes(e)]
  <2>1. \A e \in Directions : e # d =>
          /\ calls[t] # <<bytes(e)>> /\ calls[t] # <<count(e), bytes(e)>>
          /\ Tail(calls[t]) # <<bytes(e)>> /\ Tail(calls[t]) # <<count(e), bytes(e)>>
    BY <1>3, Hands DEF Owing, Starting
  <2>2. \A e \in Directions : e # d => Owing(e)' = Owing(e)
    BY <1>4, <2>1 DEF Owing
  <2>3. \A e \in Directions : e # d => Starting(e)' = Starting(e)
    BY <1>4, <2>1 DEF Starting
  <2>4. \A e \in Directions : e # d => f # count(e) /\ f # bytes(e)
    BY <1>3, Families
  <2> QED BY <1>1, <1>2, <2>2, <2>3, <2>4, Families
<1>7. /\ Owing(d) \subseteq Threads /\ Starting(d) \subseteq Threads
      /\ counter[count(d)] \in Nat /\ counter[bytes(d)] \in Nat /\ MaxDatagrams \in Nat
      /\ counter[count(d)] = counter[bytes(d)] + Cardinality(Owing(d))
      /\ counter[count(d)] + Cardinality(Starting(d)) <= MaxDatagrams
  BY <1>2, Families, MetricsAssumption DEF Owing, Starting, Order, Sums
<1>8. Cardinality(Owing(d)) \in Nat /\ Cardinality(Starting(d)) \in Nat
  BY <1>7, ThreadSets
<1>9. CASE f = count(d) /\ t \in Starting(d) /\ Tail(calls[t]) = <<bytes(d)>>
  <2>1. calls[t] = <<count(d), bytes(d)>>
    BY <1>9 DEF Starting
  <2>2. Owing(d)' = Owing(d) \cup {t} /\ t \notin Owing(d)
    BY <1>4, <1>9, <2>1, Hands DEF Owing
  <2>3. Starting(d)' = Starting(d) \ {t}
    BY <1>4, <1>9, Hands DEF Starting
  <2>4. /\ Cardinality(Owing(d)') = Cardinality(Owing(d)) + 1
        /\ Cardinality(Starting(d)') = Cardinality(Starting(d)) - 1
    BY <1>7, <1>9, <2>2, <2>3, ThreadSets
  <2>5. counter'[count(d)] = counter[count(d)] + 1 /\ counter'[bytes(d)] = counter[bytes(d)]
    BY <1>1, <1>2, <1>9, Families
  <2>6. Sums'
    BY <1>6, <1>7, <1>8, <2>4, <2>5 DEF Order, Sums
  <2>7. Calls'
    <3>1. calls' \in [Threads -> Seq(Family)]
      BY <1>1, <1>2, <1>5
    <3>2. ASSUME NEW s \in Threads
          PROVE calls'[s] = <<>> \/ \E e \in Directions : s \in (Owing(e) \cup Starting(e))'
      <4>1. CASE s = t
        BY <2>2, <4>1
      <4>2. CASE s # t
        BY <1>4, <1>6, <2>2, <2>3, <4>2 DEF Order, Calls
      <4> QED BY <4>1, <4>2
    <3> QED BY <3>1, <3>2 DEF Calls
  <2>8. CountFirst'
    BY <1>1, <1>6, <1>9, <2>2 DEF Order, CountFirst
  <2> QED BY <1>1, <2>6, <2>7, <2>8 DEF Order, Behind
<1>10. CASE f = bytes(d) /\ t \in Owing(d) /\ Tail(calls[t]) = <<>>
  <2>1. calls[t] = <<bytes(d)>>
    BY <1>10 DEF Owing
  <2>2. Owing(d)' = Owing(d) \ {t}
    BY <1>4, <1>10, Hands DEF Owing
  <2>3. Starting(d)' = Starting(d)
    BY <1>4, <1>10, <2>1, Hands DEF Starting
  <2>4. Cardinality(Owing(d)') = Cardinality(Owing(d)) - 1
    BY <1>7, <1>10, <2>2, ThreadSets
  <2>5. counter'[count(d)] = counter[count(d)] /\ counter'[bytes(d)] = counter[bytes(d)] + 1
    BY <1>1, <1>2, <1>10, Families
  <2>6. Sums'
    BY <1>6, <1>7, <1>8, <2>3, <2>4, <2>5 DEF Order, Sums
  <2>7. Calls'
    <3>1. calls' \in [Threads -> Seq(Family)]
      BY <1>1, <1>2, <1>5
    <3>2. ASSUME NEW s \in Threads
          PROVE calls'[s] = <<>> \/ \E e \in Directions : s \in (Owing(e) \cup Starting(e))'
      <4>1. CASE s = t
        BY <1>4, <1>10, <4>1
      <4>2. CASE s # t
        BY <1>4, <1>6, <2>2, <2>3, <4>2 DEF Order, Calls
      <4> QED BY <4>1, <4>2
    <3> QED BY <3>1, <3>2 DEF Calls
  <2>8. CountFirst'
    BY <1>1, <1>6, <2>2 DEF Order, CountFirst
  <2> QED BY <1>1, <2>6, <2>7, <2>8 DEF Order, Behind
<1> QED BY <1>3, <1>9, <1>10

(* Lemma: connections count nothing; what one encodes next is the count of a *)
(* direction, or its bytes, which lack what the threads owe of the count.    *)
LEMMA ConnectionOrder ==
  ASSUME Order, NEW c \in Clients,
         Accept(c) \/ handle_read(c) \/ handle_read_panics(c) \/ handle_write(c)
  PROVE  Calls' /\ Sums' /\ CountFirst' /\ Behind'
<1>1. UNCHANGED countVars
  BY DEF Accept, handle_read, handle_read_panics, handle_write, WriteHeader, LockRegistry,
         EncodeFamily, WriteAnswer
<1>2. \A d \in Directions : Owing(d)' = Owing(d) /\ Starting(d)' = Starting(d)
  BY <1>1 DEF countVars, Owing, Starting
<1>3. Calls' /\ Sums' /\ CountFirst'
  BY <1>1, <1>2 DEF countVars, Order, Calls, Sums, CountFirst
<1>4. answer \in [Clients -> Seq(Nat)] /\ registry \in Seq(Family)
  BY DEF Order, IInv, Types
<1>5. CASE UNCHANGED answer
  <2>1. Behind'
    BY <1>1, <1>5 DEF countVars, Order, Behind
  <2> QED BY <1>3, <2>1
<1>6. CASE answer' = [answer EXCEPT ![c] = <<>>]
  <2>1. Len(answer'[c]) = 0 /\ \A b \in Clients \ {c} : answer'[b] = answer[b]
    BY <1>4, <1>6
  <2>2. Behind'
    BY <1>1, <2>1 DEF countVars, Order, Behind
  <2> QED BY <1>3, <2>2
<1>7. CASE /\ EncodeFamily(c) /\ Len(answer[c]) < Len(registry)
           /\ answer' = [answer EXCEPT ![c] = Append(answer[c], counter[Encoded(c)])]
  <2> DEFINE n == Len(answer[c]) + 1
  <2>1. /\ Len(answer[c]) \in Nat /\ Len(registry) \in Nat /\ n \in 1 .. Len(registry)
        /\ Encoded(c) = registry[n] /\ registry[n] \in Family /\ counter[registry[n]] \in Nat
        /\ \A i \in 1 .. Len(answer[c]) : answer[c][i] \in Nat
    <3>1. /\ answer[c] \in Seq(Nat) /\ counter \in [Family -> Nat]
      BY <1>4 DEF Order, IInv, Types
    <3>2. Len(answer[c]) \in Nat /\ Len(registry) \in Nat
      BY <1>4, <3>1
    <3>3. n \in 1 .. Len(registry)
      BY <1>7, <3>2
    <3>4. registry[n] \in Family
      BY <1>4, <3>3
    <3> QED BY <3>1, <3>2, <3>3, <3>4 DEF Encoded
  <2>2. /\ Len(answer'[c]) = n
        /\ \A i \in 1 .. Len(answer[c]) : answer'[c][i] = answer[c][i]
        /\ answer'[c][n] = counter[registry[n]]
        /\ \A b \in Clients \ {c} : answer'[b] = answer[b]
    BY <1>4, <1>7, <2>1
  <2>3. ASSUME NEW d \in Directions, NEW i \in 1 .. Len(registry), NEW j \in 1 .. Len(registry),
               i <= n, j <= n, registry[i] = count(d), registry[j] = bytes(d)
        PROVE  answer'[c][i] <= answer'[c][j] + Cardinality(Threads)
    <3>1. PICK k \in 1 .. Len(registry) : k < j /\ registry[k] = count(d)
      BY <2>3 DEF Order, CountFirst
    <3>2. i < j
      BY <2>3, <3>1 DEF Order, CountFirst
    <3>3. CASE j < n
      <4>1. i \in 1 .. Len(answer[c]) /\ j \in 1 .. Len(answer[c])
        BY <2>1, <3>2, <3>3
      <4>2. answer[c][i] <= answer[c][j] + Cardinality(Threads)
        BY <2>3, <4>1 DEF Order, Behind
      <4>3. answer'[c][i] = answer[c][i] /\ answer'[c][j] = answer[c][j]
        BY <2>2, <4>1
      <4> QED BY <4>2, <4>3
    <3>4. CASE j = n
      <4>1. i \in 1 .. Len(answer[c])
        BY <2>1, <3>2, <3>4
      <4>2. answer[c][i] <= counter[count(d)]
        BY <2>3, <4>1 DEF Order, IInv, Encoding
      <4>3. /\ counter[count(d)] = counter[bytes(d)] + Cardinality(Owing(d))
            /\ counter[count(d)] \in Nat /\ counter[bytes(d)] \in Nat
        BY Families DEF Order, Sums, IInv, Types
      <4>4. Cardinality(Owing(d)) <= Cardinality(Threads)
            /\ Cardinality(Owing(d)) \in Nat /\ Cardinality(Threads) \in Nat
        BY ThreadSets DEF Owing
      <4>5. answer'[c][i] = answer[c][i] /\ answer'[c][j] = counter[bytes(d)]
            /\ answer[c][i] \in Nat
        BY <2>1, <2>2, <2>3, <3>4, <4>1
      <4> QED BY <4>2, <4>3, <4>4, <4>5
    <3> QED
      <4> HIDE DEF n
      <4> QED BY <2>1, <2>3, <3>3, <3>4
  <2>4. Behind'
    <3> HIDE DEF n
    <3> QED BY <1>1, <2>2, <2>3 DEF countVars, Order, Behind
  <2> QED BY <1>3, <2>4
<1> QED
  <2>1. EncodeFamily(c) => (Len(answer[c]) < Len(registry)
                             /\ answer' = [answer EXCEPT ![c] = Append(answer[c], counter[Encoded(c)])])
                           \/ UNCHANGED answer
    BY DEF EncodeFamily
  <2> QED BY <1>3, <1>5, <1>6, <1>7, <2>1
        DEF Accept, handle_read, handle_read_panics, handle_write, WriteHeader, LockRegistry,
            WriteAnswer, scrapeVars

(* Lemma: every step keeps the order.                                        *)
LEMMA NextOrder == Order /\ [Next]_vars => Order'
<1> SUFFICES ASSUME Order, [Next]_vars PROVE Calls' /\ Sums' /\ CountFirst' /\ Behind'
  BY NextKeeps DEF Order
<1>1. ASSUME NEW t \in Threads, Count(t) PROVE Calls' /\ Sums' /\ CountFirst' /\ Behind'
  BY <1>1, ForceOrder, RegisterOrder, IncrementOrder DEF Count
<1>2. CASE Restart
  BY <1>2, OrderAnew DEF Restart
<1>3. CASE UNCHANGED vars
  <2>1. UNCHANGED <<calls, lazy, registry, counter, answer>>
    BY <1>3 DEF vars, countVars, scrapeVars
  <2>2. \A d \in Directions : Owing(d)' = Owing(d) /\ Starting(d)' = Starting(d)
    BY <2>1 DEF Owing, Starting
  <2> QED BY <2>1, <2>2 DEF Order, Calls, Sums, CountFirst, Behind
<1> QED BY <1>1, <1>2, <1>3, DatagramOrder, ConnectionOrder DEF Next

-----------------------------------------------------------------------------
(* An answer never lacks the bytes of more datagrams than there are threads. *)
THEOREM AnswersAreConsistent == Spec => []AnswerConsistent
<1>1. Order => AnswerConsistent
  <2> SUFFICES ASSUME Order, NEW c \in Clients, NEW d \in Directions, scrape_pc[c] = "write"
               PROVE  Answered(c, count(d)) <= Answered(c, bytes(d)) + Cardinality(Threads)
    BY DEF AnswerConsistent, count, bytes
  <2> DEFINE at(f) == {i \in DOMAIN answer[c] : registry[i] = f}
  <2>0. /\ DOMAIN answer[c] = 1 .. Len(answer[c]) /\ Len(answer[c]) = Len(registry)
        /\ Len(registry) \in Nat
        /\ \A i \in 1 .. Len(answer[c]) : answer[c][i] \in Nat
    BY DEF Order, IInv, Types, Encoding
  <2>1. /\ counter[count(d)] = counter[bytes(d)] + Cardinality(Owing(d))
        /\ counter[count(d)] \in Nat /\ counter[bytes(d)] \in Nat
    BY Families DEF Order, Sums, IInv, Types
  <2>2. Cardinality(Owing(d)) <= Cardinality(Threads)
        /\ Cardinality(Owing(d)) \in Nat /\ Cardinality(Threads) \in Nat
    BY ThreadSets DEF Owing
  <2>3. ASSUME NEW f \in Family
        PROVE  \/ at(f) = {} /\ Answered(c, f) = 0 /\ counter[f] = 0
               \/ \E i \in 1 .. Len(registry) :
                    registry[i] = f /\ Answered(c, f) = answer[c][i]
    <3>1. CASE at(f) = {}
      <4>1. ~Registered(f)
        BY <2>0, <3>1 DEF Registered
      <4> QED BY <3>1, <4>1 DEF Answered, Order, IInv, Registration
    <3>2. CASE at(f) # {}
      <4> DEFINE i == CHOOSE i \in at(f) : TRUE
      <4>1. i \in at(f)
        BY <3>2
      <4>2. Answered(c, f) = answer[c][i]
        BY <3>2 DEF Answered
      <4> QED BY <2>0, <4>1, <4>2
    <3> QED BY <3>1, <3>2
  <2>4. Answered(c, count(d)) \in Nat /\ Answered(c, bytes(d)) \in Nat
        /\ Answered(c, count(d)) <= counter[count(d)]
    BY <2>0, <2>1, <2>3, Families DEF Order, IInv, Encoding
  <2>5. CASE counter[bytes(d)] = 0
    BY <2>1, <2>2, <2>4, <2>5
  <2>6. CASE Answered(c, count(d)) = 0
    BY <2>2, <2>4, <2>6
  <2>7. CASE \E i, j \in 1 .. Len(registry) :
               /\ registry[i] = count(d) /\ Answered(c, count(d)) = answer[c][i]
               /\ registry[j] = bytes(d) /\ Answered(c, bytes(d)) = answer[c][j]
    BY <2>0, <2>7 DEF Order, Behind
  <2> QED BY <2>3, <2>5, <2>6, <2>7, Families
<1>2. Init => Order
  BY InitHolds, OrderInit DEF Init, Order, Zero
<1> QED BY <1>1, <1>2, NextOrder, PTL DEF Spec

(* Type correctness: no counter, and no value of an answer, exceeds the      *)
(* datagrams.                                                                *)
THEOREM TypeCorrect == Spec => []TypeOK
<1>1. Order => counter \in [Family -> 0 .. MaxDatagrams]
  <2> SUFFICES ASSUME Order, NEW f \in Family PROVE counter[f] \in 0 .. MaxDatagrams
    BY DEF Order, IInv, Types
  <2>1. PICK d \in Directions : f = count(d) \/ f = bytes(d)
    BY Families
  <2>2. Cardinality(Owing(d)) \in Nat /\ Cardinality(Starting(d)) \in Nat
    BY ThreadSets DEF Owing, Starting
  <2>3. counter[count(d)] \in Nat /\ counter[bytes(d)] \in Nat /\ MaxDatagrams \in Nat
    BY Families, MetricsAssumption DEF Order, IInv, Types
  <2> QED BY <2>1, <2>2, <2>3 DEF Order, Sums
<1>2. ASSUME Order, NEW c \in Clients
      PROVE  answer[c] \in Seq(0 .. MaxDatagrams) /\ floor[c] \in [Family -> 0 .. MaxDatagrams]
  <2>1. /\ answer[c] \in Seq(Nat) /\ registry \in Seq(Family) /\ floor[c] \in [Family -> Nat]
        /\ Encoding(c)
    BY <1>2 DEF Order, IInv, Types
  <2>2. \A f \in Family : counter[f] \in 0 .. MaxDatagrams
    BY <1>1, <1>2
  <2>3. \A i \in 1 .. Len(answer[c]) : answer[c][i] \in 0 .. MaxDatagrams
    <3> SUFFICES ASSUME NEW i \in 1 .. Len(answer[c]) PROVE answer[c][i] \in 0 .. MaxDatagrams
      OBVIOUS
    <3>1. registry[i] \in Family /\ answer[c][i] \in Nat
      BY <2>1 DEF Encoding
    <3>2. answer[c][i] <= counter[registry[i]]
      BY <2>1 DEF Encoding
    <3>3. counter[registry[i]] \in 0 .. MaxDatagrams
      BY <2>2, <3>1
    <3> QED BY <3>1, <3>2, <3>3, MetricsAssumption
  <2>4. ASSUME NEW f \in Family PROVE floor[c][f] \in 0 .. MaxDatagrams
    <3>1. floor[c][f] \in Nat /\ counter[f] \in 0 .. MaxDatagrams /\ floor[c][f] <= counter[f]
      BY <2>1, <2>2 DEF Encoding
    <3> QED BY <3>1, MetricsAssumption
  <2>5. answer[c] \in [1 .. Len(answer[c]) -> 0 .. MaxDatagrams] /\ Len(answer[c]) \in Nat
    BY <2>1, <2>3
  <2>6. answer[c] \in Seq(0 .. MaxDatagrams)
    BY <2>5, SeqDef
  <2>7. floor[c] \in [Family -> 0 .. MaxDatagrams]
    BY <2>1, <2>4
  <2> QED BY <2>6, <2>7
<1>3. Order => TypeOK
  <2> SUFFICES ASSUME Order PROVE TypeOK
    OBVIOUS
  <2>0. registry \in Seq(Family) /\ DOMAIN registry = 1 .. Len(registry)
    BY DEF Order, IInv, Types
  <2>1. IsInjective(registry)
    BY <2>0 DEF Order, CountFirst, IsInjective
  <2>2. floor \in [Clients -> [Family -> 0 .. MaxDatagrams]]
    BY <1>2 DEF Order, IInv, Types
  <2>3. \A t \in Threads : calls[t] \in Seq(Family)
    BY DEF Order, Calls
  <2>4. \A c \in Clients : answer[c] \in Seq(0 .. MaxDatagrams)
    BY <1>2
  <2> QED BY <1>1, <2>0, <2>1, <2>2, <2>3, <2>4 DEF TypeOK, Order, IInv, Types
<1>4. Init => Order
  BY InitHolds, OrderInit DEF Init, Order, Zero
<1> QED BY <1>3, <1>4, NextOrder, PTL DEF Spec
=============================================================================
