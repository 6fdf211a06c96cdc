------------------------------ MODULE Metrics -------------------------------
(***************************************************************************)
(* The Prometheus metrics of the process: four families of counters, which *)
(* the threads of all servers count their datagrams in, and a thread per   *)
(* connection that answers a scrape.                                       *)
(*                                                                         *)
(* A family is a LazyLock: the first thread that counts in it registers it *)
(* in REGISTRY, under the write lock, and all others that want to count in *)
(* it wait until it has.  A scrape holds the read lock from the encoding   *)
(* to the end of the write to its client.                                  *)
(***************************************************************************)
EXTENDS Naturals, Sequences, FiniteSets, SequencesExt

CONSTANTS
  Threads,       \* threads that send or receive datagrams, of all servers
  Clients,       \* connections to the metrics endpoint
  Directions,    \* of the datagrams counted: "sent", "received"
  MaxDatagrams   \* bound: datagrams of one process

ASSUME MetricsAssumption ==
  /\ Directions \subseteq {"sent", "received"}
  /\ IsFiniteSet(Threads)
  /\ Threads \cap {"unset", "set"} = {}
  /\ MaxDatagrams \in Nat

(* udp_sent_count, udp_sent_bytes, udp_received_count, udp_received_bytes.   *)
Family == Directions \X {"count", "bytes"}

VARIABLES
  calls,      \* the incr_ calls each thread has yet to return from, by family
  lazy,       \* each LazyLock: "unset", "set", or the thread that initialises it
  registry,   \* REGISTRY: families in the order of their registration
  counter,    \* datagrams counted in each family; of a _bytes one, those whose
              \* bytes have been added
  readers,    \* connections that hold REGISTRY's read lock
  scrape_pc,  \* where the thread of each connection is
  answer,     \* what it has encoded so far
  floor,      \* history: the counters when it took the lock
  process     \* "up" or "aborted"

countVars == <<calls, lazy, registry, counter>>
scrapeVars == <<readers, scrape_pc, answer, floor>>
vars == <<countVars, scrapeVars, process>>

Zero == [f \in Family |-> 0]

TypeOK ==
  /\ \A t \in Threads : calls[t] \in Seq(Family)
  /\ lazy \in [Family -> {"unset", "set"} \cup Threads]
  /\ registry \in Seq(Family) /\ IsInjective(registry)
  /\ counter \in [Family -> 0 .. MaxDatagrams]
  /\ readers \subseteq Clients
  /\ scrape_pc \in [Clients -> {"none", "read", "header", "lock", "encode", "write"}]
  /\ \A c \in Clients : answer[c] \in Seq(0 .. MaxDatagrams)
  /\ floor \in [Clients -> [Family -> 0 .. MaxDatagrams]]
  /\ process \in {"up", "aborted"}

Init ==
  /\ calls = [t \in Threads |-> <<>>]
  /\ lazy = [f \in Family |-> "unset"]
  /\ registry = <<>>
  /\ counter = Zero
  /\ readers = {}
  /\ scrape_pc = [c \in Clients |-> "none"]
  /\ answer = [c \in Clients |-> <<>>]
  /\ floor = [c \in Clients |-> Zero]
  /\ process = "up"

Up == process = "up"

-----------------------------------------------------------------------------
(* A thread that counts.                                                     *)

Datagrams(d) ==
  counter[d, "count"] + Cardinality({t \in Threads : <<d, "count">> \in ToSet(calls[t])})

(* A mutated form of Datagram: the bytes are added first.                    *)
DatagramBytesFirst(t, d) ==
  /\ Up /\ calls[t] = <<>>
  /\ Datagrams(d) < MaxDatagrams
  /\ calls' = [calls EXCEPT ![t] = <<<<d, "bytes">>, <<d, "count">>>>]
  /\ UNCHANGED <<lazy, registry, counter, scrapeVars, process>>

(* It has sent or received a datagram, which it counts first and then adds   *)
(* the bytes of.                                                             *)
Datagram(t, d) ==
  /\ Up /\ calls[t] = <<>>
  /\ Datagrams(d) < MaxDatagrams
  /\ calls' = [calls EXCEPT ![t] = <<<<d, "count">>, <<d, "bytes">>>>]
  /\ UNCHANGED <<lazy, registry, counter, scrapeVars, process>>

(* It is the first to use the family, and comes as far as to ask for the     *)
(* write lock: it does nothing in between that another thread could see ...  *)
ForceLazy(t, f) ==
  /\ Up /\ calls[t] # <<>> /\ f = Head(calls[t])
  /\ lazy[f] = "unset"
  /\ lazy' = [lazy EXCEPT ![f] = t]
  /\ UNCHANGED <<calls, registry, counter, scrapeVars, process>>

(* A mutated form of register: the family is not registered.                 *)
registerNot(t, f) ==
  /\ Up /\ lazy[f] = t
  /\ readers = {}
  /\ lazy' = [lazy EXCEPT ![f] = "set"]
  /\ UNCHANGED <<calls, registry, counter, scrapeVars, process>>

(* ... and registers it, once it has REGISTRY's write lock.                  *)
register(t, f) ==
  /\ Up /\ lazy[f] = t
  /\ readers = {}
  /\ registry' = Append(registry, f)
  /\ lazy' = [lazy EXCEPT ![f] = "set"]
  /\ UNCHANGED <<calls, counter, scrapeVars, process>>

(* Mutated forms of Increment: the family is looked up in the registry, the  *)
(* bytes are added twice.                                                    *)
IncrementLocked(t, f) ==
  /\ Up /\ calls[t] # <<>> /\ f = Head(calls[t])
  /\ lazy[f] = "set" /\ readers = {}
  /\ counter' = [counter EXCEPT ![f] = @ + 1]
  /\ calls' = [calls EXCEPT ![t] = Tail(@)]
  /\ UNCHANGED <<lazy, registry, scrapeVars, process>>
IncrementTwice(t, f) ==
  /\ Up /\ calls[t] # <<>> /\ f = Head(calls[t])
  /\ lazy[f] = "set"
  /\ counter' = [counter EXCEPT ![f] = @ + Len(calls[t])]
  /\ calls' = [calls EXCEPT ![t] = Tail(@)]
  /\ UNCHANGED <<lazy, registry, scrapeVars, process>>

(* get_or_create(..).inc(), on a family that is set.                         *)
Increment(t, f) ==
  /\ Up /\ calls[t] # <<>> /\ f = Head(calls[t])
  /\ lazy[f] = "set"
  /\ counter' = [counter EXCEPT ![f] = @ + 1]
  /\ calls' = [calls EXCEPT ![t] = Tail(@)]
  /\ UNCHANGED <<lazy, registry, scrapeVars, process>>

Count(t) == \E f \in Family : ForceLazy(t, f) \/ register(t, f) \/ Increment(t, f)

-----------------------------------------------------------------------------
(* The thread of a connection: handle_read, then handle_write.               *)

Accept(c) ==
  /\ Up /\ scrape_pc[c] = "none"
  /\ scrape_pc' = [scrape_pc EXCEPT ![c] = "read"]
  /\ UNCHANGED <<countVars, readers, answer, floor, process>>

(* The client sends something, or closes its side.                           *)
handle_read(c) ==
  /\ Up /\ scrape_pc[c] = "read"
  /\ scrape_pc' = [scrape_pc EXCEPT ![c] = "header"]
  /\ UNCHANGED <<countVars, readers, answer, floor, process>>

(* It resets the connection: the unwrap of read() aborts the process.        *)
handle_read_panics(c) ==
  /\ Up /\ scrape_pc[c] = "read"
  /\ process' = "aborted"
  /\ UNCHANGED <<countVars, scrapeVars>>

(* The header is written, or that fails and the connection is dropped.       *)
WriteHeader(c) ==
  /\ Up /\ scrape_pc[c] = "header"
  /\ \E pc \in {"lock", "none"} : scrape_pc' = [scrape_pc EXCEPT ![c] = pc]
  /\ UNCHANGED <<countVars, readers, answer, floor, process>>

(* A mutated form of LockRegistry: readers overtake a waiting writer.        *)
LockRegistryUnfair(c) ==
  /\ Up /\ scrape_pc[c] = "lock"
  /\ scrape_pc' = [scrape_pc EXCEPT ![c] = "encode"]
  /\ readers' = readers \cup {c}
  /\ floor' = [floor EXCEPT ![c] = counter]
  /\ UNCHANGED <<countVars, answer, process>>

(* A reader gets the lock unless a writer waits for it.                      *)
LockRegistry(c) ==
  /\ Up /\ scrape_pc[c] = "lock"
  /\ \A f \in Family : lazy[f] \notin Threads
  /\ scrape_pc' = [scrape_pc EXCEPT ![c] = "encode"]
  /\ readers' = readers \cup {c}
  /\ floor' = [floor EXCEPT ![c] = counter]
  /\ UNCHANGED <<countVars, answer, process>>

Encoded(c) == registry[Len(answer[c]) + 1]

(* encode() reads one family after the other, while threads go on counting.  *)
EncodeFamily(c) ==
  /\ Up /\ scrape_pc[c] = "encode"
  /\ IF Len(answer[c]) < Len(registry)
       THEN /\ answer' = [answer EXCEPT ![c] = Append(@, counter[Encoded(c)])]
            /\ UNCHANGED scrape_pc
       ELSE /\ scrape_pc' = [scrape_pc EXCEPT ![c] = "write"]
            /\ UNCHANGED answer
  /\ UNCHANGED <<countVars, readers, floor, process>>

(* The write ends, or fails: the lock is dropped at the end of handle_write. *)
WriteAnswer(c) ==
  /\ Up /\ scrape_pc[c] = "write"
  /\ scrape_pc' = [scrape_pc EXCEPT ![c] = "none"]
  /\ readers' = readers \ {c}
  /\ answer' = [answer EXCEPT ![c] = <<>>]
  /\ floor' = [floor EXCEPT ![c] = Zero]
  /\ UNCHANGED <<countVars, process>>

handle_write(c) == WriteHeader(c) \/ LockRegistry(c) \/ EncodeFamily(c) \/ WriteAnswer(c)

-----------------------------------------------------------------------------
(* The service manager starts the process again, with new counters.          *)
Restart ==
  /\ ~Up
  /\ calls' = [t \in Threads |-> <<>>]
  /\ lazy' = [f \in Family |-> "unset"]
  /\ registry' = <<>>
  /\ counter' = Zero
  /\ readers' = {}
  /\ scrape_pc' = [c \in Clients |-> "none"]
  /\ answer' = [c \in Clients |-> <<>>]
  /\ floor' = [c \in Clients |-> Zero]
  /\ process' = "up"

Next ==
  \/ \E t \in Threads : Count(t) \/ \E d \in Directions : Datagram(t, d)
  \/ \E c \in Clients : \/ Accept(c) \/ handle_read(c) \/ handle_read_panics(c)
                        \/ handle_write(c)
  \/ Restart

Spec == Init /\ [][Next]_vars

(* The operating system schedules the threads.  It takes a client for read() *)
(* to return, and for the write of an answer longer than the socket's buffer.*)
FairSpec ==
  /\ Spec
  /\ \A t \in Threads : WF_vars(Count(t))
  /\ \A c \in Clients : WF_vars(WriteHeader(c) \/ LockRegistry(c) \/ EncodeFamily(c))

-----------------------------------------------------------------------------
Answered(c, f) ==
  LET places == {i \in DOMAIN answer[c] : registry[i] = f}
  IN IF places = {} THEN 0 ELSE answer[c][CHOOSE i \in places : TRUE]

(* An answer has, for every family, no less than was counted when the scrape *)
(* took the lock and no more than has been counted since, although families  *)
(* appear in the registry only with the first datagram counted in them.      *)
ScrapeFaithful ==
  \A c \in Clients, f \in Family :
    scrape_pc[c] = "write" => Answered(c, f) \in floor[c][f] .. counter[f]

(* An answer lacks the bytes of no more datagrams than there are threads,    *)
(* however much is counted while it is encoded: the count of a direction is  *)
(* registered before its bytes, and so it is read before them.               *)
AnswerConsistent ==
  \A c \in Clients, d \in Directions :
    scrape_pc[c] = "write" =>
      Answered(c, <<d, "count">>) <= Answered(c, <<d, "bytes">>) + Cardinality(Threads)

(* A thread that counts gets on, if no client leaves its answer unread for   *)
(* ever: the LazyLocks, the registry's lock and the scrapes never wait in a  *)
(* circle, scrapes that overlap without end keep no writer from the lock,    *)
(* and a client that sends nothing holds nobody.                             *)
CountingEnds ==
  (\A c \in Clients : []<>(scrape_pc[c] # "write"))
    => \A t \in Threads : calls[t] # <<>> ~> calls[t] = <<>> \/ ~Up

(* Once all families are registered, a thread that counts gets on even when  *)
(* a client never reads its answer, which holds the registry's read lock.    *)
CountingGoesOn ==
  \A t \in Threads :
    Len(registry) = Cardinality(Family) /\ calls[t] # <<>> ~> calls[t] = <<>> \/ ~Up
=============================================================================
