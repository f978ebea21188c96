----------------------------- MODULE HttpProofs -----------------------------
(***************************************************************************)
(* Proofs about HttpConnectionPool for any number of calls, connections,   *)
(* entries and errors: the context of a call is finished at most once, a   *)
(* connection is recycled at most once each time it is dropped, and Stop,  *)
(* with attempts going on all the while, leaves no thread and no waiting   *)
(* context in a connection but where a recycler or Execute came too late.  *)
(***************************************************************************)
EXTENDS HttpConnectionPool, TLAPS

\* Execute has taken the call.
Taken == {"post", "sent"}
\* The thread holds connection_lock_.
Recycling == {"stop", "join", "restart"}
\* The thread has picked a connection, or unwinds one.
HasConnection ==
  Recycling \cup {"unwind", "unwind_join", "recycle", "check", "execute", "insert", "post"}
\* The thread has an entry, and no connection.
HasEntry == {"create", "found", "pick"}
States == HasConnection \cup HasEntry \cup {"idle", "sent", "refused"}

\* The part of the types that does not involve what is posted.
Types ==
  /\ pc \in [Call -> States]
  /\ connection \in [Call -> Conn \cup {NULL}]
  /\ \A r \in Call : pc[r] \in HasConnection => connection[r] \in Conn
  /\ is_ready \subseteq Conn
  /\ pending_network_calls \in [Conn -> SUBSET Call]
  /\ finished \in [Call -> Nat]
  /\ drops \in [Conn -> Nat] /\ recycles \in [Conn -> Nat]

\* The entries have connections of the pool.
EntryInv ==
  /\ max_connections_per_host \in Sizes
  /\ connections \in Entry \cup {0} /\ entries \in Nat
  /\ http_connections \in [Entry -> 0..max_connections_per_host]
  /\ order_counter \in [Entry -> Index]
  /\ http_conn_entry \in [Call -> Entry \cup {0}]
  /\ \A r \in Call : pc[r] \in HasEntry => http_conn_entry[r] \in Entry

\* A context waits in the map of its own connection only while it is not
\* finished, and before Execute took it it is in no map.
CallInv ==
  /\ \A c \in Conn : \A r \in pending_network_calls[c] :
       connection[r] = c /\ finished[r] = 0 /\ pc[r] \in Taken
  /\ \A r \in Call : /\ finished[r] <= 1
                     /\ finished[r] # 0 => pc[r] \in Taken

\* Whoever recycles has the lock, and found the connection dropped after
\* taking it.
LockInv ==
  \A r \in Call : pc[r] \in Recycling =>
    connection_lock = r /\ connection[r] \in is_dropped

\* A connection that is dropped has one drop more than it was recycled.
DropInv ==
  \A c \in Conn : recycles[c] + (IF c \in is_dropped THEN 1 ELSE 0) <= drops[c]

IInv == Types /\ EntryInv /\ CallInv /\ LockInv /\ DropInv

\* The connections that Stop has done with.
Halted == {c \in targets : c[2] < stopping \/ stop_pc \in {"erase", "stopped"}}

\* Stop goes through the connections of one entry, which are numbered without a
\* gap, and those it has done with stay as it left them.
StopInv ==
  /\ targets \subseteq Conn /\ stopping \in Nat
  /\ stop_pc \in {"no", "find"} => targets = {} /\ stopping = 0
  /\ \A c \in targets : c[2] < http_connections[c[1]]
  /\ \A c \in targets : \A i \in Index : i <= c[2] => \E d \in targets : d[2] = i
  /\ \A c, d \in targets : c[2] = d[2] => c = d
  /\ stop_pc \in {"erase", "stopped"} => \A c \in targets : c[2] <= stopping
  /\ \A c \in Halted \ reopened : /\ c \notin running
                                  /\ pending_network_calls[c] \subseteq raced

-----------------------------------------------------------------------------
(* Lemmas *)

\* The connections of a pool are numbered from zero within each entry.
LEMMA PoolNumbers ==
  /\ MaxConnections \in Nat /\ NULL \notin Call /\ Entry \subseteq Nat /\ 0 \notin Entry
  /\ \A s \in Sizes : /\ s \in Nat /\ 0 < s /\ s <= MaxConnections
                      /\ \A i \in Nat : (i + 1) % s \in Index
                      /\ \A i \in Nat : i < s => i \in Index
  /\ Entry # {} => 0 \in Index
  /\ Index \subseteq Nat
BY PoolAssumption DEF Entry, Index

\* A connection is its entry and its index.
LEMMA ConnPairs ==
  /\ \A e \in Entry, i \in Index : <<e, i>> \in Conn /\ <<e, i>>[1] = e /\ <<e, i>>[2] = i
  /\ \A c \in Conn : c[1] \in Entry /\ c[2] \in Index /\ c = <<c[1], c[2]>>
BY DEF Conn

\* An entry that fits under the bound has a number.
LEMMA EntryFits ==
  ASSUME NEW n \in Nat, NEW s \in Sizes, (n + 1) * s <= MaxConnections
  PROVE  n + 1 \in Entry
<1>1. s \in Nat /\ s >= 1 /\ MaxConnections \in Nat  BY PoolAssumption
<1>2. (n + 1) * s >= n + 1  BY <1>1
<1> QED  BY <1>1, <1>2 DEF Entry

\* No call is taken, and no connection dropped, initially.
LEMMA InitIInv == Init => IInv
<1> SUFFICES ASSUME Init PROVE IInv  OBVIOUS
<1>1. Types  BY DEF Init, Types, States, HasConnection, Recycling
<1>2. EntryInv
  <2>1. /\ max_connections_per_host \in Sizes /\ connections = 0 /\ entries = 0
        /\ http_connections = [e \in Entry |-> 0] /\ order_counter = [e \in Entry |-> 0]
        /\ http_conn_entry = [r \in Call |-> 0] /\ \A r \in Call : pc[r] = "idle"
    BY Zenon DEF Init
  <2>2. 0 \in 0..max_connections_per_host  BY <2>1, PoolNumbers
  <2>3. order_counter \in [Entry -> Index]  BY <2>1, PoolNumbers, Zenon
  <2> QED  BY <2>1, <2>2, <2>3 DEF EntryInv, HasEntry
<1>3. CallInv /\ LockInv /\ DropInv  BY DEF Init, CallInv, LockInv, DropInv, Recycling
<1> QED  BY <1>1, <1>2, <1>3, Zenon DEF IInv

\* What erases the keys of some calls, and finishes their contexts, keeps the
\* invariant of the calls: nobody else has finished them, or will.
LEMMA FinishKeeps ==
  ASSUME Types, CallInv, NEW c \in Conn, NEW S \in SUBSET pending_network_calls[c],
         FinishAll(S),
         pending_network_calls' = [pending_network_calls EXCEPT ![c] = @ \ S],
         \A q \in Call : pc[q] \in Taken =>
           pc'[q] \in Taken /\ connection'[q] = connection[q]
  PROVE  /\ CallInv' /\ finished' \in [Call -> Nat]
         /\ pending_network_calls' \in [Conn -> SUBSET Call]
<1> USE DEF Types, CallInv, FinishAll
<1>1. S \subseteq Call /\ \A r \in S : finished[r] = 0 /\ pc[r] \in Taken
  BY Zenon
<1>2. finished' \in [Call -> Nat]  OBVIOUS
<1>3. /\ pending_network_calls' \in [Conn -> SUBSET Call]
      /\ pending_network_calls'[c] = pending_network_calls[c] \ S
      /\ \A d \in Conn : d # c =>
           pending_network_calls'[d] = pending_network_calls[d]
  BY Zenon
<1>4. \A d \in Conn : \A r \in pending_network_calls'[d] :
        r \notin S /\ r \in pending_network_calls[d] /\ r \in Call
  <2> SUFFICES ASSUME NEW d \in Conn, NEW r \in pending_network_calls'[d]
               PROVE  r \notin S /\ r \in pending_network_calls[d] /\ r \in Call
    BY Zenon
  <2>1. r \in pending_network_calls[d] /\ (d = c => r \notin S)  BY <1>3, Zenon
  <2>2. connection[r] = d /\ \A q \in S : connection[q] = c  BY <2>1, Zenon
  <2> QED  BY <1>3, <2>1, <2>2, Zenon
<1>5. \A r \in Call : finished'[r] =
        IF r \in S THEN finished[r] + 1 ELSE finished[r]
  BY Zenon
<1>6. \A d \in Conn : \A r \in pending_network_calls'[d] :
        connection'[r] = d /\ finished'[r] = 0 /\ pc'[r] \in Taken
  BY <1>4, <1>5, Zenon
<1>7. \A r \in Call : finished'[r] <= 1 /\ (finished'[r] # 0 => pc'[r] \in Taken)
  BY <1>1, <1>5
<1> QED  BY <1>2, <1>3, <1>6, <1>7, Zenon

\* CancelPendingCallbacks is such a step.
LEMMA CancelKeeps ==
  ASSUME Types, CallInv, NEW c \in Conn, CancelPendingCallbacks(c),
         \A q \in Call : pc[q] \in Taken =>
           pc'[q] \in Taken /\ connection'[q] = connection[q]
  PROVE  /\ CallInv' /\ finished' \in [Call -> Nat]
         /\ pending_network_calls' \in [Conn -> SUBSET Call]
<1>1. pending_network_calls' =
        [pending_network_calls EXCEPT ![c] = @ \ pending_network_calls[c]]
  BY Zenon DEF CancelPendingCallbacks, Types
<1> QED  BY <1>1, FinishKeeps, Zenon DEF CancelPendingCallbacks

\* And so is the end of a stream, or of a request that is not sent.
LEMMA EraseKeeps ==
  ASSUME Types, CallInv, NEW c \in Conn, NEW r, FinishErased(c, r),
         UNCHANGED call_vars
  PROVE  /\ CallInv' /\ finished' \in [Call -> Nat]
         /\ pending_network_calls' \in [Conn -> SUBSET Call]
<1> DEFINE S == pending_network_calls[c] \cap {r}
<1>1. pending_network_calls' = [pending_network_calls EXCEPT ![c] = @ \ S]
  BY Zenon DEF FinishErased, Types
<1> QED  BY <1>1, FinishKeeps, Zenon DEF FinishErased, call_vars

\* The entry of a thread matters until it has a connection.
LEMMA EntryFrame ==
  ASSUME Types, EntryInv, NEW r \in Call, NEW to,
         pc' = [pc EXCEPT ![r] = to],
         to \in HasEntry => http_conn_entry[r] \in Entry,
         UNCHANGED <<max_connections_per_host, entries, http_connections,
                     order_counter, http_conn_entry>>,
         connections' \in Entry \cup {0}
  PROVE  EntryInv'
BY Zenon DEF Types, EntryInv

\* A thread that has not taken a call, and holds no lock, goes from one state to
\* another such state.
LEMMA ThreadFrame ==
  ASSUME IInv, NEW r \in Call, NEW to \in States,
         pc[r] \notin Taken, to \notin Taken \cup Recycling,
         pc' = [pc EXCEPT ![r] = to],
         connection' \in [Call -> Conn \cup {NULL}],
         \A q \in Call \ {r} : connection'[q] = connection[q],
         to \in HasConnection => connection'[r] \in Conn,
         is_ready' \subseteq Conn,
         UNCHANGED <<connection_lock, is_dropped, finish_vars, count_vars>>
  PROVE  Types' /\ CallInv' /\ LockInv' /\ DropInv'
<1> USE DEF IInv, finish_vars, count_vars
<1>1. \A q \in Call : pc'[q] = IF q = r THEN to ELSE pc[q]  BY Zenon DEF Types
<1>2. Types'
  <2>1. pc' \in [Call -> States]  BY Zenon DEF Types
  <2>2. \A q \in Call : pc'[q] \in HasConnection => connection'[q] \in Conn
    BY <1>1, Zenon DEF Types
  <2> QED  BY <2>1, <2>2, Zenon DEF Types
<1>3. CallInv'
  <2>1. \A c \in Conn : \A q \in pending_network_calls[c] : q \in Call /\ q # r
    BY Zenon DEF Types, CallInv
  <2>2. finished[r] = 0  BY Zenon DEF CallInv
  <2>3. \A c \in Conn : \A q \in pending_network_calls[c] :
          connection'[q] = c /\ finished[q] = 0 /\ pc'[q] \in Taken
    BY <1>1, <2>1, Zenon DEF CallInv
  <2>4. \A q \in Call : finished[q] <= 1 /\ (finished[q] # 0 => pc'[q] \in Taken)
    BY <1>1, <2>2, Zenon DEF CallInv
  <2> QED  BY <2>3, <2>4, Zenon DEF CallInv
<1>4. LockInv'  BY <1>1, Zenon DEF LockInv
<1>5. DropInv'  BY Zenon DEF DropInv
<1> QED  BY <1>2, <1>3, <1>4, <1>5, Zenon

\* Nothing changes that the invariant speaks of, but for is_ready_.
LEMMA StillFrame ==
  ASSUME IInv, is_ready' \subseteq Conn, connections' \in Entry \cup {0},
         UNCHANGED <<kept_vars, http_connections, order_counter, call_vars,
                     connection_lock, is_dropped, finish_vars, count_vars>>
  PROVE  IInv'
<1> USE DEF IInv, kept_vars, call_vars, finish_vars, count_vars
<1>1. Types'  BY Zenon DEF Types
<1>2. EntryInv'  BY Zenon DEF EntryInv
<1>3. CallInv'  BY Zenon DEF CallInv
<1>4. LockInv' /\ DropInv'  BY Zenon DEF LockInv, DropInv
<1> QED  BY <1>1, <1>2, <1>3, <1>4, Zenon

\* Nothing changes but for what the erasing of keys changes.
LEMMA FinishFrame ==
  ASSUME IInv, CallInv', finished' \in [Call -> Nat],
         pending_network_calls' \in [Conn -> SUBSET Call],
         UNCHANGED <<entry_vars, call_vars, connection_lock, flag_vars, count_vars>>
  PROVE  IInv'
<1> USE DEF IInv, entry_vars, kept_vars, call_vars, flag_vars, count_vars
<1>1. Types'  BY Zenon DEF Types
<1>2. EntryInv'  BY Zenon DEF EntryInv
<1>3. LockInv' /\ DropInv'  BY Zenon DEF LockInv, DropInv
<1> QED  BY <1>1, <1>2, <1>3, Zenon

-----------------------------------------------------------------------------
(* Steps *)

\* An attempt that gets no connection touches no other call.
LEMMA GetConnectionFailsStep ==
  ASSUME IInv, NEW r \in Call, GetConnectionFails(r) PROVE IInv'
<1> USE DEF GetConnectionFails, Goto
<1>1. Types' /\ CallInv' /\ LockInv' /\ DropInv'
  BY ThreadFrame, Zenon DEF IInv, Types, flag_vars, Taken, Recycling, HasConnection, States
<1>2. EntryInv'
  BY EntryFrame, Zenon DEF IInv, entry_vars, kept_vars, HasEntry, EntryInv
<1> QED  BY <1>1, <1>2, Zenon DEF IInv

\* An attempt inserts the entry of its host.
LEMMA InsertEntryStep ==
  ASSUME IInv, NEW r \in Call, InsertEntry(r) PROVE IInv'
<1> USE DEF InsertEntry, Goto
<1>1. Types' /\ CallInv' /\ LockInv' /\ DropInv'
  BY ThreadFrame, Zenon DEF IInv, Types, flag_vars, Taken, Recycling, HasConnection,
     HasEntry, States
<1>2. entries + 1 \in Entry  BY EntryFits, Zenon DEF IInv, EntryInv
<1>3. entries + 1 \in Nat  BY DEF IInv, EntryInv
<1>4. EntryInv'
  <2>1. http_conn_entry' \in [Call -> Entry \cup {0}]
    BY <1>2, Zenon DEF IInv, EntryInv
  <2>2. \A q \in Call : pc'[q] \in HasEntry => http_conn_entry'[q] \in Entry
    BY <1>2, Zenon DEF IInv, Types, EntryInv
  <2> QED  BY <1>2, <1>3, <2>1, <2>2, Zenon DEF IInv, EntryInv
<1> QED  BY <1>1, <1>4, Zenon DEF IInv

\* The vector of the entry gets one connection more.
LEMMA CreateConnectionStep ==
  ASSUME IInv, NEW r \in Call, CreateConnection(r) PROVE IInv'
<1> USE DEF CreateConnection, NextConnection, IInv
<1>1. Types'  BY Zenon DEF Types, call_vars, flag_vars, finish_vars, count_vars
<1>2. CallInv'  BY Zenon DEF CallInv, call_vars, finish_vars
<1>3. LockInv' /\ DropInv'
  BY Zenon DEF LockInv, DropInv, call_vars, flag_vars, count_vars
<1>4. EntryInv'
  <2> DEFINE e == http_conn_entry[r]
  <2>1. e \in Entry  BY Zenon DEF EntryInv, HasEntry
  <2>2. http_connections[e] < max_connections_per_host
    BY Zenon
  <2>3. http_connections' = [http_connections EXCEPT ![e] = @ + 1]  BY Zenon
  <2>4. max_connections_per_host \in Nat /\ http_connections \in
          [Entry -> 0..max_connections_per_host]
    BY PoolNumbers, Zenon DEF EntryInv
  <2> HIDE DEF e, CreateConnection
  <2>5. http_connections' \in [Entry -> 0..max_connections_per_host]
    BY <2>1, <2>2, <2>3, <2>4
  <2> USE DEF CreateConnection
  <2> QED  BY <2>5, Zenon DEF EntryInv, kept_vars, call_vars
<1> QED  BY <1>1, <1>2, <1>3, <1>4, Zenon

\* All connections of the entry are there.
LEMMA InitializedStep ==
  ASSUME IInv, NEW r \in Call, Initialized(r) PROVE IInv'
<1> USE DEF Initialized, Goto
<1>1. Types' /\ CallInv' /\ LockInv' /\ DropInv'
  BY ThreadFrame, Zenon DEF IInv, Types, flag_vars, Taken, Recycling, HasConnection,
     HasEntry, States
<1>2. EntryInv'
  BY EntryFrame, Zenon DEF IInv, kept_vars, HasEntry, EntryInv
<1> QED  BY <1>1, <1>2, Zenon DEF IInv

\* What was created of the entry is to be stopped.
LEMMA CreateFailsStep ==
  ASSUME IInv, NEW r \in Call, CreateFails(r) PROVE IInv'
<1> USE DEF CreateFails, Goto
<1>0. PICK to \in {"unwind", "refused"} : pc' = [pc EXCEPT ![r] = to]  BY Zenon
<1>1. /\ pc[r] = "create" /\ http_conn_entry[r] \in Entry
      /\ UNCHANGED <<connection_lock, flag_vars, finish_vars, count_vars, kept_vars,
                     http_connections, order_counter, http_conn_entry>>
  BY Zenon DEF IInv, EntryInv, HasEntry
<1>2. <<http_conn_entry[r], 0>> \in Conn  BY <1>1, ConnPairs, PoolNumbers, Zenon
<1>3. \/ /\ connection' = [connection EXCEPT ![r] = <<http_conn_entry[r], 0>>]
         /\ UNCHANGED connections
      \/ /\ UNCHANGED connection /\ connections' = 0
         /\ pc' = [pc EXCEPT ![r] = "refused"]
  BY Zenon
<1> HIDE DEF CreateFails
<1>4. connection' \in [Call -> Conn \cup {NULL}]
  BY <1>2, <1>3, Zenon DEF IInv, Types
<1>5. \A q \in Call \ {r} : connection'[q] = connection[q]
  BY <1>3, Zenon DEF IInv, Types
<1>6. pc' [r] \in HasConnection => connection'[r] \in Conn
  BY <1>2, <1>3, Zenon DEF IInv, Types, HasConnection, Recycling
<1>7. Types' /\ CallInv' /\ LockInv' /\ DropInv'
  <2>1. to \in HasConnection => connection'[r] \in Conn
    BY <1>0, <1>6, Zenon DEF IInv, Types
  <2>2. to \in States /\ to \notin Taken \cup Recycling /\ pc[r] \notin Taken
    BY <1>0, <1>1, Zenon DEF States, HasConnection, Taken, Recycling
  <2> QED  BY <1>0, <1>1, <1>4, <1>5, <2>1, <2>2, ThreadFrame, Zenon
           DEF IInv, Types, flag_vars
<1>8. connections' \in Entry \cup {0}  BY <1>3, Zenon DEF IInv, EntryInv
<1>9. EntryInv'
  BY <1>0, <1>1, <1>8, EntryFrame, Zenon DEF IInv, HasEntry, kept_vars
<1> QED  BY <1>7, <1>9, Zenon DEF IInv

\* Stop of a connection of an entry that is taken back.
LEMMA UnwindStopsStep ==
  ASSUME IInv, NEW r \in Call, UnwindStops(r) PROVE IInv'
<1> USE DEF UnwindStops, Goto
<1>0. is_ready' \subseteq is_ready  BY Zenon DEF StopConnection
<1>1. Types' /\ CallInv' /\ LockInv' /\ DropInv'
  BY <1>0, ThreadFrame, Zenon DEF IInv, Types, Taken, Recycling, HasConnection, States
<1>2. EntryInv'
  BY EntryFrame, Zenon DEF IInv, entry_vars, kept_vars, HasEntry, EntryInv
<1> QED  BY <1>1, <1>2, Zenon DEF IInv

\* Its calls are finished, and the next connection of the entry is to be stopped.
LEMMA UnwindJoinsStep ==
  ASSUME IInv, NEW r \in Call, UnwindJoins(r) PROVE IInv'
<1> USE DEF UnwindJoins, Goto
<1> DEFINE next == <<connection[r][1], connection[r][2] + 1>>
<1>0. PICK to \in {"unwind", "refused"} : pc' = [pc EXCEPT ![r] = to]  BY Zenon
<1>1. /\ pc[r] = "unwind_join" /\ connection[r] \in Conn
      /\ CancelPendingCallbacks(connection[r])
      /\ UNCHANGED <<connection_lock, flag_vars, count_vars, kept_vars,
                     http_connections, order_counter, http_conn_entry>>
  BY Zenon DEF IInv, Types, HasConnection
<1>2. \/ /\ connection' = [connection EXCEPT ![r] = next]
         /\ next[2] < http_connections[next[1]]
         /\ UNCHANGED connections
      \/ UNCHANGED connection /\ connections' = 0
  BY Zenon
<1>3. next[2] < http_connections[next[1]] => next \in Conn
  <2> DEFINE e == connection[r][1]
             i == connection[r][2]
  <2>1. e \in Entry /\ i \in Nat  BY <1>1, ConnPairs, PoolNumbers, Zenon
  <2>2. http_connections[e] \in 0..max_connections_per_host
    BY <2>1, Zenon DEF IInv, EntryInv
  <2>3. max_connections_per_host \in Sizes  BY Zenon DEF IInv, EntryInv
  <2>4. next[1] = e /\ next[2] = i + 1  BY Zenon
  <2> HIDE DEF e, i
  <2>5. i + 1 < http_connections[e] => i + 1 \in Index
    BY <2>1, <2>2, <2>3, PoolAssumption DEF Index
  <2>6. next = <<e, i + 1>>  BY Zenon DEF e, i
  <2> QED  BY <2>1, <2>4, <2>5, <2>6, ConnPairs, Zenon
<1> HIDE DEF UnwindJoins, next
<1>4. /\ connection' \in [Call -> Conn \cup {NULL}] /\ connection'[r] \in Conn
      /\ \A q \in Call \ {r} : connection'[q] = connection[q]
  BY <1>1, <1>2, <1>3, Zenon DEF IInv, Types
<1>5. /\ pc' \in [Call -> States] /\ pc'[r] = to
      /\ \A q \in Call \ {r} : pc'[q] = pc[q]
  BY <1>0, Zenon DEF IInv, Types, States, HasConnection
<1>6. pc[r] \notin Taken /\ to \notin Taken \cup Recycling
  BY <1>0, <1>1, Zenon DEF Taken, Recycling
<1>7. /\ CallInv' /\ finished' \in [Call -> Nat]
      /\ pending_network_calls' \in [Conn -> SUBSET Call]
  <2>1. \A q \in Call : pc[q] \in Taken =>
          pc'[q] \in Taken /\ connection'[q] = connection[q]
    BY <1>4, <1>5, <1>6, Zenon
  <2> QED  BY <1>1, <2>1, CancelKeeps, Zenon DEF IInv
<1>8. Types'  BY <1>1, <1>4, <1>5, <1>7, Zenon DEF IInv, Types, flag_vars, count_vars
<1>9. LockInv' /\ DropInv'
  BY <1>1, <1>4, <1>5, <1>6, Zenon DEF IInv, LockInv, DropInv, flag_vars, count_vars
<1>10. EntryInv'
  <2>1. connections' \in Entry \cup {0}  BY <1>2, Zenon DEF IInv, EntryInv
  <2> QED  BY <1>0, <1>1, <2>1, EntryFrame, Zenon DEF IInv, HasEntry, kept_vars
<1> QED  BY <1>7, <1>8, <1>9, <1>10, Zenon DEF IInv

\* An attempt finds the entry.
LEMMA FindEntryStep ==
  ASSUME IInv, NEW r \in Call, FindEntry(r) PROVE IInv'
<1> USE DEF FindEntry, Goto
<1>1. Types' /\ CallInv' /\ LockInv' /\ DropInv'
  BY ThreadFrame, Zenon DEF IInv, Types, flag_vars, Taken, Recycling, HasConnection,
     HasEntry, States
<1>2. connections \in Entry  BY Zenon DEF IInv, EntryInv
<1>3. EntryInv'
  <2>1. http_conn_entry' \in [Call -> Entry \cup {0}]
    BY <1>2, Zenon DEF IInv, EntryInv
  <2>2. \A q \in Call : pc'[q] \in HasEntry => http_conn_entry'[q] \in Entry
    BY <1>2, Zenon DEF IInv, Types, EntryInv
  <2> QED  BY <2>1, <2>2, Zenon DEF IInv, EntryInv, entry_vars, kept_vars
<1> QED  BY <1>1, <1>3, Zenon DEF IInv

\* An attempt tests whether the entry is set up.
LEMMA TestInitializedStep ==
  ASSUME IInv, NEW r \in Call, TestInitialized(r) PROVE IInv'
<1> USE DEF TestInitialized, Goto
<1>0. PICK to \in {"pick", "refused"} : pc' = [pc EXCEPT ![r] = to]  BY Zenon
<1>1. Types' /\ CallInv' /\ LockInv' /\ DropInv'
  BY <1>0, ThreadFrame, Zenon DEF IInv, Types, flag_vars, Taken, Recycling,
     HasConnection, HasEntry, States
<1>2. EntryInv'
  BY <1>0, EntryFrame, Zenon DEF IInv, entry_vars, kept_vars, HasEntry, EntryInv
<1> QED  BY <1>1, <1>2, Zenon DEF IInv

\* The counter picks a connection of the entry.
LEMMA PickConnectionStep ==
  ASSUME IInv, NEW r \in Call, PickConnection(r) PROVE IInv'
<1> USE DEF PickConnection, Goto
<1> DEFINE e == http_conn_entry[r]
           c == <<e, order_counter[e]>>
<1>0. PICK to \in {"recycle", "execute"} : pc' = [pc EXCEPT ![r] = to]  BY Zenon
<1>1. e \in Entry  BY Zenon DEF IInv, EntryInv, HasEntry
<1>2. c \in Conn  BY <1>1, ConnPairs, Zenon DEF IInv, EntryInv
<1>3. connection' = [connection EXCEPT ![r] = c] /\ pc[r] = "pick"  BY Zenon
<1>4. Types' /\ CallInv' /\ LockInv' /\ DropInv'
  <2>1. /\ connection' \in [Call -> Conn \cup {NULL}] /\ connection'[r] \in Conn
        /\ \A q \in Call \ {r} : connection'[q] = connection[q]
    BY <1>2, <1>3, Zenon DEF IInv, Types
  <2>2. to \in States /\ to \notin Taken \cup Recycling /\ pc[r] \notin Taken
    BY <1>0, <1>3, Zenon DEF States, HasConnection, Taken, Recycling
  <2>3. /\ is_ready' \subseteq Conn
        /\ UNCHANGED <<connection_lock, is_dropped, finish_vars, count_vars>>
    BY Zenon DEF flag_vars, IInv, Types
  <2> QED  BY <1>0, <2>1, <2>2, <2>3, ThreadFrame, Zenon
<1>5. EntryInv'
  <2>1. (order_counter[e] + 1) % max_connections_per_host \in Index
    BY <1>1, PoolNumbers, Zenon DEF IInv, EntryInv
  <2>2. order_counter' \in [Entry -> Index]  BY <1>1, <2>1, Zenon DEF IInv, EntryInv
  <2>3. \A q \in Call : pc'[q] \in HasEntry => http_conn_entry'[q] \in Entry
    BY <1>0, Zenon DEF IInv, Types, EntryInv, HasEntry
  <2> QED  BY <2>2, <2>3, Zenon DEF IInv, EntryInv, kept_vars
<1> QED  BY <1>4, <1>5, Zenon DEF IInv

\* After recycling, the thread picks a connection that is ready.
LEMMA PickReadyStep ==
  ASSUME IInv, NEW r \in Call, PickReady(r) PROVE IInv'
<1> USE DEF PickReady, Goto
<1>0. PICK to \in {"execute", "refused"} : pc' = [pc EXCEPT ![r] = to]  BY Zenon
<1>1. \/ \E c \in Conn : connection' = [connection EXCEPT ![r] = c]
      \/ UNCHANGED connection
  BY Zenon DEF IInv, Types
<1>2. /\ pc[r] = "check" /\ is_ready' \subseteq Conn /\ connection[r] \in Conn
      /\ UNCHANGED <<connection_lock, is_dropped, finish_vars, count_vars, entry_vars,
                     http_conn_entry>>
  BY Zenon DEF flag_vars, IInv, Types, HasConnection
<1> HIDE DEF PickReady
<1>3. /\ connection' \in [Call -> Conn \cup {NULL}] /\ connection'[r] \in Conn
      /\ \A q \in Call \ {r} : connection'[q] = connection[q]
  BY <1>1, <1>2, Zenon DEF IInv, Types
<1>4. to \in States /\ to \notin Taken \cup Recycling /\ pc[r] \notin Taken
  BY <1>0, <1>2, Zenon DEF States, HasConnection, Taken, Recycling
<1>5. Types' /\ CallInv' /\ LockInv' /\ DropInv'
  BY <1>0, <1>2, <1>3, <1>4, ThreadFrame, Zenon
<1>6. EntryInv'
  BY <1>0, <1>2, EntryFrame, Zenon DEF IInv, entry_vars, kept_vars, HasEntry, EntryInv
<1> QED  BY <1>5, <1>6, Zenon DEF IInv

\* RecycleConnection tests is_dropped_ once more when it has the lock.
LEMMA RecycleLocksStep ==
  ASSUME IInv, NEW r \in Call, RecycleLocks(r) PROVE IInv'
<1> USE DEF RecycleLocks
<1>0. PICK to \in {"stop", "check"} : pc' = [pc EXCEPT ![r] = to]  BY Zenon
<1>1. /\ pc[r] = "recycle" /\ connection_lock = NULL
      /\ \A q \in Call : pc[q] \notin Recycling
  BY PoolNumbers, Zenon DEF IInv, LockInv
<1>2. \A q \in Call : pc'[q] = IF q = r THEN to ELSE pc[q]
  BY <1>0, Zenon DEF IInv, Types
<1>3. Types'
  <2>1. pc' \in [Call -> States]
    BY <1>0, Zenon DEF IInv, Types, States, HasConnection, Recycling
  <2>2. \A q \in Call : pc'[q] \in HasConnection => connection'[q] \in Conn
    BY <1>1, <1>2, Zenon DEF IInv, Types, HasConnection
  <2> QED  BY <2>1, <2>2, Zenon DEF IInv, Types, flag_vars, finish_vars, count_vars
<1>4. CallInv'
  <2>1. \A q \in Call : pc[q] \in Taken => pc'[q] \in Taken
    BY <1>1, <1>2, Zenon DEF Taken
  <2>2. \A c \in Conn : pending_network_calls[c] \subseteq Call
    BY Zenon DEF IInv, Types
  <2>3. UNCHANGED <<connection, finished, pending_network_calls>>
    BY Zenon DEF finish_vars
  <2> HIDE DEF RecycleLocks
  <2> QED  BY <2>1, <2>2, <2>3, Zenon DEF IInv, CallInv
<1>5. LockInv'
  <2>1. CASE connection[r] \in is_dropped
    BY <1>1, <1>2, <2>1, Zenon DEF LockInv, flag_vars
  <2>2. CASE connection[r] \notin is_dropped
    <3>1. pc' = [pc EXCEPT ![r] = "check"]  BY <2>2, Zenon
    <3> QED  BY <1>1, <3>1, Zenon DEF IInv, Types, LockInv, Recycling
  <2> QED  BY <2>1, <2>2, Zenon
<1>6. DropInv'  BY Zenon DEF IInv, DropInv, flag_vars, count_vars
<1>7. EntryInv'
  BY <1>0, EntryFrame, Zenon DEF IInv, entry_vars, kept_vars, HasEntry, EntryInv
<1> QED  BY <1>3, <1>4, <1>5, <1>6, <1>7, Zenon DEF IInv

\* Stop of the connection that is recycled: it remains dropped, and its lock held.
\* Its pending calls are finished once its thread has ended.
LEMMA RecycleStopsStep ==
  ASSUME IInv, NEW r \in Call, RecycleStops(r) \/ RecycleCancels(r) PROVE IInv'
<1> USE DEF RecycleStops, RecycleCancels, Goto
<1>0. PICK to \in {"join", "restart"} : pc' = [pc EXCEPT ![r] = to]  BY Zenon
<1>1. /\ pc[r] \in {"stop", "join"} /\ connection[r] \in Conn
      /\ UNCHANGED <<connection, connection_lock, is_dropped, count_vars>>
  BY Zenon DEF IInv, Types, HasConnection, Recycling, flag_vars
<1>2. is_ready' \subseteq Conn
  BY Zenon DEF StopConnection, flag_vars, IInv, Types
<1>3. \A q \in Call : pc'[q] = IF q = r THEN to ELSE pc[q]
  BY <1>0, Zenon DEF IInv, Types
<1>4. /\ CallInv' /\ finished' \in [Call -> Nat]
      /\ pending_network_calls' \in [Conn -> SUBSET Call]
  <2>1. \A q \in Call : pc[q] \in Taken =>
          pc'[q] \in Taken /\ connection'[q] = connection[q]
    BY <1>1, <1>3, Zenon DEF Taken
  <2>2. CASE RecycleStops(r)
    <3>1. UNCHANGED <<connection, finished, pending_network_calls>>
      BY <2>2, Zenon DEF finish_vars
    <3>2. \A c \in Conn : pending_network_calls[c] \subseteq Call
      BY Zenon DEF IInv, Types
    <3> HIDE DEF RecycleStops, RecycleCancels
    <3>3. CallInv'  BY <2>1, <3>1, <3>2, Zenon DEF IInv, CallInv
    <3> QED  BY <3>1, <3>3, Zenon DEF IInv, Types
  <2>3. CASE RecycleCancels(r)
    BY <1>1, <2>1, <2>3, CancelKeeps, Zenon DEF IInv
  <2> QED  BY <2>2, <2>3, Zenon
<1>5. EntryInv'
  BY <1>0, EntryFrame, Zenon DEF IInv, entry_vars, kept_vars, HasEntry, EntryInv
<1> HIDE DEF RecycleStops, RecycleCancels
<1>6. Types'
  <2>1. pc' \in [Call -> States]
    BY <1>0, Zenon DEF IInv, Types, States, HasConnection, Recycling
  <2>2. \A q \in Call : pc'[q] \in HasConnection => connection'[q] \in Conn
    BY <1>1, <1>3, Zenon DEF IInv, Types
  <2> QED  BY <1>1, <1>2, <1>4, <2>1, <2>2, Zenon DEF IInv, Types, count_vars
<1>7. LockInv'  BY <1>1, <1>3, Zenon DEF IInv, LockInv, Recycling
<1>8. DropInv'  BY <1>1, Zenon DEF IInv, DropInv, count_vars
<1> QED  BY <1>4, <1>5, <1>6, <1>7, <1>8, Zenon DEF IInv

\* The connection is not dropped any more, and counted as recycled.
LEMMA RecycleRestartsStep ==
  ASSUME IInv, NEW r \in Call, RecycleRestarts(r) PROVE IInv'
<1> DEFINE c == connection[r]
<1>1. /\ c \in Conn /\ c \in is_dropped /\ pc[r] = "restart"
      /\ connection_lock = r
  BY Zenon DEF RecycleRestarts, Goto, IInv, Types, LockInv, HasConnection, Recycling
<1>2. /\ recycles' = [recycles EXCEPT ![c] = @ + 1]
      /\ is_dropped' = is_dropped \ {c} /\ is_ready' = is_ready \ {c}
      /\ pc' = [pc EXCEPT ![r] = "check"] /\ connection_lock' = NULL
      /\ UNCHANGED <<entry_vars, http_conn_entry, connection, finish_vars, drops>>
  BY Zenon DEF RecycleRestarts, Goto
<1> HIDE DEF c
<1>3. \A q \in Call : pc'[q] = IF q = r THEN "check" ELSE pc[q]
  BY <1>2, Zenon DEF IInv, Types
<1>4. recycles \in [Conn -> Nat]  BY Zenon DEF IInv, Types
<1>5. /\ recycles' \in [Conn -> Nat] /\ recycles'[c] = recycles[c] + 1
      /\ \A d \in Conn : d # c => recycles'[d] = recycles[d]
  BY <1>1, <1>2, <1>4
<1>6. Types'
  <2>1. pc' \in [Call -> States]
    BY <1>2, Zenon DEF IInv, Types, States, HasConnection
  <2>2. \A q \in Call : pc'[q] \in HasConnection => connection'[q] \in Conn
    BY <1>1, <1>2, <1>3, Zenon DEF IInv, Types, c
  <2> QED  BY <1>2, <1>5, <2>1, <2>2, Zenon DEF IInv, Types, finish_vars
<1>7. CallInv'
  <2>1. \A q \in Call : pc[q] \in Taken => pc'[q] \in Taken
    BY <1>1, <1>3, Zenon DEF Taken
  <2>2. \A d \in Conn : pending_network_calls[d] \subseteq Call
    BY Zenon DEF IInv, Types
  <2> QED  BY <1>2, <2>1, <2>2, Zenon DEF IInv, CallInv, finish_vars
<1>8. LockInv'
  <2>1. \A q \in Call : q # r => pc[q] \notin Recycling
    BY <1>1, Zenon DEF IInv, LockInv
  <2> QED  BY <1>3, <2>1, Zenon DEF LockInv, Recycling
<1>9. DropInv'
  <2>1. recycles[c] + 1 <= drops[c]  BY <1>1, Zenon DEF IInv, DropInv
  <2>2. recycles'[c] <= drops'[c] /\ c \notin is_dropped'
    BY <1>1, <1>2, <1>5, <2>1, Zenon
  <2>3. \A d \in Conn \ {c} :
          recycles'[d] = recycles[d] /\ drops'[d] = drops[d]
            /\ (d \in is_dropped' <=> d \in is_dropped)
    BY <1>2, <1>5, Zenon
  <2>4. \A d \in Conn : recycles'[d] \in Nat  BY <1>5, Zenon
  <2> QED  BY <2>2, <2>3, <2>4 DEF IInv, DropInv
<1>10. EntryInv'
  BY <1>2, EntryFrame, Zenon DEF IInv, entry_vars, kept_vars, HasEntry, EntryInv
<1> QED  BY <1>6, <1>7, <1>8, <1>9, <1>10, Zenon DEF IInv

\* Execute tests is_ready_.
LEMMA TestReadyStep ==
  ASSUME IInv, NEW r \in Call, TestReady(r) PROVE IInv'
<1> USE DEF TestReady
<1>0. PICK to \in {"insert", "refused"} : pc' = [pc EXCEPT ![r] = to]  BY Zenon
<1>1. connection[r] \in Conn  BY Zenon DEF IInv, Types, HasConnection
<1>2. Types' /\ CallInv' /\ LockInv' /\ DropInv'
  BY <1>0, <1>1, ThreadFrame, Zenon DEF IInv, Types, flag_vars, Taken, Recycling,
     HasConnection, States
<1>3. EntryInv'
  BY <1>0, EntryFrame, Zenon DEF IInv, entry_vars, kept_vars, HasEntry, EntryInv
<1> QED  BY <1>2, <1>3, Zenon DEF IInv

\* Execute takes a call that nobody has finished, and posts it.
LEMMA ExecuteStep ==
  ASSUME IInv, NEW r \in Call, InsertPending(r) \/ PostSend(r) PROVE IInv'
<1> USE DEF InsertPending, PostSend, Goto
<1> DEFINE c == connection[r]
<1>0. PICK to \in Taken : pc' = [pc EXCEPT ![r] = to]  BY Zenon DEF Taken
<1>1. /\ pc[r] \in {"insert", "post"} /\ c \in Conn
      /\ UNCHANGED <<connection, connection_lock, flag_vars, finished, count_vars,
                     entry_vars, http_conn_entry>>
  BY Zenon DEF IInv, Types, HasConnection, finish_vars
<1>2. \/ /\ pending_network_calls' = [pending_network_calls EXCEPT ![c] = @ \cup {r}]
         /\ pc[r] = "insert"
      \/ UNCHANGED pending_network_calls
  BY Zenon DEF finish_vars
<1> HIDE DEF InsertPending, PostSend, c
<1>3. \A q \in Call : pc'[q] = IF q = r THEN to ELSE pc[q]
  BY <1>0, Zenon DEF IInv, Types
<1>4. /\ pending_network_calls' \in [Conn -> SUBSET Call]
      /\ \A d \in Conn : \A q \in pending_network_calls'[d] :
           q \in pending_network_calls[d] \/ (q = r /\ d = c /\ pc[r] = "insert")
  <2>1. pending_network_calls \in [Conn -> SUBSET Call]  BY Zenon DEF IInv, Types
  <2>2. CASE UNCHANGED pending_network_calls  BY <2>1, <2>2, Zenon
  <2>3. CASE /\ pending_network_calls' = [pending_network_calls EXCEPT ![c] = @ \cup {r}]
             /\ pc[r] = "insert"
    <3>1. pending_network_calls[c] \cup {r} \in SUBSET Call  BY <1>1, <2>1
    <3> QED  BY <1>1, <2>1, <2>3, <3>1, Zenon
  <2> QED  BY <1>2, <2>2, <2>3, Zenon
<1>5. Types'
  <2>1. pc' \in [Call -> States]
    BY <1>0, Zenon DEF IInv, Types, States, HasConnection, Taken
  <2>2. \A q \in Call : pc'[q] \in HasConnection => connection'[q] \in Conn
    BY <1>1, <1>3, Zenon DEF IInv, Types, c
  <2> QED  BY <1>1, <1>4, <2>1, <2>2, Zenon DEF IInv, Types, flag_vars, count_vars
<1>6. CallInv'
  <2>1. \A q \in Call : pc[q] \in Taken => pc'[q] \in Taken  BY <1>0, <1>3, Zenon
  <2>3. pc[r] = "insert" => finished[r] = 0  BY Zenon DEF IInv, CallInv, Taken
  <2>4. \A d \in Conn : pending_network_calls[d] \subseteq Call
    BY Zenon DEF IInv, Types
  <2>5. \A d \in Conn : \A q \in pending_network_calls'[d] :
          connection'[q] = d /\ finished'[q] = 0 /\ pc'[q] \in Taken
    <3> SUFFICES ASSUME NEW d \in Conn, NEW q \in pending_network_calls'[d]
                 PROVE  connection'[q] = d /\ finished'[q] = 0 /\ pc'[q] \in Taken
      BY Zenon
    <3>1. CASE q \in pending_network_calls[d]
      BY <1>1, <2>1, <2>4, <3>1, Zenon DEF IInv, CallInv
    <3>2. CASE q = r /\ d = c /\ pc[r] = "insert"
      BY <1>0, <1>1, <1>3, <2>3, <3>2, Zenon DEF c
    <3> QED  BY <1>4, <3>1, <3>2, Zenon
  <2>6. \A q \in Call : finished'[q] <= 1 /\ (finished'[q] # 0 => pc'[q] \in Taken)
    BY <1>1, <2>1, Zenon DEF IInv, CallInv
  <2> QED  BY <2>5, <2>6, Zenon DEF CallInv
<1>7. LockInv'
  <2>1. to \notin Recycling  BY <1>0, Zenon DEF Taken, Recycling
  <2> QED  BY <1>1, <1>3, <2>1, Zenon DEF IInv, LockInv, flag_vars
<1>8. DropInv'  BY <1>1, Zenon DEF IInv, DropInv, flag_vars, count_vars
<1>9. EntryInv'
  <2>1. to \notin HasEntry  BY <1>0, Zenon DEF Taken, HasEntry
  <2> QED  BY <1>0, <1>1, <2>1, EntryFrame, Zenon DEF IInv, entry_vars, kept_vars, EntryInv
<1> QED  BY <1>5, <1>6, <1>7, <1>8, <1>9, Zenon DEF IInv

\* The thread of a connection, or its session, changes neither a call nor a key.
LEMMA ConnectionStep ==
  ASSUME IInv, NEW c \in Conn,
         \/ Submit(c) \/ SendWithoutSession(c) \/ OnConnectionCreated(c) \/ Shutdown(c)
         \/ StopIoService(c) \/ SessionConnects(c) \/ SessionGetsError(c)
  PROVE  IInv'
<1>1. is_ready' \subseteq Conn
  BY Zenon DEF IInv, Types, Submit, SendWithoutSession, OnConnectionCreated, Shutdown,
     StopIoService, SessionConnects, SessionGetsError, flag_vars
<1>2. UNCHANGED <<entry_vars, call_vars, connection_lock, is_dropped, finish_vars,
                  count_vars>>
  BY Zenon DEF Submit, SendWithoutSession, OnConnectionCreated, Shutdown,
     StopIoService, SessionConnects, SessionGetsError, flag_vars
<1> QED  BY <1>1, <1>2, StillFrame, Zenon DEF IInv, EntryInv, entry_vars

\* An answer finishes a call only if it erases the key, and so does a request that
\* is wrong or that the session refuses.
LEMMA EraseStep ==
  ASSUME IInv, NEW c \in Conn,
         RejectRequest(c) \/ SubmitFails(c) \/ \E r \in Call : StreamCloses(c, r)
  PROVE  IInv'
<1>1. \E r : FinishErased(c, r)
  BY Zenon DEF RejectRequest, SubmitFails, StreamCloses
<1>2. UNCHANGED <<entry_vars, call_vars, connection_lock, flag_vars, count_vars>>
  BY Zenon DEF RejectRequest, SubmitFails, StreamCloses
<1> QED  BY <1>1, <1>2, EraseKeeps, FinishFrame, Zenon DEF IInv

\* The connection is dropped, once, and its calls are finished.
LEMMA OnConnectionErrorStep ==
  ASSUME IInv, NEW c \in Conn, OnConnectionError(c) PROVE IInv'
<1> USE DEF IInv, OnConnectionError
<1>1. /\ CallInv' /\ finished' \in [Call -> Nat]
      /\ pending_network_calls' \in [Conn -> SUBSET Call]
  BY CancelKeeps, Zenon DEF call_vars
<1>2. drops' \in [Conn -> Nat]  BY DEF Types
<1>3. Types'  BY <1>1, <1>2, Zenon DEF Types, call_vars
<1>4. LockInv'  BY Zenon DEF LockInv, call_vars
<1>5. DropInv'  BY DEF Types, DropInv
<1>6. EntryInv'  BY Zenon DEF EntryInv, entry_vars, kept_vars, call_vars
<1> QED  BY <1>1, <1>3, <1>4, <1>5, <1>6, Zenon

\* Stop of the pool finishes what is left of a connection it has joined.
LEMMA PoolStep ==
  ASSUME IInv, BeginStop \/ Stopping \/ StopFails \/ Dies PROVE IInv'
<1>1. CASE BeginStop \/ FindStops \/ StopFails \/ Dies
  BY <1>1, StillFrame, Zenon DEF BeginStop, FindStops, StopFails, Dies, IInv, Types,
     EntryInv, entry_vars, flag_vars
<1>2. CASE StopNext
  <2>1. is_ready' \subseteq is_ready  BY <1>2, Zenon DEF StopNext, StopConnection
  <2> QED  BY <1>2, <2>1, StillFrame, Zenon DEF StopNext, IInv, Types, EntryInv, entry_vars
<1>3. CASE StopJoins
  <2>1. PICK c \in Conn : CancelPendingCallbacks(c)  BY <1>3, Zenon DEF StopJoins
  <2>2. UNCHANGED <<entry_vars, call_vars, connection_lock, flag_vars, count_vars>>
    BY <1>3, Zenon DEF StopJoins
  <2> QED  BY <2>1, <2>2, CancelKeeps, FinishFrame, Zenon DEF IInv, call_vars
<1>4. CASE StopErases
  BY <1>4, StillFrame, Zenon DEF StopErases, IInv, Types, flag_vars
<1> QED  BY <1>1, <1>2, <1>3, <1>4, Zenon DEF Stopping

-----------------------------------------------------------------------------
(* Theorems *)

\* Every step of a call, a connection or Stop keeps the invariant.
LEMMA NextIInv ==
  ASSUME IInv, [Next]_vars PROVE IInv'
<1>1. ASSUME NEW r \in Call, GetConnectionFails(r) \/ InsertEntry(r) \/ FindEntry(r)
      PROVE IInv'
  BY <1>1, GetConnectionFailsStep, InsertEntryStep, FindEntryStep, Zenon
<1>2. ASSUME NEW r \in Call, Step(r) PROVE IInv'
  BY <1>2, CreateConnectionStep, InitializedStep, CreateFailsStep, UnwindStopsStep,
     UnwindJoinsStep, TestInitializedStep, PickConnectionStep, PickReadyStep,
     RecycleLocksStep, RecycleStopsStep, RecycleRestartsStep, TestReadyStep,
     ExecuteStep, Zenon DEF Step
<1>3. ASSUME NEW c \in Conn, Handle(c) \/ SessionConnects(c) \/ SessionGetsError(c)
      PROVE IInv'
  BY <1>3, ConnectionStep, EraseStep, OnConnectionErrorStep, Zenon DEF Handle
<1>4. ASSUME NEW c \in Conn, NEW r \in Call, StreamCloses(c, r) PROVE IInv'
  BY <1>4, EraseStep, Zenon
<1>5. CASE BeginStop \/ Stopping \/ StopFails \/ Dies  BY <1>5, PoolStep, Zenon
<1>6. CASE UNCHANGED vars
  BY <1>6, StillFrame, Zenon DEF vars, entry_vars, flag_vars, IInv, Types, EntryInv
<1> QED  BY <1>1, <1>2, <1>3, <1>4, <1>5, <1>6, Zenon DEF Next

\* The inductive invariant always holds.
LEMMA Invariance == Spec => []IInv
BY InitIInv, NextIInv, PTL DEF Spec

\* The context of a call is finished at most once, and only after Execute took
\* it, whoever of the answer, an error, the recycling thread and Stop erases
\* its key.
THEOREM ContextsFinishedOnce == Spec => []FinishedOnce
<1>1. IInv => FinishedOnce
  <2>1. \A r \in Call : finished[r] = 1 => finished[r] # 0  OBVIOUS
  <2> QED  BY <2>1, Zenon DEF IInv, CallInv, FinishedOnce, Taken
<1> QED  BY <1>1, Invariance, PTL

\* However many threads find a connection dropped, it is recycled once for the
\* drop: RecycleConnection tests is_dropped_ again under the lock.
THEOREM ConnectionsRecycledOnce == Spec => []RecycledOncePerDrop
<1>1. IInv => RecycledOncePerDrop
  BY DEF IInv, Types, DropInv, RecycledOncePerDrop
<1> QED  BY <1>1, Invariance, PTL

-----------------------------------------------------------------------------
(* Stop *)

\* Whatever others do while Stop is somewhere: a connection that Stop has told to
\* stop runs again only when it is recycled, and what is inserted into the calls
\* of one that does not run came too late.
LEMMA StopFrame ==
  ASSUME StopInv, UNCHANGED stop_vars, reopened \subseteq reopened', raced \subseteq raced',
         \A c \in targets : http_connections[c[1]] \in Nat
           /\ http_connections'[c[1]] \in Nat
           /\ http_connections[c[1]] <= http_connections'[c[1]],
         \A c \in Halted \ reopened' : c \notin running =>
           /\ c \notin running'
           /\ pending_network_calls'[c] \subseteq pending_network_calls[c] \cup raced'
  PROVE  StopInv'
<1> USE DEF StopInv, stop_vars
<1>1. \A c \in targets : c[2] < http_connections'[c[1]]
  BY ConnPairs, PoolNumbers
<1>2. Halted' = Halted  BY Zenon DEF Halted
<1>3. \A c \in Halted' \ reopened' : /\ c \notin running'
                                     /\ pending_network_calls'[c] \subseteq raced'
  BY <1>2, Zenon
<1> QED  BY <1>1, <1>3, Zenon

\* Stop has told those it has done with to stop.
LEMMA HaltedTold ==
  ASSUME StopInv PROVE Halted \subseteq ToldToStop
<1> SUFFICES ASSUME NEW c \in Halted PROVE c \in ToldToStop  BY Zenon
<1>1. c \in targets /\ c \in Conn /\ c[2] \in Nat /\ stopping \in Nat
  BY ConnPairs, PoolNumbers, Zenon DEF Halted, StopInv
<1>2. CASE c[2] < stopping  BY <1>1, <1>2, Zenon DEF ToldToStop
<1>3. CASE stop_pc \in {"erase", "stopped"}
  <2>1. c[2] <= stopping /\ stop_pc # "stop"  BY <1>1, <1>3, Zenon DEF StopInv
  <2>2. c[2] < stopping \/ c[2] = stopping  BY <1>1, <2>1
  <2> QED  BY <1>1, <2>1, <2>2, Zenon DEF ToldToStop
<1> QED  BY <1>2, <1>3, Zenon DEF Halted

\* The vector of an entry does not shrink.
LEMMA SameVectors ==
  ASSUME IInv, StopInv, UNCHANGED http_connections
  PROVE  \A c \in targets : /\ http_connections[c[1]] \in Nat
                            /\ http_connections'[c[1]] \in Nat
                            /\ http_connections[c[1]] <= http_connections'[c[1]]
<1> SUFFICES ASSUME NEW c \in targets
             PROVE  /\ http_connections[c[1]] \in Nat
                    /\ http_connections'[c[1]] \in Nat
                    /\ http_connections[c[1]] <= http_connections'[c[1]]
  BY Zenon
<1>1. c[1] \in Entry  BY ConnPairs, Zenon DEF StopInv
<1>2. max_connections_per_host \in Nat  BY PoolNumbers, Zenon DEF IInv, EntryInv
<1>3. http_connections[c[1]] \in 0..max_connections_per_host
  BY <1>1, Zenon DEF IInv, EntryInv
<1> QED  BY <1>2, <1>3

\* Erasing keys makes nothing wait.
LEMMA FewerPending ==
  ASSUME IInv, NEW c \in Conn,
         \/ CancelPendingCallbacks(c) \/ \E r : FinishErased(c, r)
  PROVE  \A d \in Conn : pending_network_calls'[d] \subseteq pending_network_calls[d]
<1>1. CASE CancelPendingCallbacks(c)
  BY <1>1, Zenon DEF CancelPendingCallbacks, IInv, Types
<1>2. CASE \E r : FinishErased(c, r)
  BY <1>2, Zenon DEF FinishErased, IInv, Types
<1> QED  BY <1>1, <1>2, Zenon

\* A step that starts no thread, and makes no context wait.
LEMMA CalmFrame ==
  ASSUME IInv, StopInv, UNCHANGED <<stop_vars, http_connections>>,
         reopened \subseteq reopened', raced \subseteq raced', running' \subseteq running,
         \A c \in Conn : pending_network_calls'[c] \subseteq pending_network_calls[c]
  PROVE  StopInv'
<1>1. Halted \subseteq Conn  BY Zenon DEF Halted, StopInv
<1> QED  BY <1>1, SameVectors, StopFrame, Zenon

\* The steps of a thread that makes an attempt.  A new connection is not one that
\* Stop has found; one that is recycled is reopened if Stop was there before; and
\* what Execute inserts where nothing runs came too late.
LEMMA ThreadStops ==
  ASSUME IInv, StopInv, NEW r \in Call,
         GetConnectionFails(r) \/ InsertEntry(r) \/ FindEntry(r) \/ Step(r)
  PROVE  StopInv'
<1> USE DEF finish_vars, io_vars, race_vars, entry_vars
<1>0. Halted \subseteq targets /\ targets \subseteq Conn  BY Zenon DEF Halted, StopInv
<1>1. CASE \/ GetConnectionFails(r) \/ InsertEntry(r) \/ FindEntry(r)
           \/ Initialized(r) \/ CreateFails(r) \/ TestInitialized(r)
           \/ PickConnection(r) \/ PickReady(r) \/ RecycleLocks(r) \/ TestReady(r)
  BY <1>1, CalmFrame, Zenon DEF GetConnectionFails, InsertEntry, FindEntry, Initialized,
     CreateFails, TestInitialized, PickConnection, PickReady, RecycleLocks, TestReady
<1>2. CASE UnwindStops(r) \/ RecycleStops(r) \/ PostSend(r)
  BY <1>2, CalmFrame, Zenon DEF UnwindStops, RecycleStops, PostSend
<1>3. CASE UnwindJoins(r) \/ RecycleCancels(r)
  <2>1. connection[r] \in Conn /\ CancelPendingCallbacks(connection[r])
    BY <1>3, Zenon DEF UnwindJoins, RecycleCancels, Goto, IInv, Types, HasConnection,
       Recycling
  <2>2. \A c \in Conn : pending_network_calls'[c] \subseteq pending_network_calls[c]
    BY <2>1, FewerPending, Zenon
  <2> QED  BY <1>3, <2>2, CalmFrame, Zenon DEF UnwindJoins, RecycleCancels
<1>4. CASE CreateConnection(r)
  <2> DEFINE e == http_conn_entry[r]
             n == http_connections[e]
  <2>1. /\ e \in Entry /\ running' = running \cup {<<e, n>>}
        /\ http_connections' = [http_connections EXCEPT ![e] = @ + 1]
        /\ UNCHANGED <<pending_network_calls, stop_vars, raced, reopened>>
    BY <1>4, Zenon DEF CreateConnection, NextConnection, IInv, EntryInv, HasEntry
  <2>2. /\ max_connections_per_host \in Nat
        /\ http_connections \in [Entry -> 0..max_connections_per_host]
    BY PoolNumbers, Zenon DEF IInv, EntryInv
  <2> HIDE DEF e
  <2>3. \A f \in Entry : /\ http_connections[f] \in Nat /\ http_connections'[f] \in Nat
                         /\ http_connections[f] <= http_connections'[f]
    BY <2>1, <2>2
  <2>4. \A c \in targets : c[1] \in Entry /\ c[2] \in Nat /\ c[2] < http_connections[c[1]]
    BY <1>0, ConnPairs, PoolNumbers, Zenon DEF StopInv
  <2>5. <<e, n>> \notin targets
    <3>1. SUFFICES ASSUME <<e, n>> \in targets PROVE FALSE  BY Zenon
    <3>2. n \in Nat /\ n < n  BY <2>1, <2>3, <2>4, <3>1, Zenon
    <3> QED  BY <3>2
  <2> HIDE DEF n
  <2> QED  BY <1>0, <2>1, <2>3, <2>4, <2>5, StopFrame, Zenon
<1>5. CASE RecycleRestarts(r)
  <2>1. /\ running' = running \cup {connection[r]}
        /\ reopened' = reopened \cup ({connection[r]} \cap ToldToStop)
        /\ UNCHANGED <<pending_network_calls, stop_vars, raced, http_connections>>
    BY <1>5, Zenon DEF RecycleRestarts
  <2>2. \A c \in Halted \ reopened' : c # connection[r]  BY <2>1, HaltedTold, Zenon
  <2> QED  BY <2>1, <2>2, SameVectors, StopFrame, Zenon
<1>6. CASE InsertPending(r)
  <2> DEFINE c == connection[r]
  <2>1. /\ c \in Conn
        /\ pending_network_calls' = [pending_network_calls EXCEPT ![c] = @ \cup {r}]
        /\ c \notin running => r \in raced'
        /\ raced \subseteq raced'
        /\ UNCHANGED <<running, stop_vars, reopened, http_connections>>
    BY <1>6, Zenon DEF InsertPending, Goto, IInv, Types, HasConnection
  <2> HIDE DEF c
  <2>2. \A d \in Conn : d \notin running =>
          pending_network_calls'[d] \subseteq pending_network_calls[d] \cup raced'
    BY <2>1, Zenon DEF IInv, Types
  <2> QED  BY <1>0, <2>1, <2>2, SameVectors, StopFrame, Zenon
<1> QED  BY <1>1, <1>2, <1>3, <1>4, <1>5, <1>6, Zenon DEF Step

\* The thread of a connection handles what was posted, or its session does
\* something.
LEMMA ConnectionStops ==
  ASSUME IInv, StopInv, NEW c \in Conn,
         \/ Handle(c) \/ SessionConnects(c) \/ SessionGetsError(c)
         \/ \E r \in Call : StreamCloses(c, r)
  PROVE  StopInv'
<1> USE DEF finish_vars, io_vars, race_vars, entry_vars
<1>1. CASE RejectRequest(c) \/ SubmitFails(c) \/ OnConnectionError(c)
           \/ \E r \in Call : StreamCloses(c, r)
  <2>1. CancelPendingCallbacks(c) \/ \E r : FinishErased(c, r)
    BY <1>1, Zenon DEF RejectRequest, SubmitFails, OnConnectionError, StreamCloses
  <2>2. UNCHANGED <<stop_vars, running, raced, reopened, http_connections>>
    BY <1>1, Zenon DEF RejectRequest, SubmitFails, OnConnectionError, StreamCloses
  <2> QED  BY <2>1, <2>2, FewerPending, CalmFrame, Zenon
<1>2. CASE \/ Submit(c) \/ SendWithoutSession(c) \/ OnConnectionCreated(c) \/ Shutdown(c)
           \/ StopIoService(c) \/ SessionConnects(c) \/ SessionGetsError(c)
  BY <1>2, CalmFrame, Zenon DEF Submit, SendWithoutSession, OnConnectionCreated, Shutdown,
     StopIoService, SessionConnects, SessionGetsError
<1> QED  BY <1>1, <1>2, Zenon DEF Handle

\* Stop finds the connections of an entry.
LEMMA FindStopsStops ==
  ASSUME IInv, StopInv, FindStops PROVE StopInv'
<1> USE DEF FindStops
<1>1. /\ targets' = {c \in Conn : c[1] = connections /\ c[2] < http_connections[c[1]]}
      /\ stopping = 0 /\ stopping' = 0
      /\ stop_pc' \in {"failed", "erase", "stop"}
      /\ stop_pc' = "erase" => targets' = {}
      /\ UNCHANGED http_connections
  BY Zenon DEF StopInv, entry_vars
<1>2. \A c \in targets' : /\ c \in Conn /\ c[1] = connections /\ c[1] \in Entry
                          /\ c[2] \in Index /\ c = <<c[1], c[2]>>
                          /\ c[2] < http_connections[c[1]]
  BY <1>1, ConnPairs, Zenon
<1> HIDE DEF FindStops
<1>3. \A c \in targets' : \A i \in Index : i <= c[2] => \E d \in targets' : d[2] = i
  <2> SUFFICES ASSUME NEW c \in targets', NEW i \in Index, i <= c[2]
               PROVE  \E d \in targets' : d[2] = i
    BY Zenon
  <2> DEFINE d == <<connections, i>>
  <2>1. d \in Conn /\ d[1] = connections /\ d[2] = i  BY <1>2, ConnPairs, Zenon
  <2>2. /\ i \in Nat /\ c[2] \in Nat /\ c[2] < http_connections[connections]
        /\ http_connections[connections] \in 0..max_connections_per_host
        /\ max_connections_per_host \in Nat
    BY <1>2, PoolNumbers, Zenon DEF IInv, EntryInv
  <2>3. i < http_connections[connections]  BY <2>2
  <2> QED  BY <1>1, <2>1, <2>3, Zenon
<1>4. \A c, d \in targets' : c[2] = d[2] => c = d  BY <1>2, Zenon
<1>5. Halted' = {}
  <2>1. \A c \in targets' : ~(c[2] < 0)  BY <1>2, PoolNumbers
  <2> QED  BY <1>1, <2>1, Zenon DEF Halted
<1>6. stop_pc' \notin {"no", "find", "stopped"}  BY <1>1, Zenon
<1> QED  BY <1>1, <1>2, <1>3, <1>4, <1>5, <1>6, Zenon DEF StopInv

\* Stop leaves a connection that it has joined with nothing that waits.
LEMMA StopJoinsStops ==
  ASSUME IInv, StopInv, StopJoins PROVE StopInv'
<1>1. PICK c \in Conn : c \notin running /\ AtStop(c) /\ CancelPendingCallbacks(c)
  BY Zenon DEF StopJoins
<1>2. /\ stop_pc = "join" /\ StopGoesOn
      /\ UNCHANGED <<targets, running, raced, reopened, http_connections>>
  BY Zenon DEF StopJoins, io_vars, race_vars, entry_vars
<1>3. /\ stopping \in Nat /\ \A d \in targets : d \in Conn /\ d[2] \in Nat
      /\ \A d \in targets : d[2] \in Index
  BY ConnPairs, PoolNumbers, Zenon DEF StopInv
<1>4. \A d \in targets : d[2] = stopping => d = c  BY <1>1, Zenon DEF AtStop, StopInv
<1>5. \A d \in targets \ reopened : d[2] < stopping + 1 =>
        d \notin running /\ pending_network_calls'[d] \subseteq raced
  <2> SUFFICES ASSUME NEW d \in targets \ reopened, d[2] < stopping + 1
               PROVE  d \notin running /\ pending_network_calls'[d] \subseteq raced
    BY Zenon
  <2>1. pending_network_calls'[d] \subseteq pending_network_calls[d]
    BY <1>1, <1>3, FewerPending, Zenon
  <2>2. CASE d = c
    <3>1. pending_network_calls'[c] = {}
      BY <1>1, Zenon DEF CancelPendingCallbacks, IInv, Types
    <3> QED  BY <1>1, <2>2, <3>1, Zenon
  <2>3. CASE d[2] < stopping
    <3>1. d \in Halted \ reopened  BY <2>3, Zenon DEF Halted
    <3> QED  BY <2>1, <3>1, Zenon DEF StopInv
  <2>4. d[2] < stopping \/ d[2] = stopping  BY <1>3
  <2> QED  BY <1>4, <2>2, <2>3, <2>4, Zenon
<1>6. CASE stop_pc' = "stop" /\ stopping' = stopping + 1
  <2>1. Halted' = {d \in targets : d[2] < stopping + 1}
    BY <1>2, <1>6, Zenon DEF Halted
  <2>2. stopping' \in Nat  BY <1>3, <1>6
  <2>3. stop_pc' \notin {"no", "find", "erase", "stopped"}  BY <1>6, Zenon
  <2> QED  BY <1>2, <1>5, <2>1, <2>2, <2>3, Zenon DEF StopInv
<1>7. CASE /\ stop_pc' = "erase" /\ UNCHANGED stopping
           /\ \A d \in targets : d[2] # stopping + 1
  <2>1. \A d \in targets : d[2] <= stopping
    <3> SUFFICES ASSUME NEW d \in targets, ~(d[2] <= stopping) PROVE FALSE  BY Zenon
    <3>1. stopping + 1 <= d[2]  BY <1>3
    <3>2. stopping + 1 \in Index
      <4>1. d[2] \in Index /\ d[2] \in Nat  BY <1>3, Zenon
      <4> QED  BY <1>3, <3>1, <4>1, PoolAssumption DEF Index
    <3>3. PICK f \in targets : f[2] = stopping + 1  BY <3>1, <3>2, Zenon DEF StopInv
    <3> QED  BY <1>7, <3>3, Zenon
  <2>2. \A d \in targets : d[2] < stopping + 1  BY <1>3, <2>1
  <2>3. Halted' \subseteq targets  BY <1>2, Zenon DEF Halted
  <2>4. stop_pc' \notin {"no", "find"}  BY <1>7, Zenon
  <2> QED  BY <1>2, <1>5, <1>7, <2>1, <2>2, <2>3, <2>4, Zenon DEF StopInv
<1> QED  BY <1>2, <1>6, <1>7, Zenon DEF StopGoesOn

\* The other steps of Stop leave the connections alone.
LEMMA PoolStops ==
  ASSUME IInv, StopInv, BeginStop \/ Stopping \/ StopFails \/ Dies PROVE StopInv'
<1> USE DEF finish_vars, io_vars, race_vars, entry_vars
<1>1. CASE BeginStop
  <2>1. /\ targets = {} /\ targets' = {} /\ UNCHANGED stopping /\ stopping = 0
        /\ stop_pc' \in {"find", "stopped"}
    BY <1>1, Zenon DEF BeginStop, StopInv
  <2>2. Halted' = {}  BY <2>1, Zenon DEF Halted
  <2> QED  BY <2>1, <2>2, Zenon DEF StopInv
<1>2. CASE FindStops  BY <1>2, FindStopsStops, Zenon
<1>3. CASE StopNext \/ StopErases \/ StopFails
  <2>1. /\ UNCHANGED <<targets, stopping, http_connections, running, reopened,
                       pending_network_calls, raced>>
        /\ \/ stop_pc' \in {"join", "failed"}
           \/ stop_pc = "erase" /\ stop_pc' = "stopped"
    BY <1>3, Zenon DEF StopNext, StopErases, StopFails
  <2>2. Halted' \subseteq Halted  BY <2>1, Zenon DEF Halted
  <2>3. stop_pc' \notin {"no", "find"}  BY <2>1, Zenon
  <2>4. stop_pc' \in {"erase", "stopped"} => stop_pc \in {"erase", "stopped"}
    BY <2>1, Zenon
  <2> QED  BY <2>1, <2>2, <2>3, <2>4, Zenon DEF StopInv
<1>4. CASE StopJoins  BY <1>4, StopJoinsStops, Zenon
<1>5. CASE Dies  BY <1>5, CalmFrame, Zenon DEF Dies
<1> QED  BY <1>1, <1>2, <1>3, <1>4, <1>5, Zenon DEF Stopping

\* When Stop has returned, the connections it found have neither a thread nor a
\* context that waits, with attempts being made, recycling and executing all the
\* while: but for those that were recycled after Stop had told them to stop, and
\* for the contexts that were inserted when the connection was no longer ready.
THEOREM StopAlwaysAnswersAll == Spec => []StopAnswersAll
<1>1. Init => StopInv
  <2> SUFFICES ASSUME Init PROVE StopInv  OBVIOUS
  <2>1. targets = {} /\ stopping = 0 /\ stop_pc = "no"  BY Zenon DEF Init
  <2>2. Halted = {} /\ 0 \in Nat  BY <2>1 DEF Halted
  <2> QED  BY <2>1, <2>2, Zenon DEF StopInv
<1>2. IInv /\ StopInv /\ [Next]_vars => StopInv'
  <2> SUFFICES ASSUME IInv, StopInv, [Next]_vars PROVE StopInv'  BY Zenon
  <2>1. CASE UNCHANGED vars
    BY <2>1, CalmFrame, Zenon DEF vars, io_vars, finish_vars, entry_vars, race_vars
  <2> QED  BY <2>1, ThreadStops, ConnectionStops, PoolStops, Zenon DEF Next
<1>3. Spec => []StopInv  BY <1>1, <1>2, Invariance, PTL DEF Spec
<1>4. StopInv => StopAnswersAll
  <2> SUFFICES ASSUME StopInv, stop_pc = "stopped", NEW c \in targets \ reopened
               PROVE  c \notin running /\ pending_network_calls[c] \subseteq raced
    BY Zenon DEF StopAnswersAll
  <2>1. c \in Halted \ reopened  BY Zenon DEF Halted
  <2> QED  BY <2>1, Zenon DEF StopInv
<1> QED  BY <1>3, <1>4, PTL
=============================================================================
