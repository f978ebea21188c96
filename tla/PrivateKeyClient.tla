-------------------------- MODULE PrivateKeyClient --------------------------
(***************************************************************************)
(* One ListPrivateKeys call of PrivateKeyClientProvider.  The call sends a *)
(* fetch for every key id and endpoint; each fetched key split is sent to  *)
(* the KMS; the callback that finds every fetch returned and every split   *)
(* decrypted puts the splits together and finishes the caller's context.   *)
(* The callbacks share four atomics (total_key_split_count,                *)
(* finished_key_split_count, fetching_call_returned_count, got_failure)    *)
(* and the tables of results; every load or update of an atomic, and every *)
(* section under a mutex, is a step, with two exceptions: a key id is      *)
(* inserted together with the call its callback makes next, and collecting *)
(* the keys is one step if callbacks do not race, for then none is left.   *)
(***************************************************************************)
EXTENDS Integers, Sequences, FiniteSets

CONSTANTS
  EndpointCount,  \* endpoint_count_
  KeyId,          \* numbers: btree_set iterates the key ids in order
  Scenario,       \* the request and what its environment may do, see Scenarios
  NULL

\* split: kMultiPartyHybridEvenKeysplit with endpoint_count_ pieces; odd: the
\* same, but its plaintext has another size; short: with another number of
\* pieces; single: kSinglePartyHybridKey; bad: no key data to decrypt.
Kinds == {"split", "odd", "short", "single", "bad"}

\* later: the callback comes from another thread; now: before Decrypt returns
\* OK; error: the callback comes with a failure before Decrypt returns it too.
KmsOutcomes == {"later", "now", "error"}

Scenarios ==
  [key_ids : Seq(KeyId),            \* of the request; <<>> lists by max age
   keys : SUBSET KeyId,             \* the endpoints have
   kinds : SUBSET Kinds,            \* of these keys
   fetch_may_fail : BOOLEAN,        \* FetchPrivateKey may return an error
   kms : SUBSET KmsOutcomes,        \* how the KMS client answers Decrypt
   concurrent : BOOLEAN,            \* callbacks run on several threads
   logging : BOOLEAN]               \* a global logger is installed

ASSUME CallAssumption ==
  EndpointCount \in Nat \ {0} /\ KeyId \subseteq Nat /\ IsFiniteSet(KeyId)
ASSUME ScenarioAssumption == \A s \in Scenario : s \in Scenarios
ASSUME NullAssumption == /\ NULL \notin KeyId /\ NULL # FALSE
                         /\ NULL \notin [kind : Kinds, ok : BOOLEAN]

VARIABLES
  call,           \* the scenario of this call, which no step changes
  sent,           \* how many fetches ListPrivateKeys has sent
  lpc,            \* ListPrivateKeys: "loop", then its result "ok" or "error"
  fpc,            \* [Call -> state of the fetch and its callback]
  answer,         \* [Call -> response of the fetch, NULL before]
  todo,           \* [Call -> keys its callback still has to send to the KMS]
  current,        \* [Call -> key whose Decrypt its callback is inside of]
  erring,         \* [Call -> that Decrypt will return an error]
  dpc,            \* [Task -> state of OnDecryptCallback]
  prev,           \* [Task -> finished_key_split_count_prev]
  decrypted,      \* [Task -> the KMS decrypted the split]
  fetch_results,  \* [Endpoint -> [KeyId or NULL -> fetch result]]
  decrypt_results,\* [Endpoint -> [KeyId -> decrypt_result_key_id_map]]
  key_id_set,
  total, finished, returned,  \* the three counters
  got_failure,
  finishes,       \* calls of the caller's callback, in order
  crashed,        \* a null encryption_key or a stale iterator was dereferenced
  scan            \* [Task -> where it is in the loop that collects the keys, if
                  \*  callbacks race, and the keys it has put together]

Endpoint == 1..EndpointCount
ByKeyId == call.key_ids # <<>>
CallCount == (IF ByKeyId THEN Len(call.key_ids) ELSE 1) * EndpointCount
Call == 1..CallCount
UriIndex(c) == 1 + ((c - 1) % EndpointCount)
KeyOf(c) == call.key_ids[1 + ((c - 1) \div EndpointCount)]

\* A callback of Decrypt belongs to a fetch and a key; OnFetchPrivateKeyCallback
\* calls it with no key when it has nothing to decrypt.
Task == Call \X (KeyId \cup {NULL})

counter_vars == <<total, finished, returned>>
result_vars == <<fetch_results, decrypt_results, key_id_set>>
fetch_vars == <<fpc, answer, todo, current, erring>>
decrypt_vars == <<dpc, prev, decrypted>>
finish_vars == <<got_failure, finishes, crashed>>
vars == <<call, sent, lpc, counter_vars, result_vars, fetch_vars, decrypt_vars,
          finish_vars, scan>>

\* A place in the loop over key_id_set: the pass over the endpoints, the splits
\* it took (success_decrypt_result), and the keys already in the response.
ScanAt(pass, key, endpoint, pieces, keys) ==
  [pass |-> pass, key |-> key, endpoint |-> endpoint, pieces |-> pieces, keys |-> keys]

Failure == [ok |-> FALSE, keys |-> {}]
Success(K) == [ok |-> TRUE, keys |-> K]

FinishOnFailure_NotSet ==
  finishes' = Append(finishes, Failure) /\ UNCHANGED <<got_failure, crashed>>
\* compare_exchange_strong on got_failure, and Finish if it was false.
FinishOnFailure ==
  /\ got_failure' = TRUE
  /\ finishes' = IF got_failure THEN finishes ELSE Append(finishes, Failure)
  /\ UNCHANGED crashed

\* A thread may start a callback: any time, or when no other callback runs.
MayStart ==
  call.concurrent \/ /\ \A c \in Call : fpc[c] \in {"unsent", "pending", "done"}
                     /\ \A t \in Task : dpc[t] \in {"none", "pending", "done"}

Init ==
  /\ call \in Scenario
  /\ sent = 0 /\ lpc = "loop"
  /\ fpc = [c \in Call |-> "unsent"]
  /\ answer = [c \in Call |-> NULL]
  /\ todo = [c \in Call |-> {}]
  /\ current = [c \in Call |-> NULL]
  /\ erring = [c \in Call |-> FALSE]
  /\ dpc = [t \in Task |-> "none"]
  /\ prev = [t \in Task |-> 0]
  /\ decrypted = [t \in Task |-> FALSE]
  /\ fetch_results = [e \in Endpoint |-> [k \in KeyId \cup {NULL} |-> NULL]]
  /\ decrypt_results = [e \in Endpoint |-> [k \in KeyId |-> NULL]]
  /\ key_id_set = {}
  /\ total = 0 /\ finished = 0 /\ returned = 0
  /\ got_failure = FALSE /\ finishes = <<>> /\ crashed = FALSE
  /\ scan = [t \in Task |-> ScanAt("next", -1, 1, {}, {})]

-----------------------------------------------------------------------------
(* ListPrivateKeys *)

SendFetch ==
  /\ lpc = "loop" /\ sent < CallCount
  /\ sent' = sent + 1
  /\ fpc' = [fpc EXCEPT ![sent + 1] = "pending"]
  /\ UNCHANGED <<lpc, answer, todo, current, erring, decrypt_vars, result_vars,
                 counter_vars, finish_vars>>

FetchRefused ==
  /\ call.fetch_may_fail /\ lpc = "loop" /\ sent < CallCount
  /\ lpc' = "error"
  /\ FinishOnFailure
  /\ UNCHANGED <<sent, fetch_vars, decrypt_vars, result_vars, counter_vars>>

ListReturns ==
  /\ lpc = "loop" /\ sent = CallCount
  /\ lpc' = "ok"
  /\ UNCHANGED <<sent, fetch_vars, decrypt_vars, result_vars, counter_vars,
                 finish_vars>>

-----------------------------------------------------------------------------
(* OnFetchPrivateKeyCallback *)

\* A fetch fails, or returns keys: those asked for, of which some may be missing.
Answers(c) ==
  {[ok |-> FALSE, keys |-> <<>>]} \cup
  {[ok |-> TRUE, keys |-> f] :
     f \in UNION {[S -> call.kinds] :
                    S \in SUBSET (IF ByKeyId THEN {KeyOf(c)} ELSE call.keys)}}

OnFetch(c) ==
  /\ fpc[c] = "pending" /\ MayStart
  /\ \E r \in Answers(c) : answer' = [answer EXCEPT ![c] = r]
  /\ fpc' = [fpc EXCEPT ![c] = IF got_failure THEN "done" ELSE "count"]
  /\ UNCHANGED <<sent, lpc, todo, current, erring, decrypt_vars, result_vars,
                 counter_vars, finish_vars>>

CountFetch(c) ==
  /\ fpc[c] = "count"
  /\ returned' = returned + 1
  /\ fpc' = [fpc EXCEPT ![c] = "record"]
  /\ UNCHANGED <<sent, lpc, answer, todo, current, erring, decrypt_vars,
                 result_vars, total, finished, finish_vars>>

\* By key id the result is stored for the key; by max age one result stands for
\* all keys of the endpoint.
RecordFetch(c) ==
  /\ fpc[c] = "record"
  /\ fetch_results' =
       [fetch_results EXCEPT
          ![UriIndex(c)][IF ByKeyId THEN KeyOf(c) ELSE NULL] = answer[c].ok]
  /\ fpc' = [fpc EXCEPT ![c] = IF ByKeyId THEN "key_id" ELSE "branch"]
  /\ UNCHANGED <<sent, lpc, answer, todo, current, erring, decrypt_vars,
                 decrypt_results, key_id_set, counter_vars, finish_vars>>

RecordKeyId(c) ==
  /\ fpc[c] = "key_id"
  /\ key_id_set' = key_id_set \cup {KeyOf(c)}
  /\ fpc' = [fpc EXCEPT ![c] = "branch"]
  /\ UNCHANGED <<sent, lpc, answer, todo, current, erring, decrypt_vars,
                 fetch_results, decrypt_results, counter_vars, finish_vars>>

EmptyFetch_Return(c) ==
  /\ fpc[c] = "branch" /\ DOMAIN answer[c].keys = {}
  /\ fpc' = [fpc EXCEPT ![c] = "done"]
  /\ UNCHANGED <<sent, lpc, answer, todo, current, erring, decrypt_vars,
                 result_vars, counter_vars, finish_vars>>

\* Nothing to decrypt: OnDecryptCallback is called directly, with no key.
EmptyFetch(c) ==
  /\ fpc[c] = "branch" /\ DOMAIN answer[c].keys = {}
  /\ fpc' = [fpc EXCEPT ![c] = "decrypt"]
  /\ dpc' = [dpc EXCEPT ![<<c, NULL>>] = "check"]
  /\ UNCHANGED <<sent, lpc, answer, todo, current, erring, prev, decrypted,
                 result_vars, counter_vars, finish_vars>>

CountSplits(c) ==
  /\ fpc[c] = "branch" /\ DOMAIN answer[c].keys # {}
  /\ total' = total + Cardinality(DOMAIN answer[c].keys)
  /\ todo' = [todo EXCEPT ![c] = DOMAIN answer[c].keys]
  /\ fpc' = [fpc EXCEPT ![c] = "keys"]
  /\ UNCHANGED <<sent, lpc, answer, current, erring, decrypt_vars, result_vars,
                 finished, returned, finish_vars>>

\* The next key of the response is taken, and its id stored when listing by age.
TakeKey(c, k) ==
  /\ fpc[c] = "keys" /\ k \in todo[c]
  /\ todo' = [todo EXCEPT ![c] = @ \ {k}]
  /\ key_id_set' = key_id_set \cup (IF ByKeyId THEN {} ELSE {k})
  /\ UNCHANGED <<sent, lpc, answer, fetch_results, decrypt_results,
                 counter_vars>>

\* GetKmsDecryptRequest finds nothing to decrypt.
BadKey(c, k) ==
  /\ TakeKey(c, k) /\ answer[c].keys[k] = "bad"
  /\ FinishOnFailure
  /\ fpc' = [fpc EXCEPT ![c] = "done"]
  /\ UNCHANGED <<current, erring, decrypt_vars>>

\* The AWS clients ask for credentials first and answer from another thread.
DecryptLater(c, k) ==
  /\ "later" \in call.kms
  /\ TakeKey(c, k) /\ answer[c].keys[k] # "bad"
  /\ dpc' = [dpc EXCEPT ![<<c, k>>] = "pending"]
  /\ UNCHANGED <<fpc, current, erring, prev, decrypted, finish_vars>>

\* The GCP client decrypts, and runs the callback, before Decrypt returns.  All
\* clients run it with the failure before they return an error.
DecryptNow(c, k, outcome) ==
  /\ outcome \in call.kms \ {"later"}
  /\ TakeKey(c, k) /\ answer[c].keys[k] # "bad"
  /\ fpc' = [fpc EXCEPT ![c] = "decrypt"]
  /\ current' = [current EXCEPT ![c] = k]
  /\ erring' = [erring EXCEPT ![c] = outcome = "error"]
  /\ decrypted' = [decrypted EXCEPT ![<<c, k>>] = outcome = "now"]
  /\ dpc' = [dpc EXCEPT ![<<c, k>>] = "check"]
  /\ UNCHANGED <<prev, finish_vars>>

\* Back from a call of OnDecryptCallback that ran inside this callback.
DecryptReturns(c) ==
  /\ fpc[c] = "decrypt" /\ dpc[<<c, current[c]>>] = "done"
  /\ fpc' = [fpc EXCEPT ![c] = IF current[c] = NULL \/ erring[c]
                               THEN "done" ELSE "keys"]
  /\ IF erring[c] THEN FinishOnFailure ELSE UNCHANGED finish_vars
  /\ UNCHANGED <<sent, lpc, answer, todo, current, erring, decrypt_vars,
                 result_vars, counter_vars>>

FetchCallbackReturns(c) ==
  /\ fpc[c] = "keys" /\ todo[c] = {}
  /\ fpc' = [fpc EXCEPT ![c] = "done"]
  /\ UNCHANGED <<sent, lpc, answer, todo, current, erring, decrypt_vars,
                 result_vars, counter_vars, finish_vars>>

-----------------------------------------------------------------------------
(* OnDecryptCallback *)

\* The callback of a Decrypt that was answered later.
OnDecrypt(t) ==
  /\ dpc[t] = "pending" /\ MayStart
  /\ \E ok \in BOOLEAN : decrypted' = [decrypted EXCEPT ![t] = ok]
  /\ dpc' = [dpc EXCEPT ![t] = "check"]
  /\ UNCHANGED <<sent, lpc, prev, fetch_vars, result_vars, counter_vars,
                 finish_vars>>

CheckFailure(t) ==
  /\ dpc[t] = "check"
  /\ dpc' = [dpc EXCEPT ![t] = IF got_failure THEN "done" ELSE "store"]
  /\ UNCHANGED <<sent, lpc, prev, decrypted, fetch_vars, result_vars,
                 counter_vars, finish_vars>>

\* Without a key there is nothing to store: the counter is only read.  The
\* code subtracts 1 from an unsigned 0 here and in ReadTotal; comparing the
\* two wrapped values is comparing -1 with -1.
PrevWhenEmpty == finished - 1

ReadFinished(t) ==
  /\ dpc[t] = "store" /\ t[2] = NULL
  /\ prev' = [prev EXCEPT ![t] = PrevWhenEmpty]
  /\ dpc' = [dpc EXCEPT ![t] = "returned"]
  /\ UNCHANGED <<sent, lpc, decrypted, fetch_vars, result_vars, counter_vars,
                 finish_vars>>

StoreResult(t) ==
  /\ dpc[t] = "store" /\ t[2] # NULL
  /\ decrypt_results' =
       [decrypt_results EXCEPT
          ![UriIndex(t[1])][t[2]] = [kind |-> answer[t[1]].keys[t[2]],
                                     ok |-> decrypted[t]]]
  /\ dpc' = [dpc EXCEPT ![t] = "add"]
  /\ UNCHANGED <<sent, lpc, prev, decrypted, fetch_vars, fetch_results,
                 key_id_set, counter_vars, finish_vars>>

CountDecrypt(t) ==
  /\ dpc[t] = "add"
  /\ prev' = [prev EXCEPT ![t] = finished]
  /\ finished' = finished + 1
  /\ dpc' = [dpc EXCEPT ![t] = "returned"]
  /\ UNCHANGED <<sent, lpc, decrypted, fetch_vars, result_vars, total, returned,
                 finish_vars>>

ReadReturned(t) ==
  /\ dpc[t] = "returned"
  /\ dpc' = [dpc EXCEPT ![t] = IF returned = CallCount THEN "total" ELSE "done"]
  /\ UNCHANGED <<sent, lpc, prev, decrypted, fetch_vars, result_vars,
                 counter_vars, finish_vars>>

ReadTotal(t) ==
  /\ dpc[t] = "total"
  /\ dpc' = [dpc EXCEPT ![t] = IF prev[t] = total - 1 THEN "collect" ELSE "done"]
  /\ UNCHANGED <<sent, lpc, prev, decrypted, fetch_vars, result_vars,
                 counter_vars, finish_vars>>

Splits(k) == {e \in Endpoint : decrypt_results[e][k] # NULL}

ExtractSinglePartyKey(k) ==
  {e \in Splits(k) : decrypt_results[e][k].kind = "single"}

ExtractAnyFailure_NotFound(k) ==
  \E e \in Endpoint : \/ fetch_results[e][NULL] = FALSE
                      \/ fetch_results[e][k] # TRUE
                      \/ e \in Splits(k) /\ ~decrypt_results[e][k].ok
ExtractAnyFailure(k) ==
  \E e \in Endpoint : \/ fetch_results[e][NULL] = FALSE
                      \/ fetch_results[e][k] = FALSE
                      \/ e \in Splits(k) /\ ~decrypt_results[e][k].ok

Unmatched_Present(k) ==
  \E e \in Splits(k) : decrypt_results[e][k].kind \notin {"split", "odd"}
\* An endpoint has no split of the key, or one with another number of pieces.
Unmatched(k) ==
  \E e \in Endpoint :
    e \notin Splits(k) \/ decrypt_results[e][k].kind \notin {"split", "odd"}

\* ConstructPrivateKey fails: the plaintexts have different sizes, or the
\* single-party key was not decrypted and there is nothing to encode.
Unconstructible(k) ==
  IF ExtractSinglePartyKey(k) # {}
  THEN LET e == CHOOSE d \in ExtractSinglePartyKey(k) :
                  \A x \in ExtractSinglePartyKey(k) : d <= x
       IN  ~decrypt_results[e][k].ok
  ELSE \E d, e \in Splits(k) :
         decrypt_results[d][k].kind # decrypt_results[e][k].kind

\* The key makes ListPrivateKeys fail; is left out of the response; the
\* mismatch is logged, with the key id of the callback's own encryption_key.
LogsMismatch(k) ==
  ExtractSinglePartyKey(k) = {} /\ ~ExtractAnyFailure(k) /\ Unmatched(k)
LeftOut_Always(k) == LogsMismatch(k)
LeftOut(k) == ~ByKeyId /\ LogsMismatch(k)
Fails(k) ==
  /\ ~LeftOut(k)
  /\ \/ ExtractSinglePartyKey(k) = {} /\ (ExtractAnyFailure(k) \/ Unmatched(k))
     \/ Unconstructible(k)

\* The keys looked at, in order, up to the first that fails.
Visited == {k \in key_id_set : \A j \in key_id_set : j < k => ~Fails(j)}

\* By key id the context is finished before the mismatch is logged.
Collect(t) ==
  LET null_key == call.logging /\ t[2] = NULL /\ \E k \in Visited : LogsMismatch(k)
      result == IF \E k \in key_id_set : Fails(k)
                THEN Failure
                ELSE Success({k \in key_id_set : ~LeftOut(k)})
  IN  /\ dpc[t] = "collect" /\ ~call.concurrent
      /\ finishes' = IF null_key /\ ~ByKeyId THEN finishes
                                             ELSE Append(finishes, result)
      /\ crashed' = null_key
      /\ dpc' = [dpc EXCEPT ![t] = "done"]
      /\ UNCHANGED <<sent, lpc, prev, decrypted, fetch_vars, result_vars,
                     counter_vars, got_failure>>

(* The same loop if callbacks race: every look at an endpoint's table is a    *)
(* step, and the tables and the set of keys may grow between two of them.     *)

ScanFinishes(t, result) ==
  /\ finishes' = Append(finishes, result)
  /\ dpc' = [dpc EXCEPT ![t] = "done"]
  /\ UNCHANGED scan

ScanGoesOn(t, to) ==
  scan' = [scan EXCEPT ![t] = to] /\ UNCHANGED <<dpc, finishes, crashed>>

NextEndpoint(t, pass) ==
  LET s == scan[t]
  IN  ScanGoesOn(t, IF s.endpoint < EndpointCount
                    THEN ScanAt(s.pass, s.key, s.endpoint + 1, {}, s.keys)
                    ELSE ScanAt(pass, s.key, 1, {}, s.keys))

\* The plaintexts have the same size, and none is missing.
ConstructPrivateKey(t, pieces) ==
  IF \E kind \in Kinds : pieces = {[kind |-> kind, ok |-> TRUE]}
  THEN ScanGoesOn(t, ScanAt("next", scan[t].key, 1, {}, scan[t].keys \cup {scan[t].key}))
  ELSE ScanFinishes(t, Failure) /\ UNCHANGED crashed

NextKey(t) ==
  LET rest == {k \in key_id_set : scan[t].key < k}
  IN  /\ scan[t].pass = "next"
      /\ IF rest = {}
         THEN ScanFinishes(t, Success(scan[t].keys)) /\ UNCHANGED crashed
         ELSE \E k \in rest :
                /\ \A j \in rest : k <= j
                /\ ScanGoesOn(t, ScanAt("single", k, 1, {}, scan[t].keys))

ReadSingle(t) ==
  LET r == decrypt_results[scan[t].endpoint][scan[t].key]
  IN  /\ scan[t].pass = "single"
      /\ IF r # NULL /\ r.kind = "single"
         THEN ConstructPrivateKey(t, {r})
         ELSE NextEndpoint(t, "failure")

ReadFailure(t) ==
  LET e == scan[t].endpoint
      r == decrypt_results[e][scan[t].key]
  IN  /\ scan[t].pass = "failure"
      /\ IF \/ FALSE \in {fetch_results[e][NULL], fetch_results[e][scan[t].key]}
            \/ r # NULL /\ ~r.ok
         THEN ScanFinishes(t, Failure) /\ UNCHANGED crashed
         ELSE NextEndpoint(t, "splits")

ReadSplit(t) ==
  LET s == scan[t]
      r == decrypt_results[s.endpoint][s.key]
      matches == r # NULL /\ r.kind \in {"split", "odd"}
      null_key == call.logging /\ t[2] = NULL
  IN  /\ s.pass = "splits"
      /\ \/ /\ ~matches /\ ByKeyId
            /\ ScanFinishes(t, Failure)
            /\ crashed' = null_key
         \/ /\ ~matches /\ ~ByKeyId
            /\ scan' = [scan EXCEPT ![t] = ScanAt("next", s.key, 1, {}, s.keys)]
            /\ crashed' = null_key
            /\ UNCHANGED <<dpc, finishes>>
         \/ /\ matches /\ s.endpoint < EndpointCount
            /\ ScanGoesOn(t, ScanAt("splits", s.key, s.endpoint + 1, s.pieces \cup {r},
                                    s.keys))
         \/ /\ matches /\ s.endpoint = EndpointCount
            /\ ConstructPrivateKey(t, s.pieces \cup {r})

CollectRacing(t) ==
  /\ call.concurrent /\ dpc[t] = "collect"
  /\ NextKey(t) \/ ReadSingle(t) \/ ReadFailure(t) \/ ReadSplit(t)
  /\ UNCHANGED <<sent, lpc, prev, decrypted, fetch_vars, result_vars,
                 counter_vars, got_failure>>

\* The loop iterates key_id_set without set_mutex.  It sees the set before or
\* after an insert of another callback, or its iterator points to memory that
\* the insert has moved or freed.
IteratorInvalidated ==
  /\ call.concurrent /\ \E t \in Task : dpc[t] = "collect"
  /\ \E c \in Call :
       \/ fpc[c] = "key_id" /\ KeyOf(c) \notin key_id_set
       \/ fpc[c] = "keys" /\ ~ByKeyId /\ ~(todo[c] \subseteq key_id_set)
  /\ crashed' = TRUE
  /\ UNCHANGED <<sent, lpc, fetch_vars, decrypt_vars, result_vars, counter_vars,
                 got_failure, finishes, scan>>

-----------------------------------------------------------------------------

FetchCallback(c) ==
  \/ OnFetch(c) \/ CountFetch(c) \/ RecordFetch(c) \/ RecordKeyId(c)
  \/ EmptyFetch(c) \/ CountSplits(c)
  \/ \E k \in KeyId : BadKey(c, k) \/ DecryptLater(c, k)
  \/ \E k \in KeyId : \E o \in call.kms : DecryptNow(c, k, o)
  \/ DecryptReturns(c) \/ FetchCallbackReturns(c)

DecryptCallback(t) ==
  \/ OnDecrypt(t) \/ CheckFailure(t) \/ ReadFinished(t) \/ StoreResult(t)
  \/ CountDecrypt(t) \/ ReadReturned(t) \/ ReadTotal(t) \/ Collect(t)

CallStep ==
  \/ SendFetch \/ FetchRefused \/ ListReturns
  \/ \E c \in Call : FetchCallback(c)
  \/ \E t \in Task : DecryptCallback(t)

Step ==
  /\ ~crashed /\ UNCHANGED call
  /\ \/ CallStep /\ UNCHANGED scan
     \/ \E t \in Task : CollectRacing(t)
     \/ IteratorInvalidated

\* Every callback that will come has come, or the process is gone.
AllDone ==
  /\ lpc # "loop"
  /\ \A c \in Call : fpc[c] \in {"unsent", "done"}
  /\ \A t \in Task : dpc[t] \in {"none", "done"}

Terminated == (AllDone \/ crashed) /\ UNCHANGED vars

Next == Step \/ Terminated

Spec == Init /\ [][Next]_vars

\* Threads do not stop between two statements, and the fetcher and the KMS
\* client call every callback they were given.
FairSpec == Spec /\ WF_vars(Step)

-----------------------------------------------------------------------------
(* Properties *)

\* The counters, results and threads have the types the code declares.
TypeOK ==
  /\ call \in Scenario
  /\ sent \in 0..CallCount /\ lpc \in {"loop", "ok", "error"}
  /\ fpc \in [Call -> {"unsent", "pending", "count", "record", "key_id", "branch",
                       "keys", "decrypt", "done"}]
  /\ \A c \in Call : answer[c] = NULL \/ answer[c] \in Answers(c)
  /\ todo \in [Call -> SUBSET KeyId]
  /\ current \in [Call -> KeyId \cup {NULL}]
  /\ erring \in [Call -> BOOLEAN]
  /\ dpc \in [Task -> {"none", "pending", "check", "store", "add", "returned",
                       "total", "collect", "done"}]
  /\ prev \in [Task -> Int] /\ decrypted \in [Task -> BOOLEAN]
  /\ \A e \in Endpoint : \A k \in KeyId :
       /\ fetch_results[e][k] \in BOOLEAN \cup {NULL}
       /\ \/ decrypt_results[e][k] = NULL
          \/ decrypt_results[e][k] \in [kind : call.kinds, ok : BOOLEAN]
  /\ key_id_set \subseteq KeyId
  /\ total \in Nat /\ finished \in Nat /\ returned \in 0..CallCount
  /\ got_failure \in BOOLEAN /\ crashed \in BOOLEAN
  /\ \A i \in DOMAIN finishes : finishes[i] \in [ok : BOOLEAN, keys : SUBSET KeyId]
  /\ scan \in [Task -> [pass : {"next", "single", "failure", "splits"},
                        key : KeyId \cup {-1}, endpoint : Endpoint,
                        pieces : SUBSET [kind : Kinds, ok : BOOLEAN],
                        keys : SUBSET KeyId]]

\* The caller's callback runs at most once: the check of got_failure, and the
\* comparison of the counters that only the last callback should pass.  It may
\* run twice if callbacks race or Decrypt both calls back and returns an error.
FinishedOnce ==
  ~call.concurrent /\ "error" \notin call.kms => Len(finishes) <= 1

\* The fetch called back.
Returned(c) == fpc[c] \notin {"unsent", "pending"}

\* A key can be put together from what the endpoints answered: one of them has
\* it as a single-party key, or all of them have a split.
Usable(k) ==
  \/ \E c \in Call : /\ Returned(c) /\ k \in DOMAIN answer[c].keys
                     /\ answer[c].keys[k] = "single"
  \/ \A e \in Endpoint : \E c \in Call :
       /\ UriIndex(c) = e /\ Returned(c) /\ k \in DOMAIN answer[c].keys
       /\ answer[c].keys[k] \in {"split", "odd"}

\* A successful response holds exactly the keys that can be put together from
\* the answers of all endpoints, whatever the order the callbacks came in; by
\* key id these are all the keys that were asked for.  Callbacks that race can
\* collect the keys before the last splits are counted.
SuccessComplete ==
  \A i \in DOMAIN finishes : ~call.concurrent /\ finishes[i].ok =>
    /\ \A c \in Call : Returned(c)
    /\ finishes[i].keys = {k \in KeyId : Usable(k)}
    /\ \A c \in Call : ByKeyId => KeyOf(c) \in finishes[i].keys

\* ListPrivateKeys never fails without a cause: a fetch that was refused or
\* failed, a split that could not be sent or decrypted, or splits that do not
\* fit together.  With callbacks that race, see SuccessComplete.
FailureJustified ==
  \A i \in DOMAIN finishes : ~call.concurrent /\ ~finishes[i].ok =>
    \/ lpc = "error"
    \/ \E c \in Call : Returned(c) /\
         \/ ~answer[c].ok
         \/ ByKeyId /\ DOMAIN answer[c].keys = {}
         \/ \E k \in DOMAIN answer[c].keys :
              \/ answer[c].keys[k] \in {"bad", "odd", "short"}
              \/ /\ dpc[<<c, k>>] \notin {"none", "pending"}
                 /\ ~decrypted[<<c, k>>]

\* A key in a successful response was put together from the splits of all
\* endpoints, even if callbacks race and the response misses other keys.
SuccessSound ==
  \A i \in DOMAIN finishes : \A k \in finishes[i].keys : Usable(k)

\* The caller's callback is called, whatever fetch or Decrypt fails, unless the
\* process dies: a logger is asked for the id of the key of a callback that has
\* none, or callbacks race on key_id_set.
ListAnswered ==
  <>(\/ finishes # <<>>
     \/ crashed /\ (call.logging \/ call.concurrent))
=============================================================================
