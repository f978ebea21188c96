----------------------------- MODULE KeysProofs -----------------------------
(***************************************************************************)
(* Proofs about PrivateKeyClient for any number of endpoints, key ids and  *)
(* callbacks.  Even if callbacks race, a response never holds a key that   *)
(* the answers of the endpoints do not add up to (ResponsesSound).  If     *)
(* they do not race, the caller is called back once, a response holds all  *)
(* the keys the answers add up to, and a failure has a cause               *)
(* (FinishesOnce, ResponsesComplete, FailuresJustified).                   *)
(***************************************************************************)
EXTENDS PrivateKeyClient, FiniteSetTheorems, WellFoundedInduction, TLAPS

\* Call c came back with key k.
Has(c, k) == Returned(c) /\ k \in DOMAIN answer[c].keys

Types ==
  /\ call \in Scenario /\ sent \in Nat
  /\ fpc \in [Call -> {"unsent", "pending", "count", "record", "key_id", "branch",
                       "keys", "decrypt", "done"}]
  /\ DOMAIN answer = Call /\ DOMAIN todo = Call
  /\ dpc \in [Task -> {"none", "pending", "check", "store", "add", "returned",
                       "total", "collect", "done"}]
  /\ DOMAIN decrypt_results = Endpoint
  /\ \A e \in Endpoint : DOMAIN decrypt_results[e] = KeyId
  /\ finishes \in Seq([ok : BOOLEAN, keys : SUBSET KeyId])
  /\ key_id_set \subseteq KeyId

\* Fetches are sent in order, and record a key id if they are for one.
Sent == \A c \in Call : /\ c > sent => fpc[c] = "unsent"
                        /\ fpc[c] = "key_id" => call.key_ids # <<>>

\* The keys that callbacks handle came with an answer ...
Held ==
  /\ \A c \in Call : \A k \in todo[c] : k \in KeyId => Has(c, k)
  /\ \A c \in Call, k \in KeyId : dpc[<<c, k>>] # "none" => Has(c, k)

\* ... and so did every result they stored.
Stored ==
  \A e \in Endpoint, k \in KeyId : decrypt_results[e][k] # NULL =>
    \E c \in Call : /\ UriIndex(c) = e /\ Has(c, k)
                    /\ answer[c].keys[k] = decrypt_results[e][k].kind

IInv == Types /\ Sent /\ Held /\ Stored /\ SuccessSound

\* Any step but those of collecting the keys while callbacks race.
OneStep == UNCHANGED call /\ CallStep

\* Endpoint e answered with a split of key k.
SplitOf(e, k) ==
  \E c \in Call : /\ UriIndex(c) = e /\ Returned(c) /\ k \in DOMAIN answer[c].keys
                  /\ answer[c].keys[k] \in {"split", "odd"}

\* Collecting while callbacks race: the keys put together so far are usable, and
\* so will be the next one if the endpoints that are left have a split of it.
ScanOk(r) ==
  /\ r.keys \in SUBSET KeyId /\ \A k \in r.keys : Usable(k)
  /\ r.pass \in {"next", "single", "failure", "splits"}
  /\ r.pass # "next" => r.key \in KeyId
  /\ r.endpoint \in Endpoint
  /\ r.pass = "splits" => \A e \in 1..(r.endpoint - 1) : SplitOf(e, r.key)
Scans == DOMAIN scan = Task /\ \A t \in Task : ScanOk(scan[t])

\* Callbacks of fetches before they have counted their splits, and callbacks of
\* Decrypt after they have stored their result or found a failure.
Fresh == {"unsent", "pending", "count", "record", "key_id", "branch"}
Past == {"add", "returned", "total", "collect", "done"}

\* A split that is counted in total and not yet in finished.
Open(t) == /\ t[2] # NULL
           /\ t[2] \in todo[t[1]] \/ dpc[t] \in {"pending", "check", "store", "add"}
Outstanding == {t \in Task : Open(t)}
Deficit == finished + Cardinality(Outstanding) < total

\* The result of the split is stored.
Known(t) == decrypt_results[UriIndex(t[1])][t[2]] # NULL

\* The callback of the fetch was counted in returned, and every key of its answer
\* is in hand or has been sent to the KMS.
Handled(c) ==
  \/ fpc[c] \in {"record", "key_id", "branch"}
  \/ /\ fpc[c] \in {"keys", "decrypt", "done"}
     /\ DOMAIN answer[c].keys = {} => dpc[<<c, NULL>>] # "none"
     /\ \A k \in DOMAIN answer[c].keys : k \in todo[c] \/ dpc[<<c, k>>] # "none"
HandledCalls == {c \in Call : Handled(c)}

MoreTypes ==
  /\ todo \in [Call -> SUBSET KeyId] /\ current \in [Call -> KeyId \cup {NULL}]
  /\ erring \in [Call -> BOOLEAN] /\ prev \in [Task -> Int]
  /\ decrypted \in [Task -> BOOLEAN]
  /\ total \in Nat /\ finished \in Nat /\ returned \in Nat
  /\ got_failure \in BOOLEAN /\ crashed \in BOOLEAN

\* A key is sent to the KMS once, after its fetch has counted it; only a key is.
KeyInv ==
  /\ \A c \in Call : Returned(c) => answer[c] \in Answers(c)
  /\ \A c \in Call : fpc[c] \in Fresh =>
       /\ todo[c] = {} /\ current[c] = NULL
       /\ \A k \in KeyId \cup {NULL} : dpc[<<c, k>>] = "none"
  /\ \A c \in Call : \A k \in todo[c] : dpc[<<c, k>>] = "none"
  /\ \A c \in Call : dpc[<<c, NULL>>] \notin {"pending", "add"}
  /\ \A c \in Call : erring[c] => /\ "error" \in call.kms /\ current[c] # NULL
                                  /\ ~decrypted[<<c, current[c]>>]
                                  /\ dpc[<<c, current[c]>>] \notin {"none", "pending"}
  /\ lpc = "error" => sent < CallCount

\* total never falls behind.  Unless a split was given up, which total then never
\* gets over, returned counts fetches that were handled, and what finished counts
\* was stored.
CountInv ==
  /\ finished + Cardinality(Outstanding) <= total
  /\ \/ Deficit
     \/ /\ returned <= Cardinality(HandledCalls)
        /\ \A t \in Task : t[2] # NULL /\ dpc[t] \in Past => Known(t)

\* Callbacks that do not race: one runs at a time, or one inside another.  What it
\* has read is still true when it acts on it.
SeqInv ==
  /\ \A c, d \in Call : fpc[c] \notin {"unsent", "pending", "done"}
       /\ fpc[d] \notin {"unsent", "pending", "done"} => c = d
  /\ \A t, u \in Task : dpc[t] \notin {"none", "pending", "done"}
       /\ dpc[u] \notin {"none", "pending", "done"} => t = u
  /\ \A c \in Call, t \in Task : fpc[c] \notin {"unsent", "pending", "done"}
       /\ dpc[t] \notin {"none", "pending", "done"} =>
         fpc[c] = "decrypt" /\ t = <<c, current[c]>>
  /\ \A t \in Task :
       /\ dpc[t] \in {"returned", "total"} => prev[t] = finished - 1
       /\ dpc[t] \in {"total", "collect"} => returned = CallCount
       /\ dpc[t] = "collect" => finished = total

\* A fetch is recorded as failed when one was answered so.
FetchRecords ==
  /\ DOMAIN fetch_results = Endpoint
  /\ \A e \in Endpoint : DOMAIN fetch_results[e] = KeyId \cup {NULL}
  /\ \A e \in Endpoint : \A k \in KeyId \cup {NULL} :
       fetch_results[e][k] = FALSE => \E c \in Call : Returned(c) /\ ~answer[c].ok

\* A stored result is that of a split whose callback has stored it.
SplitRecords ==
  \A e \in Endpoint, k \in KeyId : decrypt_results[e][k] # NULL =>
    \E c \in Call :
      /\ UriIndex(c) = e /\ Has(c, k) /\ dpc[<<c, k>>] \in Past
      /\ answer[c].keys[k] = decrypt_results[e][k].kind
      /\ decrypted[<<c, k>>] = decrypt_results[e][k].ok

\* The ids of what was answered are recorded, and by key id no others.
IdRecords ==
  /\ \A c \in Call, k \in KeyId \cup {NULL} :
       dpc[<<c, k>>] # "none" \/ fpc[c] \in {"branch", "keys", "decrypt"} =>
         /\ ByKeyId => KeyOf(c) \in key_id_set
         /\ ~ByKeyId /\ k # NULL /\ dpc[<<c, k>>] # "none" => k \in key_id_set
  /\ ByKeyId => \A k \in key_id_set : \E c \in Call : KeyOf(c) = k

RecordInv == FetchRecords /\ SplitRecords /\ IdRecords

\* The keys are collected when no other callback is left, and not after a failure.
Over == /\ Outstanding = {} /\ \A c \in Call : fpc[c] \in {"keys", "decrypt", "done"}
        /\ \A t \in Task : dpc[t] \in {"none", "done"}
OnceInv ==
  "error" \notin call.kms =>
    /\ Len(finishes) <= 1
    /\ got_failure => lpc = "error" \/ Deficit
    /\ got_failure \/ finishes = <<>> \/ Over

\* No step takes an answer back.
Kept == \A c \in Call : Returned(c) => Returned(c)' /\ answer'[c] = answer[c]

-----------------------------------------------------------------------------
(* Lemmas *)

\* The calls of a request and their callbacks do not change.
LEMMA SameCalls ==
  ASSUME call' = call
  PROVE  /\ Call' = Call /\ Task' = Task /\ Endpoint' = Endpoint
         /\ \A c : UriIndex(c)' = UriIndex(c)
<1>1. Call' = Call  BY Zenon DEF Call, CallCount, ByKeyId
<1> QED  BY <1>1, Zenon DEF Task, Endpoint, UriIndex

\* Calls are numbered from 1.
LEMMA CallNumbers ==
  ASSUME Types PROVE CallCount \in Nat /\ \A c \in Call : c \in Nat
<1>1. Len(call.key_ids) \in Nat
  BY ScenarioAssumption DEF Types, Scenarios
<1>2. EndpointCount \in Nat  BY CallAssumption, Zenon
<1>3. CallCount \in Nat  BY <1>1, <1>2 DEF CallCount
<1> QED  BY <1>3 DEF Call

\* Dividing a number below L * E by E gives a number below L.
LEMMA Quotients ==
  ASSUME NEW E \in Nat \ {0}, NEW L \in Nat, NEW n \in Nat, n < L * E
  PROVE  n \div E \in 0..(L - 1)
<1> DEFINE q == n \div E
<1>1. q \in Nat /\ E * q <= n  OBVIOUS
<1> HIDE DEF q
<1>2. ASSUME q >= L PROVE FALSE
  <2>1. E * L <= E * q  BY <1>1, <1>2
  <2>2. E * L = L * E  OBVIOUS
  <2> QED  BY <1>1, <2>1, <2>2
<1>3. q \in 0..(L - 1)  BY <1>1, <1>2
<1> QED  BY <1>3, Zenon DEF q

\* A call by key id is for one of the key ids of the request.
LEMMA KeyIds ==
  ASSUME Types, ByKeyId, NEW c \in Call PROVE KeyOf(c) \in KeyId
<1>1. call.key_ids \in Seq(KeyId)  BY ScenarioAssumption, Zenon DEF Types, Scenarios
<1> DEFINE L == Len(call.key_ids)
<1>2. L \in Nat /\ c \in 1..(L * EndpointCount)
  BY <1>1 DEF Call, CallCount
<1>3. EndpointCount \in Nat \ {0}  BY CallAssumption, Zenon
<1> HIDE DEF L
<1>4. c - 1 \in Nat /\ c - 1 < L * EndpointCount  BY <1>2, <1>3
<1>5. (c - 1) \div EndpointCount \in 0..(L - 1)  BY <1>2, <1>3, <1>4, Quotients, Zenon
<1>6. 1 + ((c - 1) \div EndpointCount) \in 1..L  BY <1>2, <1>5
<1> QED  BY <1>1, <1>6 DEF KeyOf, L

\* A call is for one of the endpoints.
LEMMA Uris ==
  ASSUME Types, NEW c \in Call PROVE UriIndex(c) \in Endpoint
<1>1. c - 1 \in Nat /\ EndpointCount \in Nat \ {0}
  BY CallNumbers, CallAssumption DEF Call
<1>2. (c - 1) % EndpointCount \in 0..(EndpointCount - 1)  BY <1>1
<1> QED  BY <1>1, <1>2 DEF UriIndex, Endpoint

\* A callback of Decrypt belongs to a call and a key.
LEMMA Tasks ==
  /\ \A c \in Call : <<c, NULL>> \in Task /\ \A k \in KeyId : <<c, k>> \in Task
  /\ \A t \in Task : /\ t = <<t[1], t[2]>> /\ t[1] \in Call
                     /\ t[2] # NULL => t[2] \in KeyId
  /\ \A c \in Call, k \in KeyId : k # NULL
BY NullAssumption DEF Task

\* Every call and key, or none, has one.
LEMMA TaskOf ==
  \A c \in Call, k \in KeyId \cup {NULL} :
    \E t \in Task : t = <<c, k>> /\ t[1] = c /\ t[2] = k
<1> TAKE c \in Call, k \in KeyId \cup {NULL}
<1>1. <<c, k>> \in Task  BY Zenon DEF Task
<1> WITNESS <<c, k>> \in Task
<1> QED  BY Zenon

\* Answers that stay keep the results sound.
LEMMA KeptStored ==
  ASSUME IInv, call' = call, Kept, UNCHANGED decrypt_results
  PROVE  Stored'
<1> SUFFICES ASSUME NEW e \in Endpoint, NEW k \in KeyId, decrypt_results[e][k] # NULL
             PROVE  \E c \in Call : /\ UriIndex(c)' = e /\ Has(c, k)'
                                    /\ answer'[c].keys[k] = decrypt_results[e][k].kind
  BY SameCalls, Zenon DEF Stored
<1>1. PICK c \in Call : /\ UriIndex(c) = e /\ Has(c, k)
                        /\ answer[c].keys[k] = decrypt_results[e][k].kind
  BY Zenon DEF IInv, Stored
<1>2. Has(c, k)' /\ answer'[c] = answer[c]  BY <1>1, Zenon DEF Kept, Has
<1> QED  BY <1>1, <1>2, SameCalls, Zenon

\* A key that can be put together stays so.
LEMMA KeptUsable ==
  ASSUME call' = call, Kept, NEW k, Usable(k) PROVE Usable(k)'
<1>1. CASE \E c \in Call : /\ Returned(c) /\ k \in DOMAIN answer[c].keys
                           /\ answer[c].keys[k] = "single"
  BY <1>1, SameCalls, Zenon DEF Kept, Usable
<1>2. CASE \A e \in Endpoint : \E c \in Call :
             /\ UriIndex(c) = e /\ Returned(c) /\ k \in DOMAIN answer[c].keys
             /\ answer[c].keys[k] \in {"split", "odd"}
  <2>1. ASSUME NEW e \in Endpoint
        PROVE  \E c \in Call :
                 /\ UriIndex(c)' = e /\ Returned(c)' /\ k \in DOMAIN answer'[c].keys
                 /\ answer'[c].keys[k] \in {"split", "odd"}
    <3>1. PICK c \in Call :
             /\ UriIndex(c) = e /\ Returned(c) /\ k \in DOMAIN answer[c].keys
             /\ answer[c].keys[k] \in {"split", "odd"}
      BY <1>2, Zenon
    <3> QED  BY <3>1, SameCalls, Zenon DEF Kept
  <2> QED  BY <2>1, SameCalls, Zenon DEF Usable
<1> QED  BY <1>1, <1>2, Zenon DEF Usable

\* Finishing with a failure adds no key.
LEMMA KeptSound ==
  ASSUME IInv, call' = call, Kept,
         finishes' = finishes \/ finishes' = Append(finishes, Failure)
  PROVE  SuccessSound' /\ finishes' \in Seq([ok : BOOLEAN, keys : SUBSET KeyId])
<1>1. finishes \in Seq([ok : BOOLEAN, keys : SUBSET KeyId])  BY Zenon DEF IInv, Types
<1>2. Failure \in [ok : BOOLEAN, keys : SUBSET KeyId] /\ Failure.keys = {}
  BY Zenon DEF Failure
<1>3. ASSUME NEW i \in DOMAIN finishes', NEW k \in finishes'[i].keys
      PROVE  i \in DOMAIN finishes /\ k \in finishes[i].keys
  <2>1. CASE finishes' = finishes  BY <1>3, <2>1, Zenon
  <2>2. CASE finishes' = Append(finishes, Failure)
    BY <1>1, <1>2, <1>3, <2>2
  <2> QED  BY <2>1, <2>2, Zenon
<1>4. ASSUME NEW i \in DOMAIN finishes', NEW k \in finishes'[i].keys
      PROVE  Usable(k)'
  BY <1>3, <1>4, KeptUsable, Zenon DEF IInv, SuccessSound
<1>5. finishes' \in Seq([ok : BOOLEAN, keys : SUBSET KeyId])
  <2> DEFINE R == [ok : BOOLEAN, keys : SUBSET KeyId]
  <2>1. finishes \in Seq(R) /\ Failure \in R  BY <1>1, <1>2, Zenon
  <2> HIDE DEF R
  <2>2. finishes' \in Seq(R)  BY <2>1
  <2> QED  BY <2>2, Zenon DEF R
<1> QED  BY <1>4, <1>5, Zenon DEF SuccessSound

\* Finishing with usable keys keeps the responses sound.
LEMMA FinishSound ==
  ASSUME IInv, call' = call, Kept, NEW K \in SUBSET KeyId, \A k \in K : Usable(k),
         finishes' = Append(finishes, Success(K))
  PROVE  SuccessSound' /\ finishes' \in Seq([ok : BOOLEAN, keys : SUBSET KeyId])
<1> DEFINE R == [ok : BOOLEAN, keys : SUBSET KeyId]
<1>1. Success(K) \in R /\ Success(K).keys = K  BY Zenon DEF Success
<1>2. finishes \in Seq(R)  BY Zenon DEF IInv, Types
<1>3. ASSUME NEW i \in DOMAIN finishes', NEW k \in finishes'[i].keys
      PROVE  Usable(k)'
  <2> HIDE DEF R
  <2>1. CASE i \in DOMAIN finishes
    <3>1. finishes'[i] = finishes[i]  BY <1>1, <1>2, <1>3, <2>1
    <3> QED  BY <1>3, <2>1, <3>1, KeptUsable, Zenon DEF IInv, SuccessSound
  <2>2. CASE i \notin DOMAIN finishes
    <3>1. finishes'[i] = Success(K)  BY <1>1, <1>2, <1>3, <2>2
    <3> QED  BY <1>1, <1>3, <3>1, KeptUsable, Zenon
  <2> QED  BY <2>1, <2>2, Zenon
<1>4. finishes' \in Seq(R)
  <2> HIDE DEF R
  <2> QED  BY <1>1, <1>2
<1> QED  BY <1>3, <1>4, Zenon DEF SuccessSound

\* Before the first fetch nothing has come back.
LEMMA InitIInv == Init => IInv
<1> SUFFICES ASSUME Init PROVE IInv  BY Zenon
<1> USE DEF Init
<1>1. Types  BY DEF Types
<1>2. Sent /\ Held  BY Tasks, Zenon DEF Sent, Held
<1>3. Stored  BY Zenon DEF Stored
<1>4. SuccessSound  BY DEF SuccessSound
<1> QED  BY <1>1, <1>2, <1>3, <1>4, Zenon DEF IInv

-----------------------------------------------------------------------------
(* Responses are sound *)

\* What a callback of a fetch does to answers, to the keys in hand and to those that
\* were sent to the KMS.
LEMMA FetchCallbackKeeps ==
  ASSUME IInv, call' = call, NEW c \in Call, FetchCallback(c)
  PROVE  IInv' /\ Kept
<1> DEFINE Moves ==
      /\ fpc' \in [Call -> {"unsent", "pending", "count", "record", "key_id", "branch",
                            "keys", "decrypt", "done"}]
      /\ \A d \in Call : d # c => fpc'[d] = fpc[d]
      /\ fpc[c] # "unsent" /\ fpc'[c] \notin {"unsent", "pending"}
      /\ fpc'[c] = "key_id" => ByKeyId
      /\ DOMAIN answer' = Call
      /\ \A d \in Call : d # c \/ fpc[c] # "pending" => answer'[d] = answer[d]
    Hands ==
      /\ DOMAIN todo' = Call
      /\ \A d \in Call : d # c => todo'[d] = todo[d]
      /\ \/ todo'[c] \subseteq todo[c]
         \/ fpc[c] = "branch" /\ todo'[c] = DOMAIN answer[c].keys
      /\ dpc' \in [Task -> {"none", "pending", "check", "store", "add", "returned",
                            "total", "collect", "done"}]
      /\ \A d \in Call, k \in KeyId : dpc'[<<d, k>>] # "none" =>
           dpc[<<d, k>>] # "none" \/ (d = c /\ k \in todo[c])
    Rest ==
      /\ UNCHANGED <<sent, decrypt_results>> /\ key_id_set' \subseteq KeyId
      /\ finishes' = finishes \/ finishes' = Append(finishes, Failure)
<1>0. Types  BY Zenon DEF IInv
<1>1. ASSUME OnFetch(c) PROVE Moves /\ Hands /\ Rest
  BY <1>0, <1>1, Zenon DEF OnFetch, Types, decrypt_vars, result_vars, finish_vars
<1>2. ASSUME CountFetch(c) PROVE Moves /\ Hands /\ Rest
  BY <1>0, <1>2, Zenon DEF CountFetch, Types, decrypt_vars, result_vars, finish_vars
<1>3. ASSUME RecordFetch(c) PROVE Moves /\ Hands /\ Rest
  BY <1>0, <1>3, Zenon DEF RecordFetch, Types, decrypt_vars, finish_vars
<1>4. ASSUME RecordKeyId(c) PROVE Moves /\ Hands /\ Rest
  <2>1. KeyOf(c) \in KeyId
    BY <1>0, <1>4, KeyIds, Zenon DEF RecordKeyId, IInv, Sent, ByKeyId
  <2> QED  BY <1>0, <1>4, <2>1, Zenon DEF RecordKeyId, Types, decrypt_vars, finish_vars
<1>5. ASSUME EmptyFetch(c) PROVE Moves /\ Hands /\ Rest
  BY <1>0, <1>5, Tasks, Zenon DEF EmptyFetch, Types, result_vars, finish_vars
<1>6. ASSUME CountSplits(c) PROVE Moves /\ Hands /\ Rest
  BY <1>0, <1>6, Zenon DEF CountSplits, Types, decrypt_vars, result_vars, finish_vars
<1>7. ASSUME NEW k \in KeyId, BadKey(c, k) PROVE Moves /\ Hands /\ Rest
  BY <1>0, <1>7, Zenon DEF BadKey, TakeKey, FinishOnFailure, Types, decrypt_vars
<1>8. ASSUME NEW k \in KeyId, DecryptLater(c, k) PROVE Moves /\ Hands /\ Rest
  BY <1>0, <1>8, Tasks, Zenon DEF DecryptLater, TakeKey, Types, finish_vars
<1>9. ASSUME NEW k \in KeyId, NEW o, DecryptNow(c, k, o) PROVE Moves /\ Hands /\ Rest
  BY <1>0, <1>9, Tasks, Zenon DEF DecryptNow, TakeKey, Types, finish_vars
<1>10. ASSUME DecryptReturns(c) PROVE Moves /\ Hands /\ Rest
  BY <1>0, <1>10, Zenon
     DEF DecryptReturns, FinishOnFailure, Types, decrypt_vars, result_vars,
       finish_vars
<1>11. ASSUME FetchCallbackReturns(c) PROVE Moves /\ Hands /\ Rest
  <2>1. /\ fpc[c] = "keys" /\ fpc' = [fpc EXCEPT ![c] = "done"]
        /\ UNCHANGED <<sent, answer, todo, dpc, decrypt_results, key_id_set, finishes>>
    BY <1>11, Zenon DEF FetchCallbackReturns, decrypt_vars, result_vars, finish_vars
  <2> QED  BY <1>0, <2>1, Zenon DEF Types
<1> HIDE DEF Moves, Hands, Rest
<1>12. Moves /\ Hands /\ Rest
  BY <1>1, <1>2, <1>3, <1>4, <1>5, <1>6, <1>7, <1>8, <1>9, <1>10, <1>11, Zenon
     DEF FetchCallback
<1>13. Kept  BY <1>12, Zenon DEF Moves, Kept, Returned
<1>14. Types'
  BY <1>0, <1>12, <1>13, SameCalls, KeptSound, Zenon DEF Moves, Hands, Rest, Types
<1>15. Sent'
  BY <1>12, CallNumbers, SameCalls, Zenon DEF IInv, Sent, Moves, Rest, ByKeyId
<1>16. Held'
  <2>1. ASSUME NEW d \in Call, NEW k \in KeyId, Has(d, k) PROVE Has(d, k)'
    BY <1>13, <2>1, Zenon DEF Has, Kept
  <2>2. Held /\ \A k \in todo'[c] : k \in KeyId => Has(c, k)
    BY <1>12, Zenon DEF IInv, Held, Hands, Has, Returned
  <2>3. ASSUME NEW d \in Call, NEW k \in KeyId, k \in todo'[d] PROVE Has(d, k)'
    <3>1. d = c \/ k \in todo[d]  BY <1>12, <2>3, Zenon DEF Hands
    <3> QED  BY <2>1, <2>2, <2>3, <3>1, Zenon DEF Held
  <2>4. ASSUME NEW d \in Call, NEW k \in KeyId, dpc'[<<d, k>>] # "none"
        PROVE  Has(d, k)'
    BY <1>12, <2>1, <2>2, <2>4, Zenon DEF Held, Hands
  <2> QED  BY <2>3, <2>4, SameCalls, Zenon DEF Held
<1> QED
  BY <1>12, <1>13, <1>14, <1>15, <1>16, KeptStored, KeptSound, Zenon DEF IInv, Rest
\* A key that neither fails nor is left out has a single-party key among its
\* splits, or one split of every endpoint.
LEMMA CollectedUsable ==
  ASSUME IInv, NEW k \in KeyId, ~LeftOut(k), ~Fails(k)
  PROVE  Usable(k)
<1>1. ExtractSinglePartyKey(k) # {} \/ ~Unmatched(k)  BY Zenon DEF Fails
<1>2. CASE ExtractSinglePartyKey(k) # {}
  <2>1. PICK e \in Endpoint : /\ decrypt_results[e][k] # NULL
                              /\ decrypt_results[e][k].kind = "single"
    BY <1>2, Zenon DEF ExtractSinglePartyKey, Splits
  <2>2. PICK c \in Call : Has(c, k) /\ answer[c].keys[k] = "single"
    BY <2>1, Zenon DEF IInv, Stored
  <2> QED  BY <2>2, Zenon DEF Usable, Has
<1>3. CASE ~Unmatched(k)
  <2>1. ASSUME NEW e \in Endpoint
        PROVE  \E c \in Call :
                 /\ UriIndex(c) = e /\ Returned(c) /\ k \in DOMAIN answer[c].keys
                 /\ answer[c].keys[k] \in {"split", "odd"}
    <3>1. /\ decrypt_results[e][k] # NULL
          /\ decrypt_results[e][k].kind \in {"split", "odd"}
      BY <1>3, Zenon DEF Unmatched, Splits
    <3> QED  BY <3>1, Zenon DEF IInv, Stored, Has
  <2> QED  BY <2>1, Zenon DEF Usable
<1> QED  BY <1>1, <1>2, <1>3, Zenon

\* A callback of Decrypt stores a result with the kind of the key it came from, and
\* the response holds the keys that were collected.
LEMMA DecryptCallbackKeeps ==
  ASSUME IInv, call' = call, NEW t \in Task, DecryptCallback(t)
  PROVE  IInv' /\ Kept
<1> DEFINE Moves == /\ dpc[t] # "none"
                    /\ dpc' \in [Task -> {"none", "pending", "check", "store", "add",
                                          "returned", "total", "collect", "done"}]
                    /\ \A u \in Task : u # t => dpc'[u] = dpc[u]
           Responses == finishes' \in Seq([ok : BOOLEAN, keys : SUBSET KeyId])
           Rest == UNCHANGED <<sent, fpc, answer, todo, key_id_set>>
           K == {k \in key_id_set : ~LeftOut(k)}
<1>0. Types  BY Zenon DEF IInv
<1>1. Rest /\ (StoreResult(t) \/ UNCHANGED decrypt_results)
  BY Zenon DEF DecryptCallback, OnDecrypt, CheckFailure, ReadFinished, StoreResult,
         CountDecrypt, ReadReturned, ReadTotal, Collect, fetch_vars, result_vars
<1>2. Collect(t) \/ UNCHANGED finishes
  BY Zenon DEF DecryptCallback, OnDecrypt, CheckFailure, ReadFinished, StoreResult,
         CountDecrypt, ReadReturned, ReadTotal, finish_vars
<1>3. Moves
  BY <1>0, Zenon
     DEF DecryptCallback, OnDecrypt, CheckFailure, ReadFinished, StoreResult,
         CountDecrypt, ReadReturned, ReadTotal, Collect, Types
<1>4. Kept  BY <1>1, Zenon DEF Kept, Returned
<1>5. Responses /\ SuccessSound'
  <2>1. CASE finishes' = finishes \/ finishes' = Append(finishes, Failure)
    BY <1>4, <2>1, KeptSound, Zenon
  <2>2. CASE /\ finishes' = Append(finishes, Success(K))
             /\ \A k \in key_id_set : ~Fails(k)
    <3>1. K \subseteq KeyId  BY <1>0, Zenon DEF Types
    <3>2. \A k \in K : Usable(k)  BY <2>2, <3>1, CollectedUsable, Zenon
    <3> HIDE DEF K
    <3> QED  BY <1>4, <2>2, <3>1, <3>2, FinishSound, Zenon
  <2>3. CASE Collect(t)  BY <2>1, <2>2, <2>3, Zenon DEF Collect
  <2> QED  BY <1>2, <2>1, <2>3, Zenon
<1>6. Has(t[1], t[2]) \/ t[2] = NULL
  BY <1>3, Tasks DEF IInv, Held
<1>7. Stored' /\ DOMAIN decrypt_results' = Endpoint
      /\ \A e \in Endpoint : DOMAIN decrypt_results'[e] = KeyId
  <2>1. CASE UNCHANGED decrypt_results  BY <1>0, <1>4, <2>1, KeptStored, Zenon DEF Types
  <2>2. CASE StoreResult(t)
    <3> DEFINE e == UriIndex(t[1])
               r == [kind |-> answer[t[1]].keys[t[2]], ok |-> decrypted[t]]
    <3>1. /\ r.kind = answer[t[1]].keys[t[2]] /\ t[1] \in Call
          /\ decrypt_results' = [decrypt_results EXCEPT ![e][t[2]] = r]
          /\ Has(t[1], t[2])
      BY <1>6, <2>2, Tasks, Zenon DEF StoreResult
    <3> HIDE DEF r
    <3>2. DOMAIN decrypt_results' = Endpoint
          /\ \A d \in Endpoint : DOMAIN decrypt_results'[d] = KeyId
      BY <1>0, <3>1, Zenon DEF Types
    <3>3. ASSUME NEW d \in Endpoint, NEW k \in KeyId, decrypt_results'[d][k] # NULL
          PROVE  \E c \in Call : /\ UriIndex(c) = d /\ Has(c, k)
                                 /\ answer[c].keys[k] = decrypt_results'[d][k].kind
      <4>1. CASE d = e /\ k = t[2]
        <5>1. decrypt_results'[d][k] = r  BY <1>0, <3>1, <4>1, Zenon DEF Types
        <5> QED  BY <3>1, <4>1, <5>1, Zenon
      <4>2. CASE ~(d = e /\ k = t[2])
        <5>1. decrypt_results'[d][k] = decrypt_results[d][k]
          BY <1>0, <3>1, <4>2, Zenon DEF Types
        <5> QED  BY <3>3, <5>1, Zenon DEF IInv, Stored
      <4> QED  BY <4>1, <4>2, Zenon
    <3>4. Stored'  BY <1>1, <3>3, SameCalls, Zenon DEF Stored, Has, Returned
    <3> QED  BY <3>2, <3>4, Zenon
  <2> QED  BY <1>1, <2>1, <2>2, Zenon
<1> HIDE DEF Moves, Responses, Rest
<1>8. Types'  BY <1>0, <1>1, <1>3, <1>5, <1>7, SameCalls, Zenon
    DEF Moves, Responses, Rest, Types
<1>9. Sent'  BY <1>1, SameCalls, Zenon DEF IInv, Sent, Rest
<1>10. Held'
  <2>1. ASSUME NEW c \in Call, NEW k \in KeyId, dpc'[<<c, k>>] # "none"
        PROVE  dpc[<<c, k>>] # "none"
    BY <1>3, <2>1, Tasks, Zenon DEF Moves
  <2> QED  BY <1>1, <2>1, SameCalls, Zenon DEF IInv, Held, Has, Returned, Rest
<1> QED  BY <1>4, <1>5, <1>7, <1>8, <1>9, <1>10, Zenon DEF IInv

\* Every step keeps the invariant, and the answers.
LEMMA StepKeeps ==
  ASSUME IInv, OneStep PROVE IInv' /\ Kept
<1>0. call' = call /\ Types  BY Zenon DEF OneStep, CallStep, IInv
<1>1. CASE SendFetch \/ FetchRefused \/ ListReturns
  <2>1. /\ UNCHANGED <<answer, todo, dpc, decrypt_results, key_id_set>>
        /\ finishes' = finishes \/ finishes' = Append(finishes, Failure)
    BY <1>1, Zenon
       DEF SendFetch, FetchRefused, ListReturns, FinishOnFailure, result_vars,
         fetch_vars, decrypt_vars, finish_vars
  <2>2. \/ UNCHANGED <<fpc, sent>>
        \/ /\ sent + 1 \in Call /\ fpc[sent + 1] = "unsent" /\ sent' = sent + 1
           /\ fpc' = [fpc EXCEPT ![sent + 1] = "pending"]
    <3>1. CASE SendFetch
      <4>1. sent \in Nat /\ CallCount \in Nat  BY <1>0, CallNumbers, Zenon DEF Types
      <4>2. sent + 1 \in Call  BY <3>1, <4>1 DEF SendFetch, Call
      <4> QED  BY <3>1, <4>1, <4>2 DEF SendFetch, IInv, Sent
    <3> QED  BY <1>1, <3>1, Zenon DEF FetchRefused, ListReturns, fetch_vars
  <2>3. /\ \A c \in Call : fpc'[c] = fpc[c] \/ (~Returned(c) /\ fpc'[c] = "pending")
        /\ fpc' \in [Call -> {"unsent", "pending", "count", "record", "key_id",
                              "branch", "keys", "decrypt", "done"}]
    BY <1>0, <2>2, Zenon DEF Types, Returned
  <2>4. Kept /\ \A c \in Call : Returned(c) => Returned(c)'
    BY <2>1, <2>3, Zenon DEF Kept, Returned
  <2>5. Types'  BY <1>0, <2>1, <2>2, <2>3, <2>4, SameCalls, KeptSound DEF Types
  <2>6. Sent'
    BY <1>0, <2>2, CallNumbers, SameCalls DEF IInv, Types, Sent
  <2>7. Held'  BY <1>0, <2>1, <2>4, SameCalls, Zenon DEF IInv, Held, Has
  <2> QED
    BY <1>0, <2>1, <2>4, <2>5, <2>6, <2>7, KeptStored, KeptSound, Zenon DEF IInv
<1>2. CASE ~(SendFetch \/ FetchRefused \/ ListReturns)
  BY <1>0, <1>2, FetchCallbackKeeps, DecryptCallbackKeeps, Zenon DEF OneStep, CallStep
<1> QED  BY <1>1, <1>2, Zenon

\* What a scan has found stays found.
LEMMA KeptScan ==
  ASSUME call' = call, Kept, NEW r, ScanOk(r) PROVE ScanOk(r)'
<1>1. \A k : Usable(k) => Usable(k)'  BY KeptUsable, Zenon
<1>2. \A e, k : SplitOf(e, k) => SplitOf(e, k)'
  <2> SUFFICES ASSUME NEW e, NEW k, SplitOf(e, k) PROVE SplitOf(e, k)'  BY Zenon
  <2>1. PICK c \in Call :
          /\ UriIndex(c) = e /\ Returned(c) /\ k \in DOMAIN answer[c].keys
          /\ answer[c].keys[k] \in {"split", "odd"}
    BY Zenon DEF SplitOf
  <2>2. Returned(c)' /\ answer'[c] = answer[c]  BY <2>1, Zenon DEF Kept
  <2> QED  BY <2>1, <2>2, SameCalls, Zenon DEF SplitOf
<1> QED  BY <1>1, <1>2, SameCalls, Zenon DEF ScanOk

\* Where a scan may go.
LEMMA ScanMoves ==
  ASSUME NEW pass \in {"next", "single", "failure", "splits"}, NEW key, NEW e \in Endpoint,
         NEW P, NEW K \in SUBSET KeyId, \A k \in K : Usable(k),
         pass # "next" => key \in KeyId,
         pass = "splits" => \A d \in 1..(e - 1) : SplitOf(d, key)
  PROVE  ScanOk(ScanAt(pass, key, e, P, K))
<1> DEFINE r == ScanAt(pass, key, e, P, K)
<1>1. r.pass = pass /\ r.key = key /\ r.endpoint = e /\ r.keys = K
  BY Zenon DEF ScanAt
<1> HIDE DEF r
<1>2. ScanOk(r)  BY <1>1, Zenon DEF ScanOk
<1> QED  BY <1>2, Zenon DEF r

\* The key of a scan is usable if the scan found a single-party key, or a split
\* at every endpoint.
LEMMA ScanFinds ==
  ASSUME IInv, NEW r, ScanOk(r), r.pass # "next",
         decrypt_results[r.endpoint][r.key] # NULL
  PROVE  LET kind == decrypt_results[r.endpoint][r.key].kind
         IN  /\ kind = "single" => Usable(r.key)
             /\ kind \in {"split", "odd"} =>
                  /\ SplitOf(r.endpoint, r.key)
                  /\ r.pass = "splits" /\ ~(r.endpoint < EndpointCount) => Usable(r.key)
<1>1. r.key \in KeyId /\ r.endpoint \in Endpoint  BY Zenon DEF ScanOk
<1>2. PICK c \in Call :
        /\ UriIndex(c) = r.endpoint /\ Has(c, r.key)
        /\ answer[c].keys[r.key] = decrypt_results[r.endpoint][r.key].kind
  BY <1>1, Zenon DEF IInv, Stored
<1> DEFINE kind == decrypt_results[r.endpoint][r.key].kind
<1>3. kind = "single" => Usable(r.key)  BY <1>2, Zenon DEF Usable, Has
<1>4. kind \in {"split", "odd"} => SplitOf(r.endpoint, r.key)
  BY <1>2, Zenon DEF SplitOf, Has
<1>5. ASSUME kind \in {"split", "odd"}, r.pass = "splits", ~(r.endpoint < EndpointCount)
      PROVE  Usable(r.key)
  <2>1. EndpointCount \in Nat  BY CallAssumption, Zenon
  <2>2. \A e \in Endpoint : e = r.endpoint \/ e \in 1..(r.endpoint - 1)
    BY <1>1, <1>5, <2>1 DEF Endpoint
  <2>3. \A e \in 1..(r.endpoint - 1) : SplitOf(e, r.key)  BY <1>5, Zenon DEF ScanOk
  <2>4. \A e \in Endpoint : SplitOf(e, r.key)  BY <1>4, <1>5, <2>2, <2>3, Zenon
  <2> QED  BY <2>4, Zenon DEF SplitOf, Usable
<1> HIDE DEF kind
<1>6. /\ kind = "single" => Usable(r.key)
      /\ kind \in {"split", "odd"} =>
           /\ SplitOf(r.endpoint, r.key)
           /\ r.pass = "splits" /\ ~(r.endpoint < EndpointCount) => Usable(r.key)
  BY <1>3, <1>4, <1>5, Zenon
<1> QED  BY <1>6, Zenon DEF kind

\* Collecting while callbacks race goes on, fails, or responds with the keys it
\* has put together.
LEMMA ScanStep ==
  ASSUME IInv, Scans, NEW t \in Task, CollectRacing(t)
  PROVE  \/ /\ \E r : ScanOk(r) /\ scan' = [scan EXCEPT ![t] = r]
            /\ UNCHANGED <<dpc, finishes>>
         \/ /\ dpc' = [dpc EXCEPT ![t] = "done"] /\ UNCHANGED scan
            /\ finishes' \in {Append(finishes, Failure),
                             Append(finishes, Success(scan[t].keys))}
<1> DEFINE s == scan[t]
           Goes == \E r : ScanOk(r) /\ scan' = [scan EXCEPT ![t] = r]
           Ends == /\ dpc' = [dpc EXCEPT ![t] = "done"] /\ UNCHANGED scan
                   /\ finishes' \in {Append(finishes, Failure),
                                    Append(finishes, Success(s.keys))}
<1>1. /\ ScanOk(s) /\ s.pass \in {"next", "single", "failure", "splits"}
      /\ s.keys \in SUBSET KeyId /\ \A k \in s.keys : Usable(k)
      /\ s.pass # "next" => s.key \in KeyId
      /\ s.endpoint \in Endpoint
      /\ s.pass = "splits" => \A d \in 1..(s.endpoint - 1) : SplitOf(d, s.key)
  BY Zenon DEF Scans, ScanOk
<1>2. /\ 1 \in Endpoint /\ \A d \in 1..(1 - 1) : FALSE
      /\ s.endpoint < EndpointCount => s.endpoint + 1 \in Endpoint
      /\ s.endpoint = EndpointCount => ~(s.endpoint < EndpointCount)
      /\ \A d \in 1..((s.endpoint + 1) - 1) : d = s.endpoint \/ d \in 1..(s.endpoint - 1)
  BY <1>1, CallAssumption DEF Endpoint
<1> HIDE DEF s
<1>3. ASSUME NEW P, ConstructPrivateKey(t, P), Usable(s.key), s.pass # "next"
      PROVE  (Goes /\ UNCHANGED <<dpc, finishes>>) \/ Ends
  <2>1. /\ s.keys \cup {s.key} \in SUBSET KeyId
        /\ \A k \in s.keys \cup {s.key} : Usable(k)
    BY <1>1, <1>3, Zenon
  <2>2. "next" # "splits"  OBVIOUS
  <2>3. ScanOk(ScanAt("next", s.key, 1, {}, s.keys \cup {s.key}))
    BY <1>2, <2>1, <2>2, ScanMoves, Zenon
  <2> QED  BY <1>3, <2>3, Zenon DEF ConstructPrivateKey, ScanGoesOn, ScanFinishes, s
<1>4. CASE NextKey(t)
  <2>1. key_id_set \subseteq KeyId /\ "single" # "splits"  BY Zenon DEF IInv, Types
  <2>2. \A k \in key_id_set : ScanOk(ScanAt("single", k, 1, {}, s.keys))
    BY <1>1, <1>2, <2>1, ScanMoves, Zenon
  <2> QED  BY <1>4, <2>2, Zenon DEF NextKey, ScanGoesOn, ScanFinishes, s
<1>5. ASSUME NEW pass \in {"failure", "splits"}, NextEndpoint(t, pass),
             s.pass \in {"single", "failure"}
      PROVE  Goes /\ UNCHANGED <<dpc, finishes>>
  <2>1. s.pass # "next" /\ s.pass # "splits"  BY <1>5
  <2>2. s.endpoint < EndpointCount =>
          ScanOk(ScanAt(s.pass, s.key, s.endpoint + 1, {}, s.keys))
    BY <1>1, <1>2, <2>1, ScanMoves, Zenon
  <2>3. ScanOk(ScanAt(pass, s.key, 1, {}, s.keys))
    BY <1>1, <1>2, <1>5, <2>1, ScanMoves, Zenon
  <2> QED  BY <1>5, <2>2, <2>3, Zenon DEF NextEndpoint, ScanGoesOn, s
<1>6. CASE ReadSingle(t)
  <2>1. s.pass = "single" /\ "single" # "next"  BY <1>6, Zenon DEF ReadSingle, s
  <2>2. CASE NextEndpoint(t, "failure")  BY <1>5, <2>1, <2>2, Zenon
  <2>3. CASE ~NextEndpoint(t, "failure")
    <3>1. PICK P : ConstructPrivateKey(t, P)  BY <1>6, <2>3, Zenon DEF ReadSingle
    <3>2. Usable(s.key)  BY <1>1, <1>6, <2>1, <2>3, ScanFinds, Zenon DEF ReadSingle, s
    <3> QED  BY <1>3, <2>1, <3>1, <3>2, Zenon DEF s
  <2> QED  BY <2>2, <2>3, Zenon
<1>7. CASE ReadFailure(t)
  <2>1. s.pass = "failure"  BY <1>7, Zenon DEF ReadFailure, s
  <2>2. CASE NextEndpoint(t, "splits")  BY <1>5, <2>1, <2>2, Zenon
  <2> QED  BY <1>7, <2>2, Zenon DEF ReadFailure, ScanFinishes
<1>8. CASE ReadSplit(t)
  <2> DEFINE r == decrypt_results[s.endpoint][s.key]
             matches == r # NULL /\ r.kind \in {"split", "odd"}
  <2>1. s.pass = "splits" /\ s.pass # "next"  BY <1>8, Zenon DEF ReadSplit, s
  <2>2. matches => /\ SplitOf(s.endpoint, s.key)
                   /\ s.endpoint = EndpointCount => Usable(s.key)
    BY <1>1, <1>2, <2>1, ScanFinds, Zenon
  <2> DEFINE skip == ScanAt("next", s.key, 1, {}, s.keys)
             more == ScanAt("splits", s.key, s.endpoint + 1, s.pieces \cup {r}, s.keys)
  <2>3. ScanOk(skip)
    <3>1. "next" # "splits"  OBVIOUS
    <3> QED  BY <1>1, <1>2, <3>1, ScanMoves, Zenon
  <2>4. matches /\ s.endpoint < EndpointCount => ScanOk(more)
    <3>1. matches => \A d \in 1..((s.endpoint + 1) - 1) : SplitOf(d, s.key)
      BY <1>1, <1>2, <2>1, <2>2, Zenon
    <3> QED  BY <1>1, <1>2, <2>1, <3>1, ScanMoves, Zenon
  <2>5. \/ ScanFinishes(t, Failure)
        \/ scan' = [scan EXCEPT ![t] = skip] /\ UNCHANGED <<dpc, finishes>>
        \/ matches /\ s.endpoint < EndpointCount /\ ScanGoesOn(t, more)
        \/ /\ matches /\ s.endpoint = EndpointCount
           /\ ConstructPrivateKey(t, s.pieces \cup {r})
    BY <1>8, Zenon DEF ReadSplit, s
  <2> HIDE DEF skip, more, matches
  <2>6. CASE ConstructPrivateKey(t, s.pieces \cup {r}) /\ Usable(s.key)
    BY <1>3, <2>1, <2>6, Zenon DEF s
  <2> QED  BY <2>2, <2>3, <2>4, <2>5, <2>6, Zenon DEF ScanFinishes, ScanGoesOn
<1> QED  BY <1>4, <1>6, <1>7, <1>8, Zenon DEF CollectRacing, s

\* It keeps the invariant.
LEMMA RacingKeeps ==
  ASSUME IInv, Scans, call' = call, NEW t \in Task, CollectRacing(t)
  PROVE  IInv' /\ Scans'
<1>1. /\ UNCHANGED <<sent, fpc, answer, todo, key_id_set, decrypt_results>>
      /\ dpc[t] = "collect"
  BY Zenon DEF CollectRacing, fetch_vars, result_vars
<1>2. Kept  BY <1>1, Zenon DEF Kept, Returned
<1>3. dpc' \in {dpc, [dpc EXCEPT ![t] = "done"]}  BY ScanStep, Zenon
<1>4. SuccessSound' /\ finishes' \in Seq([ok : BOOLEAN, keys : SUBSET KeyId])
  <2>1. scan[t].keys \in SUBSET KeyId /\ \A k \in scan[t].keys : Usable(k)
    BY Zenon DEF Scans, ScanOk
  <2>2. finishes' \in {finishes, Append(finishes, Failure),
                      Append(finishes, Success(scan[t].keys))}
    BY ScanStep, Zenon
  <2>3. CASE finishes' \in {finishes, Append(finishes, Failure)}
    BY <1>2, <2>3, KeptSound, Zenon
  <2>4. CASE finishes' = Append(finishes, Success(scan[t].keys))
    BY <1>2, <2>1, <2>4, FinishSound, Zenon
  <2> QED  BY <2>2, <2>3, <2>4, Zenon
<1>5. Types'  BY <1>1, <1>3, <1>4, SameCalls, Zenon DEF IInv, Types
<1>6. Sent' /\ Stored'
  BY <1>1, <1>2, KeptStored, SameCalls, Zenon DEF IInv, Sent
<1>7. Held'
  <2>1. ASSUME NEW c \in Call, NEW k \in KeyId, dpc'[<<c, k>>] # "none"
        PROVE  dpc[<<c, k>>] # "none"
    <3>1. <<c, k>> \in Task /\ DOMAIN dpc = Task  BY Tasks, Zenon DEF IInv, Types
    <3> QED  BY <1>1, <1>3, <2>1, <3>1, Zenon
  <2> QED  BY <1>1, <2>1, SameCalls, Zenon DEF IInv, Held, Has, Returned
<1>8. Scans'
  <2>1. ASSUME NEW r, ScanOk(r) PROVE ScanOk(r)'  BY <1>2, <2>1, KeptScan, Zenon
  <2>2. CASE UNCHANGED scan  BY <2>1, <2>2, SameCalls, Zenon DEF Scans
  <2>3. CASE \E r : ScanOk(r) /\ scan' = [scan EXCEPT ![t] = r]
    BY <2>1, <2>3, SameCalls, Zenon DEF Scans
  <2> QED  BY <2>2, <2>3, ScanStep, Zenon
<1> QED  BY <1>4, <1>5, <1>6, <1>7, <1>8, Zenon DEF IInv

\* So does a step that changes nothing of it.
LEMMA StutterIInv ==
  ASSUME IInv, UNCHANGED <<call, sent, fpc, answer, todo, dpc, decrypt_results,
                           key_id_set, finishes>>
  PROVE  IInv' /\ Kept
<1>1. Kept  BY Zenon DEF Kept, Returned
<1>2. IInv'
  BY SameCalls DEF IInv, Types, Sent, Held, Stored, SuccessSound, Has, Returned, Usable
<1> QED  BY <1>1, <1>2, Zenon

SoundInv == IInv /\ Scans

\* So does every step.
LEMMA NextSound ==
  ASSUME SoundInv, [Next]_vars PROVE SoundInv'
<1>0. IInv /\ Scans  BY Zenon DEF SoundInv
<1>1. CASE UNCHANGED <<call, scan, sent, fpc, answer, todo, dpc, decrypt_results,
                       key_id_set, finishes>>
  <2>1. IInv' /\ Kept  BY <1>0, <1>1, StutterIInv, Zenon
  <2>2. Scans'  BY <1>0, <1>1, <2>1, KeptScan, SameCalls, Zenon DEF Scans
  <2> QED  BY <2>1, <2>2, Zenon DEF SoundInv
<1>2. CASE UNCHANGED vars
  BY <1>1, <1>2, Zenon DEF vars, result_vars, fetch_vars, decrypt_vars, finish_vars
<1>3. CASE UNCHANGED call /\ IteratorInvalidated
  BY <1>1, <1>3, Zenon DEF IteratorInvalidated, result_vars, fetch_vars, decrypt_vars
<1>4. CASE OneStep /\ UNCHANGED scan
  <2>1. IInv' /\ Kept  BY <1>0, <1>4, StepKeeps, Zenon
  <2>2. call' = call  BY <1>4, Zenon DEF OneStep
  <2>3. Scans'  BY <1>0, <1>4, <2>1, <2>2, KeptScan, SameCalls, Zenon DEF Scans
  <2> QED  BY <2>1, <2>3, Zenon DEF SoundInv
<1>5. CASE call' = call /\ \E t \in Task : CollectRacing(t)
  BY <1>0, <1>5, RacingKeeps, Zenon DEF SoundInv
<1> QED  BY <1>2, <1>3, <1>4, <1>5, Zenon DEF Next, Terminated, Step, OneStep

\* Whatever the order of the callbacks, and even if they race, a key in a
\* response of ListPrivateKeys was answered by one endpoint as a single-party
\* key or by all of them as a split.
THEOREM ResponsesSound == Spec => []SuccessSound
<1>1. SoundInv => SuccessSound  BY Zenon DEF SoundInv, IInv
<1>2. Init => SoundInv
  <2> SUFFICES ASSUME Init PROVE Scans  BY InitIInv, Zenon DEF SoundInv
  <2>1. 1 \in Endpoint /\ "next" # "splits"  BY CallAssumption DEF Endpoint
  <2>2. ScanOk(ScanAt("next", -1, 1, {}, {}))  BY <2>1, ScanMoves, Zenon
  <2> QED  BY <2>2, Zenon DEF Init, Scans
<1> QED  BY <1>1, <1>2, NextSound, PTL DEF Spec

-----------------------------------------------------------------------------
(* What the callbacks have in hand *)

\* The request and what its fetches may answer do not change.
LEMMA SameRequest ==
  ASSUME call' = call
  PROVE  /\ ByKeyId' = ByKeyId /\ CallCount' = CallCount
         /\ \A c : KeyOf(c)' = KeyOf(c) /\ Answers(c)' = Answers(c)
<1>1. ByKeyId' = ByKeyId /\ CallCount' = CallCount  BY Zenon DEF ByKeyId, CallCount
<1>2. \A c : KeyOf(c)' = KeyOf(c)  BY Zenon DEF KeyOf
<1> QED  BY <1>1, <1>2, Zenon DEF Answers

\* An answer holds keys of known kinds; by key id, at most the one asked for.
LEMMA AnswerKeys ==
  ASSUME Types, NEW c \in Call, answer[c] \in Answers(c)
  PROVE  /\ DOMAIN answer[c].keys \subseteq KeyId
         /\ \A k \in DOMAIN answer[c].keys :
              /\ answer[c].keys[k] \in Kinds
              /\ ByKeyId => k = KeyOf(c)
         /\ answer[c].ok \in BOOLEAN
<1>1. call.keys \subseteq KeyId /\ call.kinds \subseteq Kinds
  BY ScenarioAssumption, Zenon DEF Types, Scenarios
<1>2. ByKeyId => KeyOf(c) \in KeyId  BY KeyIds, Zenon
<1>3. CASE answer[c] = [ok |-> FALSE, keys |-> <<>>]
  <2>1. DOMAIN answer[c].keys = {} /\ answer[c].ok = FALSE  BY <1>3
  <2>3. \A k \in DOMAIN answer[c].keys : FALSE  BY <2>1, Zenon
  <2>4. answer[c].ok \in BOOLEAN  BY <2>1, Zenon
  <2> QED  BY <2>1, <2>3, <2>4, Zenon
<1>4. CASE answer[c] # [ok |-> FALSE, keys |-> <<>>]
  <2> DEFINE A == IF ByKeyId THEN {KeyOf(c)} ELSE call.keys
  <2>0. PICK S \in SUBSET A : \E f \in [S -> call.kinds] :
          answer[c] = [ok |-> TRUE, keys |-> f]
    BY <1>4, Zenon DEF Answers
  <2>1. PICK f \in [S -> call.kinds] : answer[c] = [ok |-> TRUE, keys |-> f]
    BY <2>0, Zenon
  <2>2. answer[c].keys = f /\ answer[c].ok = TRUE /\ DOMAIN f = S  BY <2>1
  <2>3. S \subseteq KeyId  BY <1>1, <1>2, Zenon
  <2>5. \A k \in S : f[k] \in Kinds /\ (ByKeyId => k = KeyOf(c))  BY <1>1, <2>1, Zenon
  <2> HIDE DEF A
  <2> QED  BY <2>2, <2>3, <2>5, Zenon
<1> QED  BY <1>3, <1>4, Zenon

\* The variables keep their types.
LEMMA TypesStep ==
  ASSUME IInv, MoreTypes, KeyInv, OneStep, \A S \in SUBSET KeyId : Cardinality(S) \in Nat
  PROVE  MoreTypes'
<1>0. /\ call' = call
      /\ \/ SendFetch \/ FetchRefused \/ ListReturns
         \/ \E c \in Call : FetchCallback(c)
         \/ \E t \in Task : DecryptCallback(t)
  BY Zenon DEF OneStep, CallStep
<1>1. Call' = Call /\ Task' = Task  BY <1>0, SameCalls, Zenon
<1> USE <1>1 DEF MoreTypes, counter_vars, result_vars, fetch_vars, decrypt_vars,
        finish_vars, FinishOnFailure
<1>2. CASE SendFetch \/ FetchRefused \/ ListReturns
  BY <1>2, Zenon DEF SendFetch, FetchRefused, ListReturns
<1>3. ASSUME NEW c \in Call, FetchCallback(c) PROVE MoreTypes'
  <2>1. ASSUME CountSplits(c) PROVE MoreTypes'
    <3>1. answer[c] \in Answers(c)  BY <2>1, Zenon DEF CountSplits, KeyInv, Returned
    <3>2. /\ DOMAIN answer[c].keys \subseteq KeyId
          /\ Cardinality(DOMAIN answer[c].keys) \in Nat
      BY <3>1, AnswerKeys, Zenon DEF IInv
    <3> QED  BY <2>1, <3>2 DEF CountSplits
  <2>2. ASSUME NEW k \in KeyId, BadKey(c, k) PROVE MoreTypes'
    BY <2>2, Zenon DEF BadKey, TakeKey
  <2>3. ASSUME NEW k \in KeyId, DecryptLater(c, k) PROVE MoreTypes'
    BY <2>3, Zenon DEF DecryptLater, TakeKey
  <2>4. ASSUME NEW k \in KeyId, NEW o, DecryptNow(c, k, o) PROVE MoreTypes'
    BY <2>4, Zenon DEF DecryptNow, TakeKey
  <2>5. CASE OnFetch(c) \/ CountFetch(c) \/ RecordFetch(c) \/ RecordKeyId(c)
    BY <2>5 DEF OnFetch, CountFetch, RecordFetch, RecordKeyId
  <2>6. CASE EmptyFetch(c) \/ FetchCallbackReturns(c)
    BY <2>6, Zenon DEF EmptyFetch, FetchCallbackReturns
  <2>7. CASE DecryptReturns(c)  BY <2>7, Zenon DEF DecryptReturns
  <2> HIDE DEF MoreTypes
  <2> QED  BY <1>3, <2>1, <2>2, <2>3, <2>4, <2>5, <2>6, <2>7, Zenon DEF FetchCallback
<1>4. ASSUME NEW t \in Task, DecryptCallback(t) PROVE MoreTypes'
  <2>1. CASE OnDecrypt(t) \/ CheckFailure(t) \/ StoreResult(t) \/ ReadFinished(t)
             \/ CountDecrypt(t) \/ ReadReturned(t) \/ ReadTotal(t)
    BY <2>1 DEF OnDecrypt, CheckFailure, StoreResult, ReadFinished, PrevWhenEmpty,
         CountDecrypt, ReadReturned, ReadTotal
  <2>2. CASE Collect(t)
    <3>1. /\ crashed' = (call.logging /\ t[2] = NULL /\ \E k \in Visited : LogsMismatch(k))
          /\ UNCHANGED <<todo, current, erring, prev, decrypted, total, finished,
                         returned, got_failure>>
      BY <2>2, Zenon DEF Collect
    <3>2. crashed' \in BOOLEAN  BY <3>1, Zenon
    <3> QED  BY <3>1, <3>2, Zenon
  <2> HIDE DEF MoreTypes
  <2> QED  BY <1>4, <2>1, <2>2, ZenonT(30) DEF DecryptCallback
<1> HIDE DEF MoreTypes
<1> QED  BY <1>0, <1>2, <1>3, <1>4, Zenon

\* A callback of Decrypt goes on, and leaves the others and the fetches alone.
LEMMA DecryptCallbackDoes ==
  ASSUME Types, MoreTypes, NEW t \in Task, DecryptCallback(t)
  PROVE  /\ UNCHANGED <<sent, lpc, fpc, answer, todo, current, erring, fetch_results,
                        key_id_set>>
         /\ \A u \in Task : u # t => dpc'[u] = dpc[u] /\ decrypted'[u] = decrypted[u]
         /\ dpc[t] # "none" /\ dpc'[t] \notin {"none", "pending"}
         /\ t[2] = NULL => dpc'[t] # "add"
         /\ dpc[t] \in Past => dpc'[t] \in Past
         /\ dpc[t] # "pending" => decrypted'[t] = decrypted[t]
         /\ StoreResult(t) \/ UNCHANGED decrypt_results
         /\ Collect(t) \/ UNCHANGED <<finishes, got_failure>>
<1>0. /\ StoreResult(t) \/ UNCHANGED decrypt_results
      /\ Collect(t) \/ UNCHANGED <<finishes, got_failure>>
  BY Zenon DEF DecryptCallback, OnDecrypt, CheckFailure, ReadFinished, CountDecrypt,
         ReadReturned, ReadTotal, StoreResult, Collect, result_vars, finish_vars
<1> USE DEF DecryptCallback, OnDecrypt, CheckFailure, ReadFinished, StoreResult,
            CountDecrypt, ReadReturned, ReadTotal, Collect
<1>1. /\ UNCHANGED <<sent, lpc, fpc, answer, todo, current, erring, fetch_results,
                     key_id_set>>
      /\ dpc[t] # "none"
  BY Zenon DEF fetch_vars, result_vars
<1>2. /\ dpc' = [dpc EXCEPT ![t] = dpc'[t]]
      /\ dpc'[t] \notin {"none", "pending"} /\ (t[2] = NULL => dpc'[t] # "add")
      /\ dpc[t] \in Past => dpc'[t] \in Past
  BY Zenon DEF Types, Past
<1>3. \A u \in Task : u # t \/ dpc[u] # "pending" => decrypted'[u] = decrypted[u]
  BY Zenon DEF MoreTypes
<1>4. \A u \in Task : u # t => dpc'[u] = dpc[u]
  <2> HIDE DEF DecryptCallback
  <2> QED  BY <1>2, Zenon DEF Types
<1> HIDE DEF DecryptCallback
<1> QED  BY <1>0, <1>1, <1>2, <1>3, <1>4, Zenon

\* A callback of a fetch begins callbacks of Decrypt and leaves those that have begun
\* alone; it fails if a key cannot be sent.
LEMMA FetchCallbackDoes ==
  ASSUME Types, MoreTypes, KeyInv, NEW c \in Call, FetchCallback(c)
  PROVE  /\ UNCHANGED <<lpc, decrypt_results>>
         /\ RecordFetch(c) \/ UNCHANGED fetch_results
         /\ \A t \in Task : dpc[t] # "none" =>
              dpc'[t] = dpc[t] /\ decrypted'[t] = decrypted[t]
         /\ \/ UNCHANGED <<finishes, got_failure>>
            \/ /\ FinishOnFailure
               /\ (DecryptReturns(c) /\ erring[c]) \/ \E k \in KeyId : BadKey(c, k)
<1>1. UNCHANGED <<lpc, decrypt_results>> /\ (RecordFetch(c) \/ UNCHANGED fetch_results)
  <2>1. ASSUME \/ OnFetch(c) \/ CountFetch(c) \/ RecordKeyId(c) \/ EmptyFetch(c)
               \/ CountSplits(c) \/ DecryptReturns(c) \/ FetchCallbackReturns(c)
        PROVE  UNCHANGED <<lpc, decrypt_results, fetch_results>>
    BY <2>1, Zenon DEF OnFetch, CountFetch, RecordKeyId, EmptyFetch, CountSplits,
                DecryptReturns, FetchCallbackReturns, result_vars
  <2>2. ASSUME NEW k \in KeyId, \/ BadKey(c, k) \/ DecryptLater(c, k)
                                \/ \E o : DecryptNow(c, k, o)
        PROVE  UNCHANGED <<lpc, decrypt_results, fetch_results>>
    BY <2>2, Zenon DEF BadKey, DecryptLater, DecryptNow, TakeKey
  <2>3. ASSUME RecordFetch(c) PROVE UNCHANGED <<lpc, decrypt_results>>
    BY <2>3, Zenon DEF RecordFetch
  <2> QED  BY <2>1, <2>2, <2>3, Zenon DEF FetchCallback
<1>2. \/ UNCHANGED <<finishes, got_failure>>
      \/ /\ FinishOnFailure
         /\ (DecryptReturns(c) /\ erring[c]) \/ \E k \in KeyId : BadKey(c, k)
  BY Zenon DEF FetchCallback, OnFetch, CountFetch, RecordFetch, RecordKeyId, EmptyFetch,
         CountSplits, BadKey, DecryptLater, DecryptNow, DecryptReturns,
         FetchCallbackReturns, finish_vars
<1>3. \/ UNCHANGED <<dpc, decrypted>> \/ EmptyFetch(c)
      \/ \E k \in KeyId : DecryptLater(c, k) \/ \E o : DecryptNow(c, k, o)
  BY Zenon
     DEF FetchCallback, OnFetch, CountFetch, RecordFetch, RecordKeyId, CountSplits,
         BadKey, DecryptReturns, FetchCallbackReturns, decrypt_vars
<1>4. ASSUME EmptyFetch(c), NEW t \in Task, dpc[t] # "none"
      PROVE  dpc'[t] = dpc[t] /\ decrypted'[t] = decrypted[t]
  <2>1. dpc[<<c, NULL>>] = "none"  BY <1>4, Zenon DEF EmptyFetch, KeyInv, Fresh
  <2> QED  BY <1>4, <2>1, Zenon DEF EmptyFetch, Types
<1>5. ASSUME NEW k \in KeyId, DecryptLater(c, k) \/ \E o : DecryptNow(c, k, o),
             NEW t \in Task, dpc[t] # "none"
      PROVE  dpc'[t] = dpc[t] /\ decrypted'[t] = decrypted[t]
  <2>1. dpc[<<c, k>>] = "none"  BY <1>5, Zenon
      DEF DecryptLater, DecryptNow, TakeKey, KeyInv
  <2>2. /\ \E x : dpc' = [dpc EXCEPT ![<<c, k>>] = x]
        /\ decrypted' = decrypted \/ \E x : decrypted' = [decrypted EXCEPT ![<<c, k>>] = x]
    <3>1. CASE DecryptLater(c, k)  BY <3>1, Zenon DEF DecryptLater
    <3>2. CASE \E o : DecryptNow(c, k, o)  BY <3>2, Zenon DEF DecryptNow
    <3> QED  BY <1>5, <3>1, <3>2, Zenon
  <2>3. DOMAIN dpc = Task /\ DOMAIN decrypted = Task  BY ZenonT(30) DEF Types, MoreTypes
  <2> QED  BY <1>5, <2>1, <2>2, <2>3, Zenon
<1> QED  BY <1>1, <1>2, <1>3, <1>4, <1>5, Zenon

\* A key is in hand or was sent to the KMS, never both, and once.
LEMMA KeyStep ==
  ASSUME IInv, MoreTypes, KeyInv, OneStep
  PROVE  KeyInv'
<1> DEFINE
      Answered == \A c \in Call : Returned(c)' => answer'[c] \in Answers(c)
      Starts == \A c \in Call :
        /\ fpc'[c] \in Fresh =>
             fpc[c] \in Fresh /\ todo'[c] = todo[c] /\ current'[c] = current[c]
        /\ \A k \in todo'[c] : k \in todo[c] \/ (k \in KeyId /\ fpc[c] \in Fresh)
      Goes(t) ==
        \/ dpc'[t] = dpc[t] /\ decrypted'[t] = decrypted[t]
        \/ /\ fpc'[t[1]] \notin Fresh /\ t[2] \notin todo'[t[1]]
           /\ t[2] = NULL => dpc'[t] \notin {"pending", "add"}
           /\ dpc[t] \notin {"none", "pending"} =>
                dpc'[t] \notin {"none", "pending"} /\ decrypted'[t] = decrypted[t]
      Errs(c) == erring'[c] =>
        \/ erring[c] /\ current'[c] = current[c]
        \/ /\ "error" \in call.kms /\ current'[c] # NULL
           /\ ~decrypted'[<<c, current'[c]>>]
           /\ dpc'[<<c, current'[c]>>] \notin {"none", "pending"}
      Moves == /\ Answered /\ Starts /\ \A t \in Task : Goes(t)
               /\ \A c \in Call : Errs(c)
               /\ lpc' = "error" => sent' < CallCount
<1>0. /\ call' = call /\ Types
      /\ \/ SendFetch \/ FetchRefused \/ ListReturns
         \/ \E c \in Call : FetchCallback(c)
         \/ \E t \in Task : DecryptCallback(t)
  BY Zenon DEF OneStep, CallStep, IInv
<1>1. /\ \A c \in Call : Returned(c) => answer[c] \in Answers(c)
      /\ lpc = "error" => sent < CallCount
  BY Zenon DEF KeyInv
<1>2. ASSUME SendFetch \/ FetchRefused \/ ListReturns PROVE Moves
  <2>1. \A c \in Call : fpc'[c] # fpc[c] => fpc[c] = "unsent" /\ fpc'[c] = "pending"
    BY <1>0, <1>2, CallNumbers
       DEF SendFetch, FetchRefused, ListReturns, Sent, IInv, Types, fetch_vars
  <2>2. /\ UNCHANGED <<answer, todo, current, erring, dpc, decrypted>>
        /\ lpc' = "error" => sent' < CallCount
    BY <1>2, Zenon DEF SendFetch, FetchRefused, ListReturns, fetch_vars, decrypt_vars
  <2> QED  BY <1>1, <2>1, <2>2, ZenonT(30) DEF Returned, Fresh
<1>3. ASSUME NEW c \in Call, FetchCallback(c) PROVE Moves
  <2>1. CASE OnFetch(c)
    BY <1>0, <1>1, <2>1, Zenon DEF OnFetch, Types, decrypt_vars, Returned, Fresh
  <2>2. CASE CountFetch(c)
    BY <1>0, <1>1, <2>2, Zenon DEF CountFetch, Types, decrypt_vars, Returned, Fresh
  <2>3. CASE RecordFetch(c)
    BY <1>0, <1>1, <2>3, Zenon DEF RecordFetch, Types, decrypt_vars, Returned, Fresh
  <2>4. CASE RecordKeyId(c)
    BY <1>0, <1>1, <2>4, Zenon DEF RecordKeyId, Types, decrypt_vars, Returned, Fresh
  <2>5. CASE DecryptReturns(c)
    BY <1>0, <1>1, <2>5, Zenon DEF DecryptReturns, Types, decrypt_vars, Returned, Fresh
  <2>6. CASE FetchCallbackReturns(c)
    BY <1>0, <1>1, <2>6, Zenon
       DEF FetchCallbackReturns, Types, decrypt_vars, Returned, Fresh
  <2>7. CASE EmptyFetch(c)
    <3>1. PICK t \in Task : t = <<c, NULL>> /\ t[1] = c /\ t[2] = NULL  BY TaskOf, Zenon
    <3>2. NULL \notin todo[c]  BY NullAssumption, Zenon DEF MoreTypes
    <3> QED
      BY <1>0, <1>1, <2>7, <3>1, <3>2, Zenon DEF EmptyFetch, Types, Returned, Fresh
  <2>8. CASE CountSplits(c)
    <3>1. DOMAIN answer[c].keys \subseteq KeyId
      BY <1>0, <1>1, <2>8, AnswerKeys, Zenon DEF CountSplits, Returned
    <3> QED
      BY <1>0, <1>1, <2>8, <3>1, Zenon
         DEF CountSplits, Types, decrypt_vars, Returned, Fresh
  <2>9. ASSUME NEW k \in KeyId, BadKey(c, k) PROVE Moves
    BY <1>0, <1>1, <2>9, Zenon DEF BadKey, TakeKey, Types, decrypt_vars, Returned, Fresh
  <2>10. ASSUME NEW k \in KeyId, DecryptLater(c, k) PROVE Moves
    <3>1. PICK t \in Task : t = <<c, k>> /\ t[1] = c /\ t[2] = k  BY TaskOf, Zenon
    <3>2. dpc[t] = "none" /\ k # NULL
      BY <2>10, <3>1, NullAssumption, Zenon DEF DecryptLater, TakeKey, KeyInv
    <3>3. /\ fpc[c] = "keys" /\ todo' = [todo EXCEPT ![c] = todo[c] \ {k}]
          /\ dpc' = [dpc EXCEPT ![t] = "pending"]
          /\ UNCHANGED <<sent, lpc, fpc, answer, current, erring, decrypted>>
      BY <2>10, <3>1, Zenon DEF DecryptLater, TakeKey
    <3>4. /\ \A u \in Task : u # t => dpc'[u] = dpc[u]
          /\ todo'[c] = todo[c] \ {k} /\ \A d \in Call : d # c => todo'[d] = todo[d]
      BY <1>0, <3>3, Zenon DEF Types
    <3> QED  BY <1>1, <3>1, <3>2, <3>3, <3>4 DEF Returned, Fresh
  <2>11. ASSUME NEW k \in KeyId, NEW o \in call.kms, DecryptNow(c, k, o) PROVE Moves
    <3>1. PICK t \in Task : t = <<c, k>> /\ t[1] = c /\ t[2] = k  BY TaskOf, ZenonT(30)
    <3>2. dpc[t] = "none" /\ k # NULL
      BY <2>11, <3>1, NullAssumption, Zenon DEF DecryptNow, TakeKey, KeyInv
    <3>3. Answered /\ Starts /\ UNCHANGED <<lpc, sent>> /\ \A u \in Task : Goes(u)
      BY <1>0, <1>1, <2>11, <3>1, <3>2, SMTT(20) DEF DecryptNow, TakeKey, Types, Returned, Fresh
    <3>4. /\ decrypted'[t] = (o = "now") /\ erring'[c] = (o = "error")
          /\ current'[c] = k /\ dpc'[t] = "check"
          /\ \A d \in Call : d # c => erring'[d] = erring[d] /\ current'[d] = current[d]
      BY <1>0, <2>11, <3>1, Zenon DEF DecryptNow, MoreTypes, Types
    <3>5. \A d \in Call : Errs(d)
      <4>1. "error" # "now" => Errs(c)  BY <3>1, <3>2, <3>4, Zenon
      <4>2. \A d \in Call : d # c => Errs(d)  BY <3>4, Zenon
      <4> QED  BY <4>1, <4>2, Zenon
    <3> QED  BY <1>1, <3>3, <3>5, Zenon
  <2> HIDE DEF Moves
  <2> QED
    BY <1>3, <2>1, <2>2, <2>3, <2>4, <2>5, <2>6, <2>7, <2>8, <2>9, <2>10, <2>11, ZenonT(30)
       DEF FetchCallback
<1>4. ASSUME NEW t \in Task, DecryptCallback(t) PROVE Moves
  <2>1. /\ UNCHANGED <<sent, lpc, fpc, answer, todo, current, erring>>
        /\ \A u \in Task : u # t => dpc'[u] = dpc[u] /\ decrypted'[u] = decrypted[u]
        /\ dpc[t] # "none" /\ dpc'[t] \notin {"none", "pending"}
        /\ t[2] = NULL => dpc'[t] # "add"
        /\ dpc[t] # "pending" => decrypted'[t] = decrypted[t]
    BY <1>0, <1>4, DecryptCallbackDoes, Zenon
  <2>2. t = <<t[1], t[2]>> /\ t[1] \in Call /\ t[2] \in KeyId \cup {NULL}
    BY Tasks, Zenon
  <2>3. fpc[t[1]] \notin Fresh /\ t[2] \notin todo[t[1]]  BY <2>1, <2>2 DEF KeyInv
  <2> QED  BY <1>1, <2>1, <2>3, Zenon DEF Returned
<1> HIDE DEF Moves
<1>5. Moves  BY <1>0, <1>2, <1>3, <1>4, Zenon
<1> USE DEF Moves
<1>6. ASSUME NEW c \in Call, fpc'[c] \in Fresh
      PROVE  /\ todo'[c] = {} /\ current'[c] = NULL
             /\ \A k \in KeyId \cup {NULL} : dpc'[<<c, k>>] = "none"
  <2>1. todo'[c] = {} /\ current'[c] = NULL  BY <1>5, <1>6 DEF KeyInv
  <2>2. ASSUME NEW k \in KeyId \cup {NULL} PROVE dpc'[<<c, k>>] = "none"
    <3>1. PICK t \in Task : t = <<c, k>> /\ t[1] = c  BY TaskOf
    <3>2. dpc[t] = "none"  BY <1>5, <1>6, <3>1 DEF KeyInv
    <3> QED  BY <1>5, <1>6, <3>1, <3>2, Zenon
  <2> QED  BY <2>1, <2>2, Zenon
<1>7. ASSUME NEW c \in Call, NEW k \in todo'[c] PROVE dpc'[<<c, k>>] = "none"
  <2>1. k \in KeyId /\ dpc[<<c, k>>] = "none"  BY <1>5 DEF KeyInv, MoreTypes
  <2> QED  BY <1>5, <1>7, <2>1, TaskOf, SMTT(20)
<1>8. ASSUME NEW c \in Call PROVE dpc'[<<c, NULL>>] \notin {"pending", "add"}
  <2>1. PICK t \in Task : t = <<c, NULL>> /\ t[2] = NULL  BY TaskOf, ZenonT(30)
  <2>2. dpc[t] \notin {"pending", "add"}  BY <2>1, Zenon DEF KeyInv
  <2> QED  BY <1>5, <2>1, <2>2, Zenon
<1>9. ASSUME NEW c \in Call, erring'[c]
      PROVE  /\ "error" \in call.kms /\ current'[c] # NULL
             /\ ~decrypted'[<<c, current'[c]>>]
             /\ dpc'[<<c, current'[c]>>] \notin {"none", "pending"}
  <2>1. CASE erring[c] /\ current'[c] = current[c]
    <3>0. current[c] \in KeyId \cup {NULL}  BY Zenon DEF MoreTypes
    <3>1. PICK t \in Task : t = <<c, current[c]>>  BY <3>0, TaskOf, Zenon
    <3>2. /\ "error" \in call.kms /\ current[c] # NULL
          /\ ~decrypted[t] /\ dpc[t] \notin {"none", "pending"}
      BY <2>1, <3>1, Zenon DEF KeyInv
    <3> QED  BY <1>5, <2>1, <3>1, <3>2, ZenonT(30)
  <2> QED  BY <1>5, <1>9, <2>1, Zenon
<1> QED
  BY <1>0, <1>5, <1>6, <1>7, <1>8, <1>9, SameCalls, SameRequest, SMTT(20) DEF KeyInv

-----------------------------------------------------------------------------
(* Callbacks that do not race *)

\* They keep out of each other's way: one callback of a fetch and one of Decrypt
\* run, one inside the other.
LEMMA SeqStep ==
  ASSUME IInv, MoreTypes, KeyInv, SeqInv, OneStep, ~call.concurrent
  PROVE  SeqInv'
<1> DEFINE
      Alone(c, t) ==
        /\ \A d \in Call : d # c => fpc'[d] \in {"unsent", "pending", "done"}
        /\ \A u \in Task : u # t => dpc'[u] \in {"none", "pending", "done"}
        /\ \/ fpc'[c] \in {"unsent", "pending", "done"}
           \/ dpc'[t] \in {"none", "pending", "done"}
           \/ fpc'[c] = "decrypt" /\ t = <<c, current'[c]>>
        /\ dpc'[t] \in {"returned", "total"} => prev'[t] = finished' - 1
        /\ dpc'[t] \in {"total", "collect"} => returned' = CallCount
        /\ dpc'[t] = "collect" => finished' = total'
<1>0. /\ call' = call /\ Types
      /\ \/ SendFetch \/ FetchRefused \/ ListReturns
         \/ \E c \in Call : FetchCallback(c)
         \/ \E t \in Task : DecryptCallback(t)
  BY Zenon DEF OneStep, CallStep, IInv
<1>1. ASSUME NEW c \in Call, NEW t \in Task, Alone(c, t) PROVE SeqInv'
  <2>1. Call' = Call /\ Task' = Task /\ CallCount' = CallCount
    BY <1>0, SameCalls, SameRequest, Zenon
  <2>2. \A d \in Call : fpc'[d] \notin {"unsent", "pending", "done"} => d = c
    BY <1>1, Zenon
  <2>3. \A u \in Task : dpc'[u] \notin {"none", "pending", "done"} => u = t
    BY <1>1, Zenon
  <2> QED  BY <1>1, <2>1, <2>2, <2>3 DEF SeqInv
<1>2. CASE SendFetch \/ FetchRefused \/ ListReturns
  <2>1. \A c \in Call : fpc'[c] # fpc[c] => fpc'[c] = "pending"
    BY <1>0, <1>2, Zenon DEF SendFetch, FetchRefused, ListReturns, Types, fetch_vars
  <2>2. UNCHANGED <<current, dpc, prev, finished, returned, total>>
    BY <1>2, Zenon
       DEF SendFetch, FetchRefused, ListReturns, counter_vars, fetch_vars, decrypt_vars
  <2> QED  BY <1>0, <2>1, <2>2, SameCalls, SameRequest, Zenon DEF SeqInv
<1>3. ASSUME NEW c \in Call, FetchCallback(c) PROVE \E t \in Task : Alone(c, t)
  <2>1. PICK s \in Task : s = <<c, NULL>>  BY TaskOf
  <2>2. ASSUME fpc[c] \notin {"unsent", "pending", "done"}
        PROVE  /\ \A d \in Call : d # c => fpc[d] \in {"unsent", "pending", "done"}
               /\ \A u \in Task : \/ dpc[u] \in {"none", "pending", "done"}
                                  \/ fpc[c] = "decrypt" /\ u = <<c, current[c]>>
    BY <2>2, Zenon DEF SeqInv
  <2>3. CASE OnFetch(c)
    BY <1>0, <2>3, Zenon DEF OnFetch, MayStart, Types, decrypt_vars
  <2>4. CASE CountFetch(c)  BY <1>0, <2>2, <2>4, Zenon
      DEF CountFetch, Types, decrypt_vars
  <2>5. CASE RecordFetch(c)  BY <1>0, <2>2, <2>5, Zenon
      DEF RecordFetch, Types, decrypt_vars
  <2>6. CASE RecordKeyId(c)  BY <1>0, <2>2, <2>6, Zenon
      DEF RecordKeyId, Types, decrypt_vars
  <2>7. CASE CountSplits(c)  BY <1>0, <2>2, <2>7, Zenon
      DEF CountSplits, Types, decrypt_vars
  <2>8. CASE FetchCallbackReturns(c)
    BY <1>0, <2>2, <2>8, Zenon DEF FetchCallbackReturns, Types, decrypt_vars
  <2>9. CASE DecryptReturns(c)
    BY <1>0, <2>2, <2>9, Zenon DEF DecryptReturns, Types, decrypt_vars
  <2>10. CASE EmptyFetch(c)
    <3>1. current'[c] = NULL  BY <2>10, Zenon DEF EmptyFetch, KeyInv, Fresh
    <3> QED  BY <1>0, <2>1, <2>2, <2>10, <3>1, Zenon DEF EmptyFetch, Types
  <2>11. ASSUME NEW k \in KeyId, BadKey(c, k) PROVE Alone(c, s)
    BY <1>0, <2>2, <2>11, Zenon DEF BadKey, TakeKey, Types, decrypt_vars
  <2>12. ASSUME NEW k \in KeyId, DecryptLater(c, k) PROVE Alone(c, s)
    BY <1>0, <2>2, <2>12, Zenon DEF DecryptLater, TakeKey, Types
  <2>13. ASSUME NEW k \in KeyId, NEW o \in call.kms, DecryptNow(c, k, o)
         PROVE  \E t \in Task : Alone(c, t)
    <3>1. PICK t \in Task : t = <<c, k>>  BY TaskOf
    <3>2. current'[c] = k  BY <2>13, Zenon DEF DecryptNow, MoreTypes
    <3>3. Alone(c, t)
      BY <1>0, <2>2, <2>13, <3>1, <3>2, Zenon DEF DecryptNow, TakeKey, Types
    <3> QED  BY <3>3, Zenon
  <2> HIDE DEF Alone
  <2> QED
    BY <1>3, <2>3, <2>4, <2>5, <2>6, <2>7, <2>8, <2>9, <2>10, <2>11, <2>12, <2>13, Zenon
       DEF FetchCallback
<1>4. ASSUME NEW t \in Task, DecryptCallback(t)
      PROVE  \E c \in Call : Alone(c, t)
  <2>1. UNCHANGED <<fpc, current>> /\ \A u \in Task : u # t => dpc'[u] = dpc[u]
    BY <1>0, <1>4, DecryptCallbackDoes, Zenon
  <2>2. CASE OnDecrypt(t)
    <3>1. \A u \in Task : u # t => dpc'[u] \in {"none", "pending", "done"}
      BY <2>1, <2>2, Zenon DEF OnDecrypt, MayStart
    <3>2. \A d \in Call : fpc'[d] \in {"unsent", "pending", "done"}
      BY <2>1, <2>2, Zenon DEF OnDecrypt, MayStart
    <3>3. t[1] \in Call /\ dpc'[t] = "check"  BY <1>0, <2>2, Tasks, Zenon
        DEF OnDecrypt, Types
    <3> QED  BY <3>1, <3>2, <3>3, Zenon
  <2>3. CASE ~OnDecrypt(t)
    <3> DEFINE Reads ==
          /\ dpc[t] \notin {"none", "pending", "done"}
          /\ dpc'[t] = "returned" => prev'[t] = finished' - 1
          /\ dpc'[t] = "total" => /\ dpc[t] = "returned" /\ returned' = CallCount
                                  /\ UNCHANGED <<prev, finished>>
          /\ dpc'[t] = "collect" => /\ dpc[t] = "total" /\ prev[t] = total - 1
                                    /\ UNCHANGED <<finished, total, returned>>
    <3>1. ASSUME CheckFailure(t) \/ StoreResult(t) \/ Collect(t) PROVE Reads
      BY <1>0, <3>1, Zenon DEF CheckFailure, StoreResult, Collect, Types
    <3>2. ASSUME ReadFinished(t) PROVE Reads
      BY <1>0, <3>2, Zenon
         DEF ReadFinished, PrevWhenEmpty, Types, MoreTypes, counter_vars
    <3>3. ASSUME CountDecrypt(t) PROVE Reads
      BY <1>0, <3>3 DEF CountDecrypt, Types, MoreTypes
    <3>4. ASSUME ReadReturned(t) \/ ReadTotal(t) PROVE Reads
      BY <1>0, <3>4, Zenon DEF ReadReturned, ReadTotal, Types, counter_vars
    <3>5. Reads  BY <1>4, <2>3, <3>1, <3>2, <3>3, <3>4, Zenon DEF DecryptCallback
    <3>6. PICK c \in Call :
             \A d \in Call : d # c => fpc[d] \in {"unsent", "pending", "done"}
      BY Tasks, Zenon DEF SeqInv
    <3>7. /\ \A u \in Task : u # t => dpc[u] \in {"none", "pending", "done"}
          /\ fpc[c] \notin {"unsent", "pending", "done"} =>
               fpc[c] = "decrypt" /\ t = <<c, current[c]>>
          /\ dpc[t] \in {"returned", "total"} => prev[t] = finished - 1
          /\ dpc[t] = "total" => returned = CallCount
      BY <3>5, Zenon DEF SeqInv
    <3>8. dpc'[t] = "collect" => finished' = total'  BY <3>5, <3>7 DEF MoreTypes
    <3> QED  BY <2>1, <3>5, <3>6, <3>7, <3>8, Zenon
  <2> QED  BY <2>2, <2>3, Zenon
<1> HIDE DEF Alone
<1> QED  BY <1>0, <1>1, <1>2, <1>3, <1>4, Zenon

-----------------------------------------------------------------------------
(* The records *)

\* Callbacks of Decrypt end what they begin.
LEMMA PastStays ==
  ASSUME IInv, MoreTypes, KeyInv, OneStep
  PROVE  \A t \in Task :
           /\ dpc[t] # "none" => dpc'[t] # "none"
           /\ dpc[t] \in Past => dpc'[t] \in Past
           /\ dpc[t] \notin {"none", "pending"} =>
                /\ dpc'[t] \notin {"none", "pending"} /\ decrypted'[t] = decrypted[t]
<1>0. /\ Types
      /\ \/ SendFetch \/ FetchRefused \/ ListReturns
         \/ \E c \in Call : FetchCallback(c)
         \/ \E t \in Task : DecryptCallback(t)
  BY Zenon DEF OneStep, CallStep, IInv
<1>1. ASSUME SendFetch \/ FetchRefused \/ ListReturns PROVE UNCHANGED <<dpc, decrypted>>
  BY <1>1, Zenon DEF SendFetch, FetchRefused, ListReturns, decrypt_vars
<1>2. ASSUME NEW c \in Call, FetchCallback(c), NEW t \in Task, dpc[t] # "none"
      PROVE  dpc'[t] = dpc[t] /\ decrypted'[t] = decrypted[t]
  BY <1>0, <1>2, FetchCallbackDoes, Zenon
<1>3. ASSUME NEW t \in Task, DecryptCallback(t)
      PROVE  /\ \A u \in Task : u # t => dpc'[u] = dpc[u] /\ decrypted'[u] = decrypted[u]
             /\ dpc[t] \in Past => dpc'[t] \in Past
             /\ dpc'[t] \notin {"none", "pending"}
             /\ dpc[t] # "pending" => decrypted'[t] = decrypted[t]
  BY <1>0, <1>3, DecryptCallbackDoes, Zenon
<1> QED  BY <1>0, <1>1, <1>2, <1>3, Zenon DEF Past

\* Fetches are recorded as they were answered.
LEMMA FetchRecordsStep ==
  ASSUME FetchRecords, call' = call, Kept,
         UNCHANGED fetch_results \/ \E c \in Call : RecordFetch(c)
  PROVE  FetchRecords'
<1> USE SameCalls DEF FetchRecords
<1>1. CASE UNCHANGED fetch_results  BY <1>1, Zenon DEF Kept
<1>2. ASSUME NEW c \in Call, RecordFetch(c) PROVE FetchRecords'
  <2> DEFINE j == IF ByKeyId THEN KeyOf(c) ELSE NULL
             f == [fetch_results EXCEPT ![UriIndex(c)][j] = answer[c].ok]
  <2>1. fetch_results' = f /\ Returned(c)  BY <1>2, Zenon DEF RecordFetch, Returned
  <2> HIDE DEF j
  <2>2. /\ DOMAIN f = Endpoint /\ \A e \in Endpoint : DOMAIN f[e] = KeyId \cup {NULL}
        /\ \A e \in Endpoint, k \in KeyId \cup {NULL} :
             f[e][k] = fetch_results[e][k] \/ f[e][k] = answer[c].ok
    BY Zenon
  <2> HIDE DEF f
  <2>3. ASSUME NEW e \in Endpoint, NEW k \in KeyId \cup {NULL}, f[e][k] = FALSE
        PROVE  \E d \in Call : Returned(d)' /\ ~answer'[d].ok
    <3>1. CASE f[e][k] = fetch_results[e][k]  BY <2>3, <3>1, Zenon DEF Kept
    <3>2. CASE f[e][k] = answer[c].ok  BY <2>1, <2>3, <3>2, Zenon DEF Kept
    <3> QED  BY <2>2, <3>1, <3>2, Zenon
  <2>4. \A e \in Endpoint : \A k \in KeyId \cup {NULL} :
          fetch_results'[e][k] = FALSE => \E d \in Call : Returned(d)' /\ ~answer'[d].ok
    BY <2>1, <2>3, Zenon
  <2> QED  BY <2>1, <2>2, <2>4, Zenon
<1> HIDE DEF FetchRecords
<1> QED  BY <1>1, <1>2, Zenon

\* Splits are stored as they were answered and decrypted.
LEMMA SplitRecordsStep ==
  ASSUME IInv, MoreTypes, SplitRecords, call' = call, Kept,
         UNCHANGED decrypt_results \/ \E t \in Task : StoreResult(t),
         \A t \in Task : dpc[t] \in Past => /\ dpc'[t] \in Past
                                            /\ decrypted'[t] = decrypted[t]
  PROVE  SplitRecords'
<1>0. Types /\ Held /\ Call' = Call /\ Endpoint' = Endpoint
      /\ \A c : UriIndex(c)' = UriIndex(c)
  BY SameCalls, Zenon DEF IInv
<1>1. ASSUME NEW e \in Endpoint, NEW k \in KeyId, decrypt_results'[e][k] # NULL
      PROVE  \E c \in Call :
               /\ UriIndex(c) = e /\ Has(c, k)' /\ dpc'[<<c, k>>] \in Past
               /\ answer'[c].keys[k] = decrypt_results'[e][k].kind
               /\ decrypted'[<<c, k>>] = decrypt_results'[e][k].ok
  <2>1. CASE decrypt_results'[e][k] = decrypt_results[e][k]
    <3>1. PICK c \in Call : /\ UriIndex(c) = e /\ Has(c, k) /\ dpc[<<c, k>>] \in Past
                            /\ answer[c].keys[k] = decrypt_results[e][k].kind
                            /\ decrypted[<<c, k>>] = decrypt_results[e][k].ok
      BY <1>1, <2>1, Zenon DEF SplitRecords
    <3>2. <<c, k>> \in Task  BY Tasks, Zenon
    <3>3. /\ dpc'[<<c, k>>] \in Past /\ decrypted'[<<c, k>>] = decrypted[<<c, k>>]
      BY <3>1, <3>2, Zenon
    <3>4. Has(c, k)' /\ answer'[c] = answer[c]  BY <3>1, Zenon DEF Has, Kept
    <3> QED  BY <2>1, <3>1, <3>3, <3>4, Zenon
  <2>2. CASE decrypt_results'[e][k] # decrypt_results[e][k]
    <3>1. PICK t \in Task : StoreResult(t)  BY <2>2, Zenon
    <3>2. PICK c \in Call, j \in KeyId \cup {NULL} : t = <<c, j>>  BY DEF Task
    <3>3. /\ dpc[t] = "store" /\ j # NULL /\ dpc' = [dpc EXCEPT ![t] = "add"]
          /\ decrypt_results' =
               [decrypt_results EXCEPT ![UriIndex(c)][j] =
                  [kind |-> answer[c].keys[j], ok |-> decrypted[t]]]
          /\ decrypted' = decrypted
      BY <3>1, <3>2, Zenon DEF StoreResult
    <3>4. j = k /\ UriIndex(c) = e
          /\ decrypt_results'[e][k] = [kind |-> answer[c].keys[k], ok |-> decrypted[t]]
      BY <1>0, <2>2, <3>3, Uris, Zenon DEF Types
    <3>5. Has(c, k) /\ dpc'[t] = "add"  BY <1>0, <3>2, <3>3, <3>4, Zenon DEF Held, Types
    <3>6. Has(c, k)' /\ answer'[c] = answer[c]  BY <3>5, Zenon DEF Has, Kept
    <3> QED  BY <3>2, <3>3, <3>4, <3>5, <3>6 DEF Past
  <2> QED  BY <2>1, <2>2, Zenon
<1> QED  BY <1>0, <1>1, Zenon DEF SplitRecords

\* The ids stay recorded.
LEMMA IdRecordsStep ==
  ASSUME IInv, MoreTypes, KeyInv, IdRecords, OneStep
  PROVE  IdRecords'
<1> DEFINE
      Past1(c) == fpc[c] \in {"branch", "keys", "decrypt"}
      Ids(K) ==
        /\ key_id_set' = key_id_set \cup K
        /\ ByKeyId => \A k \in K : \E d \in Call : KeyOf(d) = k
        /\ \A d \in Call : fpc'[d] \in {"branch", "keys", "decrypt"} =>
             Past1(d) \/ ~ByKeyId \/ KeyOf(d) \in K
        /\ \A t \in Task : dpc'[t] # "none" =>
             \/ dpc[t] # "none"
             \/ Past1(t[1]) /\ (ByKeyId \/ t[2] = NULL \/ t[2] \in K)
<1>0. /\ call' = call /\ Types
      /\ \/ SendFetch \/ FetchRefused \/ ListReturns
         \/ \E c \in Call : FetchCallback(c)
         \/ \E t \in Task : DecryptCallback(t)
  BY Zenon DEF OneStep, CallStep, IInv
<1>1. ASSUME NEW K, Ids(K) PROVE IdRecords'
  <2>1. UNCHANGED <<Call, ByKeyId>> /\ \A c : KeyOf(c)' = KeyOf(c)
    BY <1>0, SameCalls, SameRequest, Zenon
  <2>2. ASSUME NEW c \in Call, NEW k \in KeyId \cup {NULL},
               dpc'[<<c, k>>] # "none" \/ fpc'[c] \in {"branch", "keys", "decrypt"}
        PROVE  /\ ByKeyId => KeyOf(c) \in key_id_set'
               /\ ~ByKeyId /\ k # NULL /\ dpc'[<<c, k>>] # "none" => k \in key_id_set'
    <3>1. PICK t \in Task : t = <<c, k>> /\ t[1] = c /\ t[2] = k  BY TaskOf
    <3>2. /\ dpc[t] # "none" \/ Past1(c) => (ByKeyId => KeyOf(c) \in key_id_set)
          /\ ~ByKeyId /\ k # NULL /\ dpc[t] # "none" => k \in key_id_set
      BY <3>1, Zenon DEF IdRecords
    <3> QED  BY <1>1, <2>2, <3>1, <3>2, Zenon
  <2>3. ByKeyId => \A k \in key_id_set' : \E c \in Call : KeyOf(c) = k
    BY <1>1, Zenon DEF IdRecords
  <2> QED  BY <2>1, <2>2, <2>3, Zenon DEF IdRecords
<1>2. ASSUME SendFetch \/ FetchRefused \/ ListReturns PROVE Ids({})
  BY <1>0, <1>2, Zenon
     DEF SendFetch, FetchRefused, ListReturns, Types, fetch_vars, decrypt_vars,
       result_vars
<1>3. ASSUME NEW c \in Call, FetchCallback(c) PROVE \E K : Ids(K)
  <2>1. ASSUME \/ OnFetch(c) \/ CountFetch(c) \/ RecordFetch(c)
        PROVE  Ids({})
    BY <1>0, <2>1, Zenon
       DEF OnFetch, CountFetch, RecordFetch, Types, decrypt_vars, result_vars
  <2>2. ASSUME CountSplits(c) \/ DecryptReturns(c) \/ FetchCallbackReturns(c)
        PROVE  Ids({})
    BY <1>0, <2>2, Zenon DEF CountSplits, DecryptReturns, FetchCallbackReturns, Types,
         decrypt_vars, result_vars
  <2>3. ASSUME RecordKeyId(c) PROVE Ids({KeyOf(c)})
    BY <1>0, <2>3, Zenon DEF RecordKeyId, Types, decrypt_vars
  <2>4. ASSUME EmptyFetch(c) PROVE Ids({})
    <3>1. PICK s \in Task : s = <<c, NULL>> /\ s[1] = c /\ s[2] = NULL  BY TaskOf, Zenon
    <3> QED  BY <1>0, <2>4, <3>1, Zenon DEF EmptyFetch, Types, result_vars
  <2>5. ASSUME NEW k \in KeyId, \/ BadKey(c, k) \/ DecryptLater(c, k)
                                \/ \E o : DecryptNow(c, k, o)
        PROVE  Ids(IF ByKeyId THEN {} ELSE {k})
    <3>1. PICK s \in Task : s = <<c, k>> /\ s[1] = c /\ s[2] = k  BY TaskOf, Zenon
    <3>2. /\ fpc[c] = "keys" /\ \A d \in Call : d # c => fpc'[d] = fpc[d]
          /\ key_id_set' = key_id_set \cup (IF ByKeyId THEN {} ELSE {k})
      BY <1>0, <2>5, Zenon DEF BadKey, DecryptLater, DecryptNow, TakeKey, Types
    <3>3. \A u \in Task : u # s => dpc'[u] = dpc[u]
      BY <1>0, <2>5, <3>1, Zenon
         DEF BadKey, DecryptLater, DecryptNow, Types, decrypt_vars
    <3> QED  BY <3>1, <3>2, <3>3, Zenon
  <2> HIDE DEF Ids
  <2> QED  BY <1>3, <2>1, <2>2, <2>3, <2>4, <2>5, Zenon DEF FetchCallback
<1>4. ASSUME NEW t \in Task, DecryptCallback(t) PROVE Ids({})
  <2>1. /\ UNCHANGED <<fpc, key_id_set>> /\ dpc[t] # "none"
        /\ \A u \in Task : u # t => dpc'[u] = dpc[u]
    BY <1>0, <1>4, DecryptCallbackDoes, Zenon
  <2> QED  BY <2>1, Zenon
<1> HIDE DEF Ids
<1> QED  BY <1>0, <1>1, <1>2, <1>3, <1>4, Zenon

\* Every step keeps the records.
LEMMA RecordStep ==
  ASSUME IInv, MoreTypes, KeyInv, RecordInv, OneStep PROVE RecordInv'
<1>0. /\ call' = call /\ Types /\ Kept
      /\ \/ SendFetch \/ FetchRefused \/ ListReturns
         \/ \E c \in Call : FetchCallback(c)
         \/ \E t \in Task : DecryptCallback(t)
  BY StepKeeps, Zenon DEF OneStep, CallStep, IInv
<1>1. ASSUME SendFetch \/ FetchRefused \/ ListReturns
      PROVE  UNCHANGED <<fetch_results, decrypt_results>>
  BY <1>1, Zenon DEF SendFetch, FetchRefused, ListReturns, result_vars
<1>2. ASSUME NEW t \in Task, DecryptCallback(t)
      PROVE  UNCHANGED fetch_results /\ (UNCHANGED decrypt_results \/ StoreResult(t))
  BY <1>0, <1>2, DecryptCallbackDoes, Zenon
<1>3. UNCHANGED fetch_results \/ \E c \in Call : RecordFetch(c)
  BY <1>0, <1>1, <1>2, FetchCallbackDoes, Zenon
<1>4. UNCHANGED decrypt_results \/ \E t \in Task : StoreResult(t)
  BY <1>0, <1>1, <1>2, FetchCallbackDoes, Zenon
<1>5. FetchRecords'  BY <1>0, <1>3, FetchRecordsStep, Zenon DEF RecordInv
<1>6. \A t \in Task : dpc[t] \in Past => dpc'[t] \in Past /\ decrypted'[t] = decrypted[t]
  BY PastStays, Zenon DEF Past
<1>7. SplitRecords'  BY <1>0, <1>4, <1>6, SplitRecordsStep, Zenon DEF RecordInv
<1>8. IdRecords'  BY IdRecordsStep, Zenon DEF RecordInv
<1> QED  BY <1>5, <1>7, <1>8, Zenon DEF RecordInv

-----------------------------------------------------------------------------
(* What a response says *)

\* Every fetch returned and every split was stored: see AtCollect.
AllIn ==
  /\ \A c \in Call : Returned(c) /\ Handled(c) /\ fpc[c] \in {"decrypt", "done"}
  /\ \A c \in Call : \A k \in DOMAIN answer[c].keys :
       dpc[<<c, k>>] \in Past /\ decrypt_results[UriIndex(c)][k] # NULL

\* By max age there is one call for each endpoint.
LEMMA OneCallEach ==
  ASSUME Types, ~ByKeyId, NEW c \in Call PROVE UriIndex(c) = c /\ Call = Endpoint
<1>1. EndpointCount \in Nat \ {0}  BY CallAssumption, Zenon
<1>2. CallCount = EndpointCount  BY <1>1 DEF CallCount
<1>3. Call = Endpoint  BY <1>2, Zenon DEF Call, Endpoint
<1>4. c \in 1..EndpointCount  BY <1>2, Zenon DEF Call
<1>5. (c - 1) % EndpointCount = c - 1  BY <1>1, <1>4
<1> QED  BY <1>3, <1>4, <1>5 DEF UriIndex

\* By max age a stored split is the one that its endpoint answered.
LEMMA StoredAnswer ==
  ASSUME IInv, ~ByKeyId, AllIn, NEW c \in Call, NEW k \in KeyId, Has(c, k)
  PROVE  /\ c \in Endpoint /\ decrypt_results[c][k] # NULL
         /\ decrypt_results[c][k].kind = answer[c].keys[k]
<1> USE DEF IInv
<1>1. UriIndex(c) = c /\ Call = Endpoint  BY OneCallEach, Zenon
<1>2. decrypt_results[c][k] # NULL  BY <1>1, Zenon DEF AllIn, Has
<1>3. PICK d \in Call : UriIndex(d) = c /\ answer[d].keys[k] = decrypt_results[c][k].kind
  BY <1>1, <1>2, Zenon DEF Stored
<1>4. d = c  BY <1>3, OneCallEach, Zenon
<1> QED  BY <1>1, <1>2, <1>3, <1>4, Zenon

\* No key that can be put together is left out of the response.
LEMMA UsableCollected ==
  ASSUME IInv, MoreTypes, KeyInv, RecordInv, AllIn, NEW k \in KeyId, Usable(k)
  PROVE  k \in key_id_set /\ ~LeftOut(k)
<1> USE DEF IInv
<1>1. PICK c \in Call : Has(c, k)
  <2>1. 1 \in Endpoint  BY CallAssumption DEF Endpoint
  <2> QED  BY <2>1, Zenon DEF Usable, Has
<1>2. dpc[<<c, k>>] # "none" /\ k \in KeyId \cup {NULL} /\ k # NULL
  BY <1>1, Tasks, Zenon DEF AllIn, Has, Past
<1>3. k \in key_id_set
  <2>1. CASE ByKeyId
    <3>1. k = KeyOf(c)  BY <1>1, <2>1, AnswerKeys, Zenon DEF Has, KeyInv
    <3> QED  BY <1>2, <2>1, <3>1, Zenon DEF RecordInv, IdRecords
  <2>2. CASE ~ByKeyId  BY <1>2, <2>2, Zenon DEF RecordInv, IdRecords
  <2> QED  BY <2>1, <2>2, Zenon
<1>4. ASSUME LeftOut(k) PROVE FALSE
  <2>1. ~ByKeyId /\ ExtractSinglePartyKey(k) = {} /\ Unmatched(k)
    BY <1>4, Zenon DEF LeftOut, LogsMismatch
  <2>2. CASE \E d \in Call : /\ Returned(d) /\ k \in DOMAIN answer[d].keys
                             /\ answer[d].keys[k] = "single"
    <3>1. PICK d \in Call : Has(d, k) /\ answer[d].keys[k] = "single"
      BY <2>2, Zenon DEF Has
    <3>2. d \in ExtractSinglePartyKey(k)
      BY <2>1, <3>1, StoredAnswer, Zenon DEF ExtractSinglePartyKey, Splits
    <3> QED  BY <2>1, <3>2, Zenon
  <2>3. CASE \A e \in Endpoint : \E d \in Call :
               /\ UriIndex(d) = e /\ Returned(d) /\ k \in DOMAIN answer[d].keys
               /\ answer[d].keys[k] \in {"split", "odd"}
    <3>1. PICK e \in Endpoint :
            e \notin Splits(k) \/ decrypt_results[e][k].kind \notin {"split", "odd"}
      BY <2>1, Zenon DEF Unmatched
    <3>2. PICK d \in Call : /\ UriIndex(d) = e /\ Has(d, k)
                            /\ answer[d].keys[k] \in {"split", "odd"}
      BY <2>3, Zenon DEF Has
    <3>3. d = e  BY <2>1, <3>2, OneCallEach, Zenon
    <3> QED  BY <2>1, <3>1, <3>2, <3>3, StoredAnswer DEF Splits
  <2> QED  BY <2>2, <2>3, Zenon DEF Usable
<1> QED  BY <1>3, <1>4, Zenon

\* By key id the id of every call is recorded.
LEMMA AskedRecorded ==
  ASSUME IInv, MoreTypes, KeyInv, RecordInv, AllIn, ByKeyId, NEW c \in Call
  PROVE  KeyOf(c) \in key_id_set
<1> USE DEF IInv
<1>1. CASE DOMAIN answer[c].keys = {}
  <2>1. dpc[<<c, NULL>>] # "none"  BY <1>1, Zenon DEF AllIn, Handled
  <2> QED  BY <2>1, Zenon DEF RecordInv, IdRecords
<1>2. CASE DOMAIN answer[c].keys # {}
  <2>1. PICK k \in DOMAIN answer[c].keys : TRUE  BY <1>2, Zenon
  <2>2. k \in KeyId /\ dpc[<<c, k>>] # "none"
    BY AnswerKeys, Zenon DEF AllIn, KeyInv, Past
  <2> QED  BY <2>2, Zenon DEF RecordInv, IdRecords
<1> QED  BY <1>1, <1>2, Zenon

\* What a successful response must say.
Complete(K) == /\ \A c \in Call : Returned(c)
               /\ K = {k \in KeyId : Usable(k)}
               /\ \A c \in Call : ByKeyId => KeyOf(c) \in K

\* Once every fetch has returned, no key becomes usable.
LEMMA CompleteStays ==
  ASSUME call' = call, Kept, NEW K, Complete(K) PROVE Complete(K)'
<1> USE SameCalls, SameRequest
<1>1. \A c \in Call : Returned(c)' /\ Returned(c) /\ answer'[c] = answer[c]
  BY Zenon DEF Complete, Kept
<1>2. ASSUME NEW k \in KeyId PROVE Usable(k)' <=> Usable(k)  BY <1>1, Zenon DEF Usable
<1> QED  BY <1>1, <1>2 DEF Complete

\* The keys that are collected are complete.
LEMMA CollectsComplete ==
  ASSUME IInv, MoreTypes, KeyInv, RecordInv, AllIn, \A k \in key_id_set : ~Fails(k)
  PROVE  Complete({k \in key_id_set : ~LeftOut(k)})
<1> DEFINE K == {k \in key_id_set : ~LeftOut(k)}
<1>1. K \subseteq KeyId  BY Zenon DEF IInv, Types
<1>2. \A k \in K : Usable(k)  BY <1>1, CollectedUsable, Zenon
<1>3. \A k \in KeyId : Usable(k) => k \in K  BY UsableCollected, Zenon
<1>4. \A c \in Call : ByKeyId => KeyOf(c) \in K  BY AskedRecorded, Zenon DEF LeftOut
<1> HIDE DEF K
<1>5. Complete(K)  BY <1>1, <1>2, <1>3, <1>4, Zenon DEF Complete, AllIn
<1> QED  BY <1>5, Zenon DEF K

CompleteInv == \A i \in DOMAIN finishes : finishes[i].ok => Complete(finishes[i].keys)

\* What is collected goes into one response.
LEMMA CompleteCollects ==
  ASSUME IInv, MoreTypes, KeyInv, RecordInv, CompleteInv,
         \A t \in Task : dpc[t] = "collect" => AllIn,
         call' = call, Kept, NEW t \in Task, Collect(t)
  PROVE  CompleteInv'
<1> DEFINE K == {k \in key_id_set : ~LeftOut(k)}
<1>1. AllIn
  <2>1. dpc[t] = "collect"  BY Zenon DEF Collect
  <2> QED  BY <2>1, Zenon
<1>2. \/ finishes' = finishes \/ finishes' = Append(finishes, Failure)
      \/ finishes' = Append(finishes, Success(K)) /\ \A k \in key_id_set : ~Fails(k)
  BY Zenon DEF Collect
<1>3. (\A k \in key_id_set : ~Fails(k)) => Complete(K)  BY <1>1, CollectsComplete, Zenon
<1> HIDE DEF K
<1>4. finishes \in Seq([ok : BOOLEAN, keys : SUBSET KeyId])  BY Zenon DEF IInv, Types
<1>5. ASSUME NEW i \in DOMAIN finishes', finishes'[i].ok
      PROVE  Complete(finishes'[i].keys)
  <2>1. CASE i \in DOMAIN finishes /\ finishes'[i] = finishes[i]
    BY <1>5, <2>1, Zenon DEF CompleteInv
  <2>2. CASE finishes'[i] = Failure  BY <1>5, <2>2 DEF Failure
  <2>3. CASE finishes'[i] = Success(K) /\ Complete(K)  BY <2>3 DEF Success
  <2> QED  BY <1>2, <1>3, <1>4, <1>5, <2>1, <2>2, <2>3
<1>6. ASSUME NEW i \in DOMAIN finishes', finishes'[i].ok
      PROVE  Complete(finishes[i].keys)'
  <2>1. PICK J : J = finishes'[i].keys  BY Zenon
  <2>2. Complete(J)'  BY <1>5, <1>6, <2>1, CompleteStays, Zenon
  <2> QED  BY <2>1, <2>2, Zenon DEF Complete
<1> QED  BY <1>6, Zenon DEF CompleteInv

\* A failure adds no response that must be complete.
LEMMA CompleteFrame ==
  ASSUME IInv, CompleteInv, call' = call, Kept,
         finishes' = finishes \/ finishes' = Append(finishes, Failure)
  PROVE  CompleteInv'
<1>1. finishes \in Seq([ok : BOOLEAN, keys : SUBSET KeyId])  BY Zenon DEF IInv, Types
<1>2. ASSUME NEW i \in DOMAIN finishes', finishes'[i].ok
      PROVE  i \in DOMAIN finishes /\ finishes'[i] = finishes[i]
  <2>1. CASE finishes' = finishes  BY <1>2, <2>1, Zenon
  <2>2. CASE finishes' = Append(finishes, Failure)  BY <1>1, <1>2, <2>2 DEF Failure
  <2> QED  BY <2>1, <2>2, Zenon
<1>3. ASSUME NEW i \in DOMAIN finishes', finishes'[i].ok
      PROVE  Complete(finishes[i].keys)'
  <2>1. PICK J : J = finishes[i].keys  BY Zenon
  <2>2. Complete(J)  BY <1>2, <1>3, <2>1, Zenon DEF CompleteInv
  <2>3. Complete(J)'  BY <2>2, CompleteStays, Zenon
  <2>4. finishes'[i].keys = J  BY <1>2, <1>3, <2>1, Zenon
  <2> QED  BY <2>3, <2>4, Zenon DEF Complete
<1> QED  BY <1>3, Zenon DEF CompleteInv

\* Responses stay complete.
LEMMA CompleteStep ==
  ASSUME IInv, MoreTypes, KeyInv, RecordInv, CompleteInv, OneStep,
         \A t \in Task : dpc[t] = "collect" => AllIn
  PROVE  CompleteInv'
<1>0. /\ call' = call /\ Types /\ Kept
      /\ \/ SendFetch \/ FetchRefused \/ ListReturns
         \/ \E c \in Call : FetchCallback(c)
         \/ \E t \in Task : DecryptCallback(t)
  BY StepKeeps, Zenon DEF OneStep, CallStep, IInv
<1>1. CASE finishes' = finishes \/ FinishOnFailure
  <2>1. finishes' = finishes \/ finishes' = Append(finishes, Failure)
    BY <1>1, Zenon DEF FinishOnFailure
  <2> QED  BY <1>0, <2>1, CompleteFrame, Zenon
<1>2. ASSUME SendFetch \/ FetchRefused \/ ListReturns
      PROVE  finishes' = finishes \/ FinishOnFailure
  BY <1>2, Zenon DEF SendFetch, FetchRefused, ListReturns, finish_vars
<1>3. ASSUME NEW c \in Call, FetchCallback(c)
      PROVE  finishes' = finishes \/ FinishOnFailure
  BY <1>0, <1>3, FetchCallbackDoes, Zenon
<1>4. ASSUME NEW t \in Task, DecryptCallback(t) PROVE Collect(t) \/ finishes' = finishes
  BY <1>0, <1>4, DecryptCallbackDoes, Zenon
<1>5. ASSUME NEW t \in Task, Collect(t) PROVE CompleteInv'
  BY <1>0, <1>5, CompleteCollects, Zenon
<1> QED  BY <1>0, <1>1, <1>2, <1>3, <1>4, <1>5, Zenon

-----------------------------------------------------------------------------
(* What a failure says *)

\* What FailureJustified says of a failure, see there.
Cause ==
  \/ lpc = "error"
  \/ \E c \in Call : Returned(c) /\
       \/ ~answer[c].ok
       \/ ByKeyId /\ DOMAIN answer[c].keys = {}
       \/ \E k \in DOMAIN answer[c].keys :
            \/ answer[c].keys[k] \in {"bad", "odd", "short"}
            \/ /\ dpc[<<c, k>>] \notin {"none", "pending"}
               /\ ~decrypted[<<c, k>>]
CauseInv == \A i \in DOMAIN finishes : ~finishes[i].ok => Cause

\* Quotient and remainder are unique.
LEMMA Division ==
  ASSUME NEW E \in Nat \ {0}, NEW q \in Nat, NEW r \in 0..(E - 1)
  PROVE  (q * E + r) \div E = q /\ (q * E + r) % E = r
<1> DEFINE n == q * E + r
           Q == n \div E
           R == n % E
<1>1. n \in Nat /\ q * E \in Nat  OBVIOUS
<1>2. Q \in Nat /\ R \in 0..(E - 1) /\ n = E * Q + R  BY <1>1
<1>3. n = q * E + r  BY Zenon
<1> HIDE DEF n, Q, R
<1>4. ~(q < Q)
  <2> SUFFICES ASSUME q < Q PROVE FALSE  BY Zenon
  <2>1. PICK d \in Nat : Q = q + 1 + d  BY <1>2
  <2>2. E * Q = q * E + E + E * d /\ E * d \in Nat  BY <2>1
  <2> QED  BY <1>1, <1>2, <1>3, <2>2
<1>5. ~(Q < q)
  <2> SUFFICES ASSUME Q < q PROVE FALSE  BY Zenon
  <2>1. PICK d \in Nat : q = Q + 1 + d  BY <1>2
  <2>2. q * E = E * Q + E + E * d /\ E * d \in Nat /\ E * Q \in Nat  BY <1>2, <2>1
  <2> QED  BY <1>1, <1>2, <1>3, <2>2
<1>6. Q = q  BY <1>2, <1>4, <1>5
<1>7. R = r  BY <1>1, <1>2, <1>3, <1>6
<1> QED  BY <1>6, <1>7, Zenon DEF n, Q, R

\* By key id every key is fetched from every endpoint.
LEMMA AskedEverywhere ==
  ASSUME Types, ByKeyId, NEW c \in Call, NEW e \in Endpoint
  PROVE  \E d \in Call : UriIndex(d) = e /\ KeyOf(d) = KeyOf(c)
<1> DEFINE L == Len(call.key_ids)
           E == EndpointCount
           q == (c - 1) \div E
           d == q * E + e
<1>1. call.key_ids \in Seq(KeyId)  BY ScenarioAssumption, Zenon DEF Types, Scenarios
<1>2. E \in Nat \ {0} /\ L \in Nat /\ Call = 1..(L * E) /\ e \in 1..E
  BY <1>1, CallAssumption DEF Call, CallCount, Endpoint
<1>3. c - 1 \in Nat /\ c - 1 < L * E
  <2>1. c \in 1..(L * E) /\ L * E \in Nat  BY <1>2
  <2> QED  BY <2>1
<1> HIDE DEF L, E
<1>4. q \in 0..(L - 1)  BY <1>2, <1>3, Quotients, Zenon
<1>5. q \in Nat /\ e - 1 \in 0..(E - 1)  BY <1>2, <1>4
<1>6. (q * E + (e - 1)) \div E = q /\ (q * E + (e - 1)) % E = e - 1
  BY <1>2, <1>5, Division, Zenon
<1>7. q * E \in Nat /\ q * E + E <= L * E
  <2> HIDE DEF q
  <2>1. PICK m \in Nat : L = q + 1 + m  BY <1>2, <1>4
  <2>2. L * E = q * E + E + m * E /\ m * E \in Nat /\ q * E \in Nat  BY <1>2, <1>5, <2>1
  <2> QED  BY <1>2, <2>2
<1>8. d \in 1..(L * E) /\ d - 1 = q * E + (e - 1)
  <2>1. L * E \in Nat  BY <1>2
  <2> HIDE DEF q
  <2> QED  BY <1>2, <1>5, <1>7, <2>1
<1>9. (d - 1) \div E = q /\ (d - 1) % E = e - 1  BY <1>6, <1>8, Zenon
<1>10. UriIndex(d) = e
  <2>1. UriIndex(d) = 1 + (e - 1)  BY <1>9, Zenon DEF UriIndex, E
  <2> QED  BY <1>2, <2>1
<1>11. KeyOf(d) = KeyOf(c)  BY <1>9, Zenon DEF KeyOf, E
<1> QED  BY <1>2, <1>8, <1>10, <1>11, Zenon

\* A cause does not go away.
LEMMA CauseStays ==
  ASSUME IInv, MoreTypes, KeyInv, call' = call, Kept, lpc = "error" => lpc' = "error",
         \A t \in Task : dpc[t] \notin {"none", "pending"} =>
           dpc'[t] \notin {"none", "pending"} /\ decrypted'[t] = decrypted[t],
         Cause
  PROVE  Cause'
<1> USE SameCalls, SameRequest DEF IInv
<1>1. CASE lpc = "error"  BY <1>1, Zenon DEF Cause
<1>2. ASSUME NEW c \in Call, Returned(c),
             ~answer[c].ok \/ (ByKeyId /\ DOMAIN answer[c].keys = {})
      PROVE  Cause'
  BY <1>2, Zenon DEF Kept, Cause
<1>3. ASSUME NEW c \in Call, Returned(c), NEW k \in DOMAIN answer[c].keys,
             \/ answer[c].keys[k] \in {"bad", "odd", "short"}
             \/ /\ dpc[<<c, k>>] \notin {"none", "pending"} /\ ~decrypted[<<c, k>>]
      PROVE  Cause'
  <2>1. <<c, k>> \in Task
    <3>1. answer[c] \in Answers(c)  BY <1>3, Zenon DEF KeyInv
    <3>2. k \in KeyId  BY <1>3, <3>1, AnswerKeys, Zenon
    <3> QED  BY <3>2, Tasks, Zenon
  <2>2. Returned(c)' /\ answer'[c] = answer[c]  BY <1>3, Zenon DEF Kept
  <2>3. dpc[<<c, k>>] \notin {"none", "pending"} =>
          /\ dpc'[<<c, k>>] \notin {"none", "pending"}
          /\ decrypted'[<<c, k>>] = decrypted[<<c, k>>]
    BY <2>1, Zenon
  <2> QED  BY <1>3, <2>2, <2>3, Zenon DEF Cause
<1> QED  BY <1>1, <1>2, <1>3, Zenon DEF Cause

\* A stored split that is not a good one is a cause.
LEMMA BadSplit ==
  ASSUME IInv, KeyInv, RecordInv, NEW e \in Endpoint, NEW k \in KeyId,
         decrypt_results[e][k] # NULL,
         \/ ~decrypt_results[e][k].ok
         \/ decrypt_results[e][k].kind \notin {"split", "single"}
  PROVE  Cause
<1>1. PICK c \in Call : /\ Has(c, k) /\ dpc[<<c, k>>] \in Past
                        /\ answer[c].keys[k] = decrypt_results[e][k].kind
                        /\ decrypted[<<c, k>>] = decrypt_results[e][k].ok
  BY Zenon DEF RecordInv, SplitRecords
<1>2. answer[c].keys[k] \in Kinds  BY <1>1, AnswerKeys, Zenon DEF IInv, KeyInv, Has
<1>3. dpc[<<c, k>>] \notin {"none", "pending"}  BY <1>1, Zenon DEF Past
<1>4. CASE ~decrypt_results[e][k].ok  BY <1>1, <1>3, <1>4, Zenon DEF Cause, Has
<1>5. CASE decrypt_results[e][k].kind \notin {"split", "single"}
  <2>1. answer[c].keys[k] \in {"bad", "odd", "short"}  BY <1>1, <1>2, <1>5, Zenon
      DEF Kinds
  <2> QED  BY <1>1, <2>1, Zenon DEF Cause, Has
<1> QED  BY <1>4, <1>5, Zenon

\* Steps that report no failure, or one with a cause.
LEMMA CauseFrame ==
  ASSUME IInv, CauseInv, Cause => Cause',
         \/ finishes' = finishes
         \/ finishes' = Append(finishes, Failure) /\ Cause'
         \/ \E K : finishes' = Append(finishes, Success(K))
  PROVE  CauseInv'
<1>1. finishes \in Seq([ok : BOOLEAN, keys : SUBSET KeyId])  BY Zenon DEF IInv, Types
<1>2. CASE finishes' = finishes  BY <1>2, Zenon DEF CauseInv
<1>3. CASE Cause'  BY <1>3, Zenon DEF CauseInv
<1>4. ASSUME NEW K, finishes' = Append(finishes, Success(K)) PROVE CauseInv'
  <2> DEFINE r == Success(K)
  <2>1. r.ok = TRUE  BY Zenon DEF Success
  <2> HIDE DEF r
  <2>2. ASSUME NEW i \in DOMAIN finishes', ~finishes'[i].ok PROVE Cause
    <3>1. CASE i \in DOMAIN finishes
      <4>1. finishes'[i] = finishes[i]  BY <1>1, <1>4, <3>1 DEF r
      <4> QED  BY <2>2, <3>1, <4>1, Zenon DEF CauseInv
    <3>2. CASE i \notin DOMAIN finishes
      <4>1. finishes' = Append(finishes, r)  BY <1>4, Zenon DEF r
      <4>2. finishes'[i] = r  BY <1>1, <2>2, <3>2, <4>1
      <4> QED  BY <2>1, <2>2, <4>2, Zenon
    <3> QED  BY <3>1, <3>2, Zenon
  <2> QED  BY <2>2, Zenon DEF CauseInv
<1> QED  BY <1>2, <1>3, <1>4, Zenon

\* Endpoints are numbered, so one of them is the first to have a single-party key.
Least == \A S \in SUBSET Nat : S # {} => (CHOOSE d \in S : \A x \in S : d <= x) \in S

\* A key that makes ListPrivateKeys fail has a cause.
LEMMA FailsForCause ==
  ASSUME IInv, MoreTypes, KeyInv, RecordInv, AllIn, Least,
         NEW k \in key_id_set, Fails(k)
  PROVE  Cause
<1> USE DEF IInv
<1>0. k \in KeyId  BY Zenon DEF Types
<1> USE <1>0
<1>1. CASE ExtractAnyFailure(k)
  <2>1. PICK e \in Endpoint : \/ fetch_results[e][NULL] = FALSE
                              \/ fetch_results[e][k] = FALSE
                              \/ e \in Splits(k) /\ ~decrypt_results[e][k].ok
    BY <1>1, Zenon DEF ExtractAnyFailure
  <2>2. CASE fetch_results[e][NULL] = FALSE \/ fetch_results[e][k] = FALSE
    <3>1. \E c \in Call : Returned(c) /\ ~answer[c].ok
      BY <2>2, Zenon DEF RecordInv, FetchRecords
    <3> QED  BY <3>1, Zenon DEF Cause
  <2>3. CASE e \in Splits(k) /\ ~decrypt_results[e][k].ok  BY <2>3, BadSplit, Zenon
      DEF Splits
  <2> QED  BY <2>1, <2>2, <2>3, Zenon
<1>2. CASE /\ ExtractSinglePartyKey(k) = {} /\ ~ExtractAnyFailure(k) /\ Unmatched(k)
  <2>1. ByKeyId  BY <1>2, Zenon DEF Fails, LeftOut, LogsMismatch
  <2>2. PICK e \in Endpoint :
          e \notin Splits(k) \/ decrypt_results[e][k].kind \notin {"split", "odd"}
    BY <1>2, Zenon DEF Unmatched
  <2>3. CASE e \in Splits(k)
    <3>1. decrypt_results[e][k].kind # "single"  BY <1>2, <2>3, Zenon
        DEF ExtractSinglePartyKey
    <3> QED  BY <2>2, <2>3, <3>1, BadSplit, Zenon DEF Splits
  <2>4. CASE e \notin Splits(k)
    <3>1. PICK c \in Call : KeyOf(c) = k  BY <2>1, Zenon DEF RecordInv, IdRecords
    <3>2. PICK d \in Call : UriIndex(d) = e /\ KeyOf(d) = k
      BY <2>1, <3>1, AskedEverywhere, Zenon
    <3>3. Returned(d)  BY Zenon DEF AllIn
    <3>4. \A j \in DOMAIN answer[d].keys : j = k
      BY <2>1, <3>2, <3>3, AnswerKeys, Zenon DEF KeyInv
    <3>5. k \notin DOMAIN answer[d].keys  BY <2>4, <3>2, Zenon DEF AllIn, Splits
    <3>6. DOMAIN answer[d].keys = {}  BY <3>4, <3>5, Zenon
    <3> QED  BY <2>1, <3>3, <3>6, Zenon DEF Cause
  <2> QED  BY <2>3, <2>4, Zenon
<1>3. CASE Unconstructible(k) /\ ExtractSinglePartyKey(k) # {}
  <2> DEFINE S == ExtractSinglePartyKey(k)
             e == CHOOSE d \in S : \A x \in S : d <= x
  <2>1. ~decrypt_results[e][k].ok  BY <1>3, Zenon DEF Unconstructible
  <2>2. S \in SUBSET Nat /\ S # {} /\ S \subseteq Splits(k)
    BY <1>3, CallAssumption DEF ExtractSinglePartyKey, Splits, Endpoint
  <2> HIDE DEF S
  <2>3. e \in S  BY <2>2, Zenon DEF Least
  <2>4. e \in Endpoint /\ decrypt_results[e][k] # NULL  BY <2>2, <2>3, Zenon DEF Splits
  <2> HIDE DEF e
  <2> QED  BY <2>1, <2>4, BadSplit, Zenon
<1>4. CASE Unconstructible(k) /\ ExtractSinglePartyKey(k) = {}
  <2>1. PICK d, e \in Splits(k) : decrypt_results[d][k].kind # decrypt_results[e][k].kind
    BY <1>4, Zenon DEF Unconstructible
  <2>2. \A x \in Splits(k) : decrypt_results[x][k].kind # "single"
    BY <1>4, Zenon DEF ExtractSinglePartyKey
  <2>3. CASE decrypt_results[d][k].kind # "split"
    BY <2>1, <2>2, <2>3, BadSplit, Zenon DEF Splits
  <2>4. CASE decrypt_results[e][k].kind # "split"
    BY <2>1, <2>2, <2>4, BadSplit, Zenon DEF Splits
  <2> QED  BY <2>1, <2>3, <2>4, Zenon
<1> QED  BY <1>1, <1>2, <1>3, <1>4, Zenon DEF Fails

\* Every failure that is reported has a cause.
LEMMA CauseStep ==
  ASSUME IInv, MoreTypes, KeyInv, RecordInv, CauseInv, OneStep, Least,
         \A t \in Task : dpc[t] = "collect" => AllIn
  PROVE  CauseInv'
<1>0. /\ call' = call /\ Types /\ Kept
      /\ \/ SendFetch \/ FetchRefused \/ ListReturns
         \/ \E c \in Call : FetchCallback(c)
         \/ \E t \in Task : DecryptCallback(t)
  BY StepKeeps, Zenon DEF OneStep, CallStep, IInv
<1>1. lpc = "error" => lpc' = "error"
  BY <1>0, FetchCallbackDoes, DecryptCallbackDoes, Zenon
     DEF SendFetch, FetchRefused, ListReturns
<1>2. \A t \in Task : dpc[t] \notin {"none", "pending"} =>
        dpc'[t] \notin {"none", "pending"} /\ decrypted'[t] = decrypted[t]
  BY PastStays, Zenon
<1>3. Cause => Cause'  BY <1>0, <1>1, <1>2, CauseStays, Zenon
<1>4. ASSUME Cause' PROVE CauseInv'  BY <1>4, Zenon DEF CauseInv
<1>5. ASSUME finishes' = finishes \/ \E K : finishes' = Append(finishes, Success(K))
      PROVE  CauseInv'
  BY <1>3, <1>5, CauseFrame, Zenon
<1>6. ASSUME SendFetch \/ ListReturns PROVE finishes' = finishes
  BY <1>6, Zenon DEF SendFetch, ListReturns, finish_vars
<1>7. ASSUME FetchRefused PROVE Cause'  BY <1>7, Zenon DEF FetchRefused, Cause
<1>8. ASSUME NEW c \in Call, FetchCallback(c) PROVE Cause \/ finishes' = finishes
  <2>1. ASSUME NEW k \in KeyId, BadKey(c, k) PROVE Cause
    <3>1. fpc[c] = "keys" /\ k \in todo[c] /\ answer[c].keys[k] = "bad"
      BY <2>1, Zenon DEF BadKey, TakeKey
    <3>2. Has(c, k)  BY <3>1, Zenon DEF IInv, Held
    <3> QED  BY <3>1, <3>2, Zenon DEF Cause, Has
  <2>2. ASSUME erring[c] PROVE Cause
    <3>1. PICK k \in KeyId \cup {NULL} : k = current[c]  BY Zenon DEF MoreTypes
    <3>2. /\ k \in KeyId /\ ~decrypted[<<c, k>>]
          /\ dpc[<<c, k>>] \notin {"none", "pending"}
      BY <2>2, <3>1, Zenon DEF KeyInv
    <3>3. Has(c, k)  BY <3>2, Zenon DEF IInv, Held
    <3> QED  BY <3>2, <3>3, Zenon DEF Cause, Has
  <2> QED  BY <1>0, <1>8, <2>1, <2>2, FetchCallbackDoes, Zenon
<1>9. ASSUME NEW t \in Task, DecryptCallback(t) PROVE Collect(t) \/ finishes' = finishes
  BY <1>0, <1>9, DecryptCallbackDoes, Zenon
<1>10. ASSUME NEW t \in Task, Collect(t) PROVE CauseInv'
  <2>1. AllIn  BY <1>10, Zenon DEF Collect
  <2>2. CASE \E k \in key_id_set : Fails(k)
    BY <1>3, <1>4, <2>1, <2>2, FailsForCause, Zenon
  <2>3. CASE ~\E k \in key_id_set : Fails(k)
    <3> DEFINE K == {k \in key_id_set : ~LeftOut(k)}
    <3>1. finishes' = finishes \/ finishes' = Append(finishes, Success(K))
      BY <1>10, <2>3, Zenon DEF Collect
    <3> QED  BY <1>5, <3>1, Zenon
  <2> QED  BY <2>2, <2>3, Zenon
<1> QED  BY <1>0, <1>3, <1>4, <1>5, <1>6, <1>7, <1>8, <1>9, <1>10, ZenonT(30)

-----------------------------------------------------------------------------
(* What a step counts *)

\* A split that is not stored was passed over before.
Stores == \A t \in Task : t[2] # NULL /\ dpc'[t] \in Past /\ ~Known(t)' =>
            dpc[t] \in Past /\ ~Known(t)

\* A step goes on, gives a split up, or counts a fetch, splits or a split.
GoesOn == /\ UNCHANGED <<total, finished, returned>> /\ Stores
          /\ Outstanding' \subseteq Outstanding /\ HandledCalls \subseteq HandledCalls'
GivesUp == /\ UNCHANGED <<total, finished>>
           /\ Outstanding' \subseteq Outstanding /\ Outstanding' # Outstanding
CountsFetch == /\ UNCHANGED <<total, finished, Outstanding>> /\ Stores
               /\ returned' = returned + 1
               /\ \E c \in Call : /\ c \notin HandledCalls
                                  /\ HandledCalls' = HandledCalls \cup {c}
CountsSplits == /\ UNCHANGED <<finished, returned>> /\ Stores
                /\ HandledCalls \subseteq HandledCalls'
                /\ \E c \in Call, K \in SUBSET KeyId :
                     /\ total' = total + Cardinality(K)
                     /\ Outstanding' = Outstanding \cup ({c} \X K)
CountsSplit == /\ UNCHANGED <<total, returned>> /\ Stores
               /\ finished' = finished + 1
               /\ HandledCalls \subseteq HandledCalls'
               /\ \E t \in Outstanding : Outstanding' = Outstanding \ {t}

\* Unless a key is given up, a call that was handled stays so.
LEMMA HandledStays ==
  ASSUME IInv, MoreTypes, KeyInv, OneStep, ~\E c \in Call, k \in KeyId : BadKey(c, k)
  PROVE  HandledCalls \subseteq HandledCalls'
<1> DEFINE
      Holds(d) ==
        /\ fpc[d] \in {"record", "key_id", "branch"} =>
             \/ fpc'[d] \in {"record", "key_id", "branch"}
             \/ /\ fpc'[d] = "decrypt" /\ DOMAIN answer[d].keys = {}
                /\ dpc'[<<d, NULL>>] # "none"
             \/ /\ fpc'[d] = "keys" /\ DOMAIN answer[d].keys # {}
                /\ todo'[d] = DOMAIN answer[d].keys
        /\ fpc[d] \in {"keys", "decrypt", "done"} =>
             /\ fpc'[d] \in {"keys", "decrypt", "done"}
             /\ \A k \in KeyId : k \in todo[d] => k \in todo'[d] \/ dpc'[<<d, k>>] # "none"
<1>0. /\ call' = call /\ Types /\ Kept
      /\ \/ SendFetch \/ FetchRefused \/ ListReturns
         \/ \E c \in Call : FetchCallback(c)
         \/ \E t \in Task : DecryptCallback(t)
  BY StepKeeps, Zenon DEF OneStep, CallStep, IInv
<1>1. ASSUME NEW d \in Call, Holds(d), Handled(d) PROVE Handled(d)'
  <2>1. Returned(d)  BY <1>1, Zenon DEF Handled, Returned
  <2>2. answer'[d] = answer[d] /\ DOMAIN answer[d].keys \subseteq KeyId
    BY <1>0, <2>1, AnswerKeys, Zenon DEF Kept, KeyInv
  <2>3. \A k \in KeyId \cup {NULL} : dpc[<<d, k>>] # "none" => dpc'[<<d, k>>] # "none"
    BY PastStays, Tasks, Zenon
  <2>4. CASE fpc[d] \in {"record", "key_id", "branch"}  BY <1>1, <2>2, <2>4, Zenon
      DEF Handled
  <2>5. CASE fpc[d] \in {"keys", "decrypt", "done"}
    BY <1>1, <2>2, <2>3, <2>5, Zenon DEF Handled
  <2> QED  BY <1>1, <2>4, <2>5, Zenon DEF Handled
<1>2. ASSUME SendFetch \/ FetchRefused \/ ListReturns, NEW d \in Call PROVE Holds(d)
  <2>1. CASE SendFetch
    <3>1. sent + 1 \in Call /\ fpc[sent + 1] = "unsent"
      BY <1>0, <2>1, CallNumbers DEF SendFetch, IInv, Types, Sent, Call
    <3> QED  BY <1>0, <2>1, <3>1, Zenon DEF SendFetch, Types, decrypt_vars
  <2>2. CASE FetchRefused \/ ListReturns
    BY <2>2, Zenon DEF FetchRefused, ListReturns, fetch_vars, decrypt_vars
  <2> QED  BY <1>2, <2>1, <2>2, Zenon
<1>3. ASSUME NEW c \in Call, FetchCallback(c), NEW d \in Call PROVE Holds(d)
  <2>1. ASSUME OnFetch(c) \/ CountFetch(c) \/ RecordFetch(c) \/ RecordKeyId(c)
        PROVE  Holds(d)
    BY <1>0, <2>1, Zenon
       DEF OnFetch, CountFetch, RecordFetch, RecordKeyId, Types, decrypt_vars
  <2>2. ASSUME DecryptReturns(c) \/ FetchCallbackReturns(c) PROVE Holds(d)
    BY <1>0, <2>2, Zenon DEF DecryptReturns, FetchCallbackReturns, Types, decrypt_vars
  <2>3. ASSUME EmptyFetch(c) PROVE Holds(d)
    <3>1. <<c, NULL>> \in Task  BY Tasks, Zenon
    <3> QED  BY <1>0, <2>3, <3>1, Zenon DEF EmptyFetch, Types
  <2>4. ASSUME CountSplits(c) PROVE Holds(d)
    BY <1>0, <2>4, Zenon DEF CountSplits, Types, decrypt_vars
  <2>5. ASSUME NEW k \in KeyId, DecryptLater(c, k) \/ \E o : DecryptNow(c, k, o)
        PROVE  Holds(d)
    <3>1. /\ fpc[c] = "keys" /\ todo' = [todo EXCEPT ![c] = @ \ {k}]
          /\ fpc' = fpc \/ fpc' = [fpc EXCEPT ![c] = "decrypt"]
          /\ \E x \in {"pending", "check"} : dpc' = [dpc EXCEPT ![<<c, k>>] = x]
      BY <2>5, Zenon DEF DecryptLater, DecryptNow, TakeKey
    <3>2. <<c, k>> \in Task  BY Tasks, Zenon
    <3>3. dpc'[<<c, k>>] # "none"  BY <1>0, <3>1, <3>2, Zenon DEF Types
    <3> QED  BY <1>0, <3>1, <3>3, Zenon DEF Types
  <2> HIDE DEF Holds
  <2> QED  BY <1>3, <2>1, <2>2, <2>3, <2>4, <2>5, Zenon DEF FetchCallback
<1>4. ASSUME NEW t \in Task, DecryptCallback(t), NEW d \in Call PROVE Holds(d)
  <2>1. UNCHANGED <<fpc, todo>>  BY <1>0, <1>4, DecryptCallbackDoes, Zenon
  <2> QED  BY <2>1, Zenon
<1> HIDE DEF Holds
<1>5. \A d \in Call : Handled(d) => Handled(d)'  BY <1>0, <1>1, <1>2, <1>3, <1>4, Zenon
<1> QED  BY <1>0, <1>5, SameCalls, Zenon DEF HandledCalls

\* What a callback of a fetch counts.
LEMMA FetchCallbackCounts ==
  ASSUME IInv, MoreTypes, KeyInv, OneStep, NEW c \in Call, FetchCallback(c)
  PROVE  /\ GoesOn \/ GivesUp \/ CountsFetch \/ CountsSplits
         /\ (\E k \in KeyId : BadKey(c, k)) => GivesUp
<1>0. /\ call' = call /\ Types /\ UNCHANGED <<Call, Task>>
      /\ \A d : UriIndex(d)' = UriIndex(d)
  BY SameCalls, Zenon DEF OneStep, CallStep, IInv
<1>1. Stores
  <2>1. UNCHANGED decrypt_results  BY <1>0, FetchCallbackDoes, Zenon
  <2>2. \A t \in Task : Known(t)' <=> Known(t)  BY <1>0, <2>1, Zenon DEF Known
  <2>3. \A t \in Task : dpc[t] # "none" => dpc'[t] = dpc[t]
    BY <1>0, FetchCallbackDoes, Zenon
  <2>4. \A t \in Task : dpc'[t] = dpc[t] \/ dpc'[t] \in {"pending", "check"}
    BY <1>0, <2>3, Zenon
       DEF FetchCallback, OnFetch, CountFetch, RecordFetch, RecordKeyId,
         EmptyFetch, CountSplits, BadKey, DecryptLater, DecryptNow, DecryptReturns,
         FetchCallbackReturns, Types, decrypt_vars
  <2> QED  BY <2>2, <2>4, Zenon DEF Stores, Past
<1>2. ASSUME UNCHANGED <<todo, dpc>> PROVE UNCHANGED Outstanding
  BY <1>0, <1>2, Zenon DEF Outstanding, Open
<1>3. ASSUME NEW k \in KeyId, TakeKey(c, k)
      PROVE  /\ UNCHANGED <<total, finished, returned>>
             /\ todo'[c] = todo[c] \ {k} /\ k \in todo[c]
             /\ \A d \in Call : d # c => todo'[d] = todo[d]
  BY <1>3, Zenon DEF TakeKey, counter_vars, MoreTypes
<1>4. ASSUME NEW k \in KeyId, BadKey(c, k) PROVE GivesUp
  <2>1. /\ UNCHANGED <<total, finished>> /\ todo'[c] = todo[c] \ {k} /\ k \in todo[c]
        /\ \A d \in Call : d # c => todo'[d] = todo[d]
    BY <1>3, <1>4, Zenon DEF BadKey
  <2>2. UNCHANGED dpc  BY <1>4, Zenon DEF BadKey, decrypt_vars
  <2>3. PICK s \in Task : s = <<c, k>> /\ s[1] = c /\ s[2] = k /\ k # NULL
    BY TaskOf, Tasks
  <2>4. \A t \in Task : t[1] \in Call /\ todo'[t[1]] \subseteq todo[t[1]]
    BY <2>1, Tasks, Zenon
  <2>5. Outstanding' \subseteq Outstanding
    BY <1>0, <2>2, <2>4, Zenon DEF Outstanding, Open
  <2>6. s \in Outstanding  BY <2>1, <2>3, Zenon DEF Outstanding, Open
  <2>7. s \notin Outstanding'
    <3>1. dpc[s] = "none"  BY <2>1, <2>3, Zenon DEF KeyInv
    <3> QED  BY <2>1, <2>2, <2>3, <3>1, Zenon DEF Outstanding, Open
  <2> QED  BY <2>1, <2>5, <2>6, <2>7, Zenon DEF GivesUp
<1>5. CASE \E k \in KeyId : BadKey(c, k)  BY <1>4, <1>5, Zenon
<1>6. ASSUME ~\E k \in KeyId : BadKey(c, k) PROVE HandledCalls \subseteq HandledCalls'
  <2>1. ASSUME NEW d \in Call, NEW k \in KeyId, BadKey(d, k) PROVE d = c
    <3>1. todo'[d] # todo[d]  BY <2>1, Zenon DEF BadKey, TakeKey, MoreTypes
    <3>2. d # c => todo'[d] = todo[d]
      BY <1>0, Zenon DEF FetchCallback, OnFetch, CountFetch, RecordFetch, RecordKeyId,
         EmptyFetch, CountSplits, BadKey, DecryptLater, DecryptNow, TakeKey,
         DecryptReturns, FetchCallbackReturns, MoreTypes
    <3> QED  BY <3>1, <3>2, Zenon
  <2> QED  BY <1>6, <2>1, HandledStays, Zenon
<1>7. ASSUME \/ OnFetch(c) \/ RecordFetch(c) \/ RecordKeyId(c) \/ DecryptReturns(c)
             \/ FetchCallbackReturns(c)
      PROVE  UNCHANGED <<todo, dpc, total, finished, returned>>
  BY <1>7, Zenon
     DEF OnFetch, RecordFetch, RecordKeyId, DecryptReturns, FetchCallbackReturns,
              counter_vars, decrypt_vars
<1>8. ASSUME EmptyFetch(c)
      PROVE  UNCHANGED <<Outstanding, total, finished, returned>>
  <2>1. UNCHANGED <<todo, total, finished, returned>>
        /\ dpc' = [dpc EXCEPT ![<<c, NULL>>] = "check"]
    BY <1>8, Zenon DEF EmptyFetch, counter_vars
  <2>2. \A t \in Task : t[2] # NULL => dpc'[t] = dpc[t]  BY <1>0, <2>1 DEF Types
  <2> QED  BY <1>0, <2>1, <2>2, Zenon DEF Outstanding, Open
<1>9. ASSUME NEW k \in KeyId, DecryptLater(c, k) \/ \E o : DecryptNow(c, k, o)
      PROVE  UNCHANGED <<total, finished, returned>> /\ Outstanding' \subseteq Outstanding
  <2>1. /\ UNCHANGED <<total, finished, returned>> /\ todo'[c] = todo[c] \ {k}
        /\ k \in todo[c] /\ \A d \in Call : d # c => todo'[d] = todo[d]
    BY <1>3, <1>9, Zenon DEF DecryptLater, DecryptNow
  <2>2. \E x : dpc' = [dpc EXCEPT ![<<c, k>>] = x]
    BY <1>9, Zenon DEF DecryptLater, DecryptNow
  <2>3. \A t \in Task : t # <<c, k>> => dpc'[t] = dpc[t]  BY <1>0, <2>2, Zenon DEF Types
  <2>4. PICK s \in Task : s = <<c, k>> /\ s[1] = c /\ s[2] = k /\ k # NULL
    BY TaskOf, Tasks
  <2>5. s \in Outstanding  BY <2>1, <2>4, Zenon DEF Outstanding, Open
  <2>6. \A t \in Task : t[1] \in Call /\ todo'[t[1]] \subseteq todo[t[1]]
    BY <2>1, Tasks, Zenon
  <2>7. \A t \in Task : t # s => (Open(t)' => Open(t))  BY <2>3, <2>4, <2>6, Zenon
      DEF Open
  <2>8. \A t \in Task : t \in Outstanding' => t \in Outstanding
    BY <1>0, <2>5, <2>7, Zenon DEF Outstanding
  <2> QED  BY <1>0, <2>1, <2>8, Zenon DEF Outstanding
<1>10. ASSUME CountFetch(c) PROVE CountsFetch
  <2>1. /\ fpc[c] = "count" /\ fpc' = [fpc EXCEPT ![c] = "record"]
        /\ UNCHANGED <<answer, todo, dpc, total, finished>> /\ returned' = returned + 1
    BY <1>10, Zenon DEF CountFetch, decrypt_vars
  <2>2. /\ ~Handled(c) /\ Handled(c)'
        /\ \A d \in Call \ {c} : Handled(d)' <=> Handled(d)
    BY <1>0, <2>1, Zenon DEF Handled, Types
  <2>3. c \notin HandledCalls /\ HandledCalls' = HandledCalls \cup {c}
    BY <1>0, <2>2, Zenon DEF HandledCalls
  <2> QED  BY <1>1, <1>2, <2>1, <2>3, Zenon DEF CountsFetch
<1>11. ASSUME CountSplits(c), HandledCalls \subseteq HandledCalls' PROVE CountsSplits
  <2> DEFINE K == DOMAIN answer[c].keys
  <2>1. /\ fpc[c] = "branch" /\ todo' = [todo EXCEPT ![c] = K]
        /\ UNCHANGED <<dpc, finished, returned>> /\ total' = total + Cardinality(K)
    BY <1>11, Zenon DEF CountSplits, decrypt_vars
  <2>2. K \in SUBSET KeyId  BY <1>0, <2>1, AnswerKeys, Zenon DEF KeyInv, Returned
  <2> HIDE DEF K
  <2>3. /\ todo[c] = {} /\ \A k \in KeyId \cup {NULL} : dpc[<<c, k>>] = "none"
    BY <2>1, Zenon DEF KeyInv, Fresh
  <2>4. todo'[c] = K /\ \A d \in Call : d # c => todo'[d] = todo[d]
    BY <2>1, Zenon DEF MoreTypes
  <2>5. ASSUME NEW d \in Call, NEW k \in KeyId \cup {NULL}, NEW t \in Task,
               t = <<d, k>>, t[1] = d, t[2] = k
        PROVE  t \in Outstanding' <=> t \in Outstanding \/ (d = c /\ k \in K)
    <3>1. k \in K => k # NULL  BY <2>2, Tasks, Zenon
    <3> QED  BY <1>0, <2>1, <2>3, <2>4, <2>5, <3>1, Zenon DEF Outstanding, Open
  <2>6. Outstanding' = Outstanding \cup ({c} \X K)
    <3>1. \A t \in Task : t \in Outstanding' <=> t \in Outstanding \/ t \in {c} \X K
      BY <2>5 DEF Task
    <3>2. Outstanding' \subseteq Task /\ Outstanding \subseteq Task /\ {c} \X K \subseteq Task
      BY <1>0, <2>2, Zenon DEF Outstanding, Task
    <3> QED  BY <3>1, <3>2, Zenon
  <2> QED  BY <1>1, <1>11, <2>1, <2>2, <2>6, Zenon DEF CountsSplits
<1>12. ASSUME UNCHANGED <<total, finished, returned>>, Outstanding' \subseteq Outstanding,
              HandledCalls \subseteq HandledCalls'
       PROVE  GoesOn
  BY <1>1, <1>12, Zenon DEF GoesOn
<1>13. CASE ~\E k \in KeyId : BadKey(c, k)
  BY <1>2, <1>6, <1>7, <1>8, <1>9, <1>10, <1>11, <1>12, <1>13, Zenon DEF FetchCallback
<1> QED  BY <1>5, <1>13, Zenon

\* What a callback of Decrypt counts.
LEMMA DecryptCallbackCounts ==
  ASSUME IInv, MoreTypes, KeyInv, OneStep, NEW t \in Task, DecryptCallback(t)
  PROVE  GoesOn \/ GivesUp \/ CountsSplit
<1>0. /\ call' = call /\ Types /\ UNCHANGED <<Call, Task, Endpoint>>
      /\ \A d : UriIndex(d)' = UriIndex(d)
      /\ t = <<t[1], t[2]>> /\ t[1] \in Call /\ (t[2] # NULL => t[2] \in KeyId)
  BY SameCalls, Tasks, Zenon DEF OneStep, CallStep, IInv
<1>1. /\ UNCHANGED <<todo, fpc>> /\ dpc[t] # "none"
      /\ \A u \in Task : u # t => dpc'[u] = dpc[u]
      /\ StoreResult(t) \/ UNCHANGED decrypt_results
  BY <1>0, DecryptCallbackDoes, Zenon
<1>2. t[2] \notin todo[t[1]]  BY <1>0, <1>1 DEF KeyInv
<1>3. HandledCalls \subseteq HandledCalls'
  <2>1. ASSUME NEW c \in Call, NEW k \in KeyId, BadKey(c, k) PROVE FALSE
    <3>1. todo'[c] # todo[c]  BY <2>1, Zenon DEF BadKey, TakeKey, MoreTypes
    <3> QED  BY <1>1, <3>1, Zenon
  <2> QED  BY <2>1, HandledStays, Zenon
<1>4. /\ \A u \in Task : Known(u) /\ u[2] # NULL => Known(u)'
      /\ StoreResult(t) => Known(t)'
  <2>1. CASE UNCHANGED decrypt_results /\ ~StoreResult(t)  BY <1>0, <2>1, Zenon
      DEF Known
  <2>2. CASE StoreResult(t)
    <3> DEFINE r == [kind |-> answer[t[1]].keys[t[2]], ok |-> decrypted[t]]
    <3>1. /\ dpc[t] = "store" /\ t[2] # NULL
          /\ decrypt_results' = [decrypt_results EXCEPT ![UriIndex(t[1])][t[2]] = r]
      BY <2>2, Zenon DEF StoreResult
    <3>2. r # NULL
      <4>1. Has(t[1], t[2])  BY <1>0, <3>1, Zenon DEF IInv, Held
      <4>2. answer[t[1]].keys[t[2]] \in Kinds  BY <1>0, <4>1, AnswerKeys, Zenon
          DEF KeyInv, Has
      <4>3. r \in [kind : Kinds, ok : BOOLEAN]  BY <4>2, Zenon DEF MoreTypes
      <4> QED  BY <4>3, NullAssumption, Zenon
    <3> HIDE DEF r
    <3>3. UriIndex(t[1]) \in Endpoint /\ t[2] \in KeyId  BY <1>0, <3>1, Uris, Zenon
    <3>4. \A e \in Endpoint, k \in KeyId :
            decrypt_results'[e][k] = IF e = UriIndex(t[1]) /\ k = t[2] THEN r
                                     ELSE decrypt_results[e][k]
      BY <1>0, <3>1, <3>3, Zenon DEF Types
    <3>5. \A u \in Task : u[2] # NULL => UriIndex(u[1]) \in Endpoint /\ u[2] \in KeyId
      BY <1>0, Uris, Tasks, Zenon
    <3> QED  BY <1>0, <3>2, <3>3, <3>4, <3>5, SMTT(20) DEF Known
  <2> QED  BY <1>1, <2>1, <2>2, Zenon
<1>5. ASSUME NEW u \in Task, u # t
      PROVE  /\ u \in Outstanding' <=> u \in Outstanding
             /\ u[2] # NULL /\ dpc'[u] \in Past /\ ~Known(u)' => dpc[u] \in Past /\ ~Known(u)
  BY <1>0, <1>1, <1>4, <1>5, Zenon DEF Outstanding, Open
<1>6. ASSUME \/ OnDecrypt(t) \/ ReadFinished(t) \/ StoreResult(t)
             \/ ReadReturned(t) \/ ReadTotal(t) \/ Collect(t)
      PROVE  /\ UNCHANGED <<total, finished, returned>>
             /\ Open(t)' => Open(t)
             /\ t[2] # NULL /\ dpc'[t] \in Past => dpc[t] \in Past \/ StoreResult(t)
  <2>1. UNCHANGED <<total, finished, returned>>
    BY <1>6, Zenon
       DEF OnDecrypt, ReadFinished, StoreResult, ReadReturned, ReadTotal, Collect,
                counter_vars
  <2>2. ASSUME OnDecrypt(t) \/ ReadFinished(t) \/ StoreResult(t)
        PROVE  /\ Open(t)' => Open(t)
               /\ t[2] # NULL /\ dpc'[t] \in Past => dpc[t] \in Past \/ StoreResult(t)
    BY <1>0, <1>1, <2>2, Zenon
       DEF OnDecrypt, ReadFinished, StoreResult, Open, Past, Types
  <2>3. ASSUME ReadReturned(t) \/ ReadTotal(t) \/ Collect(t)
        PROVE  /\ dpc[t] \in Past /\ dpc'[t] \in {"total", "collect", "done"}
    BY <1>0, <2>3, Zenon DEF ReadReturned, ReadTotal, Collect, Past, Types
  <2> QED  BY <1>1, <1>2, <1>6, <2>1, <2>2, <2>3, Zenon DEF Open
<1>7. ASSUME CheckFailure(t)
      PROVE  /\ UNCHANGED <<total, finished, returned>> /\ (Open(t)' => Open(t))
             /\ dpc'[t] = "store" \/ t[2] = NULL \/ (Open(t) /\ ~Open(t)')
  <2>1. /\ UNCHANGED <<total, finished, returned>> /\ dpc[t] = "check"
        /\ dpc'[t] \in {"store", "done"}
    BY <1>0, <1>7, Zenon DEF CheckFailure, counter_vars, Types
  <2> QED  BY <1>1, <1>2, <2>1, Zenon DEF Open
<1>8. ASSUME CountDecrypt(t)
      PROVE  /\ UNCHANGED <<total, returned>> /\ finished' = finished + 1
             /\ Open(t) /\ ~Open(t)' /\ dpc[t] \in Past
  <2>1. /\ UNCHANGED <<total, returned>> /\ finished' = finished + 1
        /\ dpc[t] = "add" /\ dpc'[t] = "returned"
    BY <1>0, <1>8, Zenon DEF CountDecrypt, Types
  <2>2. t[2] # NULL  BY <1>0, <2>1, Zenon DEF KeyInv
  <2> QED  BY <1>1, <1>2, <2>1, <2>2, Zenon DEF Open, Past
<1>9. ASSUME t[2] # NULL /\ dpc'[t] \in Past => dpc[t] \in Past \/ StoreResult(t)
      PROVE  Stores
  BY <1>4, <1>5, <1>9, Zenon DEF Stores
<1>10. Outstanding \subseteq Task /\ Outstanding' \subseteq Task  BY <1>0, Zenon
    DEF Outstanding
<1>11. /\ (t \in Outstanding <=> Open(t)) /\ (t \in Outstanding' <=> Open(t)')
  BY <1>0, Zenon DEF Outstanding
<1>12. ASSUME Open(t)' => Open(t) PROVE Outstanding' \subseteq Outstanding
  BY <1>5, <1>10, <1>11, <1>12, Zenon
<1>13. CASE \/ OnDecrypt(t) \/ ReadFinished(t) \/ StoreResult(t)
            \/ ReadReturned(t) \/ ReadTotal(t) \/ Collect(t)
  BY <1>3, <1>6, <1>9, <1>12, <1>13, Zenon DEF GoesOn
<1>14. CASE CheckFailure(t)
  <2>1. CASE dpc'[t] = "store" \/ t[2] = NULL
    BY <1>3, <1>7, <1>9, <1>12, <1>14, <2>1, Zenon DEF GoesOn, Past
  <2>2. CASE Open(t) /\ ~Open(t)'  BY <1>7, <1>11, <1>12, <1>14, <2>2, Zenon DEF GivesUp
  <2> QED  BY <1>7, <1>14, <2>1, <2>2, Zenon
<1>15. CASE CountDecrypt(t)
  <2>1. Outstanding' = Outstanding \ {t}  BY <1>5, <1>8, <1>10, <1>11, <1>15, Zenon
  <2> QED  BY <1>3, <1>8, <1>9, <1>11, <1>15, <2>1, Zenon DEF CountsSplit
<1> QED  BY <1>13, <1>14, <1>15, Zenon DEF DecryptCallback

\* What a step counts.
LEMMA StepCounts ==
  ASSUME IInv, MoreTypes, KeyInv, OneStep
  PROVE  /\ GoesOn \/ GivesUp \/ CountsFetch \/ CountsSplits \/ CountsSplit
         /\ (\E c \in Call, k \in KeyId : BadKey(c, k)) => GivesUp
<1>0. /\ \/ SendFetch \/ FetchRefused \/ ListReturns
         \/ \E c \in Call : FetchCallback(c)
         \/ \E t \in Task : DecryptCallback(t)
      /\ call' = call /\ UNCHANGED Task /\ \A d : UriIndex(d)' = UriIndex(d)
  BY SameCalls, Zenon DEF OneStep, CallStep
<1>1. CASE SendFetch \/ FetchRefused \/ ListReturns
  <2>1. UNCHANGED <<todo, dpc, decrypt_results, total, finished, returned>>
    BY <1>1, Zenon DEF SendFetch, FetchRefused, ListReturns, fetch_vars, decrypt_vars,
                counter_vars, result_vars
  <2>2. Stores /\ UNCHANGED Outstanding
    BY <1>0, <2>1, Zenon DEF Stores, Known, Outstanding, Open
  <2>3. ASSUME NEW c \in Call, NEW k \in KeyId, BadKey(c, k) PROVE FALSE
    <3>1. todo'[c] # todo[c]  BY <2>3, Zenon DEF BadKey, TakeKey, MoreTypes
    <3> QED  BY <2>1, <3>1, Zenon
  <2> QED  BY <2>1, <2>2, <2>3, HandledStays, Zenon DEF GoesOn
<1>2. ASSUME NEW c \in Call, NEW k \in KeyId, BadKey(c, k) PROVE GivesUp
  BY <1>2, FetchCallbackCounts, Zenon DEF FetchCallback
<1> QED  BY <1>0, <1>1, <1>2, FetchCallbackCounts, DecryptCallbackCounts, Zenon

-----------------------------------------------------------------------------
(* The last callback *)

\* What holds when a callback is about to collect the keys: see AtCollect.
Last(t) == /\ AllIn /\ ~Deficit /\ Outstanding = {} /\ lpc # "error"
           /\ \A u \in Task : u # t => dpc[u] \in {"none", "done"}

\* A failure is reported once, and makes sure that the keys are not collected.
LEMMA OnceFails ==
  ASSUME MoreTypes, OnceInv, call' = call, FinishOnFailure, ~Over,
         lpc' = "error" \/ Deficit'
  PROVE  OnceInv'
<1> SUFFICES ASSUME "error" \notin call.kms
             PROVE  /\ Len(finishes') <= 1 /\ got_failure'
                    /\ lpc' = "error" \/ Deficit'
  BY Zenon DEF OnceInv
<1>1. CASE got_failure  BY <1>1, Zenon DEF FinishOnFailure, OnceInv
<1>2. CASE ~got_failure
  <2>1. finishes = <<>>  BY <1>2, Zenon DEF OnceInv
  <2>2. Len(finishes') <= 1  BY <1>2, <2>1 DEF FinishOnFailure
  <2>3. got_failure'  BY Zenon DEF FinishOnFailure
  <2> QED  BY <2>2, <2>3, Zenon
<1> QED  BY <1>1, <1>2, Zenon DEF MoreTypes

\* Once the keys are collected no callback is left.
LEMMA OnceCollects ==
  ASSUME IInv, OnceInv, call' = call, NEW t \in Task, Collect(t), Last(t)
  PROVE  OnceInv'
<1> SUFFICES ASSUME "error" \notin call.kms
             PROVE  Len(finishes') <= 1 /\ ~got_failure' /\ Over'
  BY Zenon DEF OnceInv
<1>1. /\ dpc[t] = "collect" /\ dpc' = [dpc EXCEPT ![t] = "done"]
      /\ UNCHANGED <<fpc, todo, got_failure>>
      /\ finishes' = finishes \/ \E r : finishes' = Append(finishes, r)
  BY Zenon DEF Collect, fetch_vars
<1>2. /\ ~Deficit /\ Outstanding = {} /\ lpc # "error"
      /\ \A c \in Call : fpc[c] \in {"decrypt", "done"}
      /\ \A u \in Task : u # t => dpc[u] \in {"none", "done"}
  BY Zenon DEF Last, AllIn
<1>3. ~got_failure /\ finishes = <<>>  BY <1>1, <1>2, Zenon DEF OnceInv, Over
<1>4. Len(finishes') <= 1
  <2>1. CASE finishes' = finishes  BY <1>3, <2>1
  <2>2. ASSUME NEW r, finishes' = Append(finishes, r) PROVE Len(finishes') = 1
    BY <1>3, <2>2
  <2> QED  BY <1>1, <2>1, <2>2
<1>5. dpc'[t] = "done" /\ \A u \in Task : u # t => dpc'[u] = dpc[u]
  BY <1>1, Zenon DEF IInv, Types
<1>6. \A u \in Task : Open(u)' => Open(u)  BY <1>1, <1>5, Zenon DEF Open
<1>7. Over'
  <2>1. Outstanding' = {}  BY <1>2, <1>6, SameCalls, Zenon DEF Outstanding
  <2>2. \A u \in Task : dpc'[u] \in {"none", "done"}  BY <1>2, <1>5, Zenon
  <2> QED  BY <1>1, <1>2, <2>1, <2>2, SameCalls, Zenon DEF Over
<1> QED  BY <1>1, <1>3, <1>4, <1>7, Zenon

\* Callbacks that do not race finish the call once.
LEMMA OnceStep ==
  ASSUME IInv, MoreTypes, KeyInv, OnceInv, OneStep, Deficit => Deficit',
         (\E c \in Call, k \in KeyId : BadKey(c, k)) => Deficit',
         \A t \in Task : dpc[t] = "collect" => Last(t)
  PROVE  OnceInv'
<1>0. /\ call' = call /\ Types /\ UNCHANGED <<Call, Task>>
      /\ \/ SendFetch \/ FetchRefused \/ ListReturns
         \/ \E c \in Call : FetchCallback(c)
         \/ \E t \in Task : DecryptCallback(t)
  BY SameCalls, Zenon DEF OneStep, CallStep, IInv
<1>1. ASSUME UNCHANGED <<lpc, finishes, got_failure>> \/ SendFetch \/ ListReturns,
             Over => Over'
      PROVE  OnceInv'
  <2>1. UNCHANGED <<finishes, got_failure>> /\ (lpc = "error" => lpc' = "error")
    BY <1>1, Zenon DEF SendFetch, ListReturns, finish_vars
  <2> QED  BY <1>0, <1>1, <2>1, Zenon DEF OnceInv
<1>2. ASSUME sent < CallCount PROVE ~Over
  <2>1. sent + 1 \in Call /\ fpc[sent + 1] = "unsent"
    BY <1>0, <1>2, CallNumbers DEF IInv, Types, Sent, Call
  <2> QED  BY <2>1, Zenon DEF Over
<1>3. CASE SendFetch
  <2>1. ~Over  BY <1>2, <1>3, Zenon DEF SendFetch
  <2> QED  BY <1>1, <1>3, <2>1, Zenon
<1>4. CASE FetchRefused
  <2>1. ~Over /\ FinishOnFailure /\ lpc' = "error"  BY <1>2, <1>4, Zenon
      DEF FetchRefused
  <2> QED  BY <1>0, <2>1, OnceFails, Zenon
<1>5. ASSUME UNCHANGED <<todo, dpc>>,
             \A c \in Call : fpc'[c] = fpc[c] \/ fpc'[c] \in {"keys", "done"}
      PROVE  Over => Over'
  BY <1>0, <1>5, Zenon DEF Over, Outstanding, Open
<1>6. CASE ListReturns
  <2>1. UNCHANGED <<todo, dpc, fpc>>  BY <1>6, Zenon
      DEF ListReturns, fetch_vars, decrypt_vars
  <2> QED  BY <1>1, <1>5, <1>6, <2>1, Zenon
<1>7. ASSUME NEW c \in Call, FetchCallback(c) PROVE OnceInv'
  <2>1. /\ UNCHANGED lpc
        /\ \/ UNCHANGED <<finishes, got_failure>>
           \/ /\ FinishOnFailure
              /\ (DecryptReturns(c) /\ erring[c]) \/ \E k \in KeyId : BadKey(c, k)
    BY <1>0, <1>7, FetchCallbackDoes, Zenon
  <2>2. ASSUME OnFetch(c) \/ CountFetch(c) \/ RecordFetch(c) \/ RecordKeyId(c)
               \/ EmptyFetch(c) \/ CountSplits(c)
        PROVE  ~Over
    BY <2>2, Zenon
       DEF OnFetch, CountFetch, RecordFetch, RecordKeyId, EmptyFetch, CountSplits,
                Over
  <2>3. ASSUME NEW k \in KeyId, TakeKey(c, k) PROVE ~Over
    <3>1. PICK s \in Task : s[1] = c /\ s[2] = k /\ k # NULL  BY TaskOf, Tasks
    <3>2. s \in Outstanding  BY <2>3, <3>1, Zenon DEF TakeKey, Outstanding, Open
    <3> QED  BY <3>2, Zenon DEF Over
  <2>4. ASSUME DecryptReturns(c) \/ FetchCallbackReturns(c) PROVE Over => Over'
    <3>1. /\ UNCHANGED <<todo, dpc>>
          /\ \A d \in Call : fpc'[d] = fpc[d] \/ fpc'[d] \in {"keys", "done"}
      BY <1>0, <2>4, Zenon DEF DecryptReturns, FetchCallbackReturns, decrypt_vars, Types
    <3> QED  BY <1>5, <3>1, Zenon
  <2>5. Over => Over'
    BY <1>7, <2>2, <2>3, <2>4, Zenon DEF FetchCallback, BadKey, DecryptLater, DecryptNow
  <2>6. CASE UNCHANGED <<finishes, got_failure>>  BY <1>1, <2>1, <2>5, <2>6, Zenon
  <2>7. CASE erring[c]
    <3>1. "error" \in call.kms  BY <2>7, Zenon DEF KeyInv
    <3> QED  BY <1>0, <3>1, Zenon DEF OnceInv
  <2>8. ASSUME NEW k \in KeyId, BadKey(c, k) PROVE OnceInv'
    <3>1. ~Over /\ FinishOnFailure  BY <2>3, <2>8, Zenon DEF BadKey
    <3> QED  BY <1>0, <2>8, <3>1, OnceFails, Zenon
  <2> QED  BY <2>1, <2>6, <2>7, <2>8, Zenon
<1>8. ASSUME NEW t \in Task, DecryptCallback(t) PROVE OnceInv'
  <2>1. CASE Collect(t)
    <3>1. Last(t)  BY <2>1, Zenon DEF Collect
    <3> QED  BY <1>0, <2>1, <3>1, OnceCollects, Zenon
  <2>2. CASE ~Collect(t)
    <3>1. UNCHANGED <<finishes, got_failure, lpc>>
      BY <1>0, <1>8, <2>2, DecryptCallbackDoes, Zenon
    <3>2. dpc[t] \notin {"none", "done"}
      BY <1>8, Zenon
         DEF DecryptCallback, OnDecrypt, CheckFailure, ReadFinished, StoreResult,
                  CountDecrypt, ReadReturned, ReadTotal, Collect
    <3>3. ~Over  BY <3>2, Zenon DEF Over
    <3> QED  BY <1>1, <3>1, <3>3, Zenon
  <2> QED  BY <2>1, <2>2, Zenon
<1> QED  BY <1>0, <1>3, <1>4, <1>6, <1>7, <1>8, Zenon

-----------------------------------------------------------------------------
(* The whole invariant *)

CallInv == /\ IInv /\ MoreTypes /\ KeyInv /\ CountInv /\ RecordInv
           /\ SeqInv /\ OnceInv /\ CompleteInv /\ CauseInv

\* It holds if callbacks do not race.
SerialInv == ~call.concurrent => CallInv

\* Before the first fetch nothing is counted, recorded or finished.
LEMMA InitCallInv ==
  ASSUME Init, Cardinality({}) = 0, Cardinality(HandledCalls) \in Nat PROVE CallInv
<1>1. IInv  BY InitIInv, Zenon
<1>2. MoreTypes
  <2>1. /\ todo \in [Call -> SUBSET KeyId] /\ current \in [Call -> KeyId \cup {NULL}]
        /\ prev \in [Task -> Int] /\ total \in Nat /\ finished \in Nat /\ returned \in Nat
    BY DEF Init
  <2>2. /\ erring \in [Call -> BOOLEAN] /\ decrypted \in [Task -> BOOLEAN]
        /\ got_failure \in BOOLEAN /\ crashed \in BOOLEAN
    BY Zenon DEF Init
  <2> QED  BY <2>1, <2>2, Zenon DEF MoreTypes
<1>3. KeyInv
  <2>1. \A c \in Call : /\ fpc[c] = "unsent" /\ todo[c] = {} /\ current[c] = NULL
                        /\ ~erring[c] /\ ~Returned(c)
    BY Zenon DEF Init, Returned
  <2>2. \A c \in Call, k \in KeyId \cup {NULL} : dpc[<<c, k>>] = "none"
    BY Zenon DEF Init, Task
  <2>3. lpc # "error"  BY Zenon DEF Init
  <2> QED  BY <2>1, <2>2, <2>3, Zenon DEF KeyInv
<1>4. \A t \in Task : dpc[t] = "none" /\ ~Open(t)
  <2>1. \A t \in Task : dpc[t] = "none"  BY Zenon DEF Init
  <2>2. \A c \in Call : todo[c] = {}  BY Zenon DEF Init
  <2> QED  BY <2>1, <2>2, Tasks, Zenon DEF Open
<1>5. Outstanding = {} /\ Cardinality(Outstanding) = 0
  BY <1>4, Zenon DEF Outstanding
<1>6. CountInv
  <2>1. finished = 0 /\ total = 0 /\ returned = 0  BY Zenon DEF Init
  <2> QED  BY <1>4, <1>5, <2>1 DEF CountInv, Past
<1>7. RecordInv
  <2>1. FetchRecords  BY NullAssumption, Zenon DEF Init, FetchRecords
  <2>2. SplitRecords  BY Zenon DEF Init, SplitRecords
  <2>3. IdRecords
    <3>1. \A c \in Call, k \in KeyId \cup {NULL} :
            dpc[<<c, k>>] = "none" /\ fpc[c] = "unsent" /\ key_id_set = {}
      BY Zenon DEF Init, Task
    <3> QED  BY <3>1, Zenon DEF IdRecords, Init
  <2> QED  BY <2>1, <2>2, <2>3, Zenon DEF RecordInv
<1>8. SeqInv  BY <1>4, Zenon DEF Init, SeqInv
<1>9. finishes = <<>> /\ ~got_failure  BY Zenon DEF Init
<1>10. Len(finishes) = 0 /\ DOMAIN finishes = {}  BY <1>9
<1>11. OnceInv  BY <1>9, <1>10 DEF OnceInv
<1>12. CompleteInv /\ CauseInv  BY <1>10, Zenon DEF CompleteInv, CauseInv
<1> QED  BY <1>1, <1>2, <1>3, <1>6, <1>7, <1>8, <1>11, <1>12, Zenon DEF CallInv

\* Stuttering keeps the invariant.
LEMMA StutterCallInv ==
  ASSUME CallInv, UNCHANGED vars PROVE CallInv'
<1>1. UNCHANGED <<call, sent, lpc, fpc, answer, todo, current, erring, dpc, prev,
                  decrypted, fetch_results, decrypt_results, key_id_set, total, finished,
                  returned, finishes, got_failure, crashed>>
  BY Zenon DEF vars, counter_vars, result_vars, fetch_vars, decrypt_vars, finish_vars
<1>2. /\ UNCHANGED <<Call, Task, Endpoint, ByKeyId, CallCount>>
      /\ \A c : UriIndex(c)' = UriIndex(c) /\ KeyOf(c)' = KeyOf(c) /\ Answers(c)' = Answers(c)
  BY <1>1, SameCalls, SameRequest, Zenon
<1>3. /\ IInv /\ MoreTypes /\ KeyInv /\ CountInv /\ RecordInv
      /\ SeqInv /\ OnceInv /\ CompleteInv /\ CauseInv
  BY Zenon DEF CallInv
<1>4. /\ \A c \in Call : (Returned(c)' <=> Returned(c)) /\ (Handled(c)' <=> Handled(c))
      /\ \A t \in Task : (Open(t)' <=> Open(t)) /\ (Known(t)' <=> Known(t))
      /\ \A c, k : Has(c, k)' <=> Has(c, k)
  BY <1>1, <1>2, Zenon DEF Returned, Handled, Open, Known, Has
<1>5. UNCHANGED <<Outstanding, HandledCalls>>
  BY <1>2, <1>4, Zenon DEF Outstanding, HandledCalls
<1>6. (Deficit' <=> Deficit) /\ (Over' <=> Over)  BY <1>1, <1>2, <1>5, Zenon
    DEF Deficit, Over
<1>7. MoreTypes'  BY <1>1, <1>2, <1>3, ZenonT(30) DEF MoreTypes
<1>8. KeyInv'  BY <1>1, <1>2, <1>3, <1>4 DEF KeyInv
<1>9. CountInv'  BY <1>1, <1>2, <1>3, <1>4, <1>5, <1>6, Zenon DEF CountInv
<1>10. FetchRecords'  BY <1>1, <1>2, <1>3, <1>4, Zenon DEF RecordInv, FetchRecords
<1>11. SplitRecords'  BY <1>1, <1>2, <1>3, <1>4, Zenon DEF RecordInv, SplitRecords
<1>12. IdRecords'  BY <1>1, <1>2, <1>3, Zenon DEF RecordInv, IdRecords
<1>13. SeqInv'  BY <1>1, <1>2, <1>3 DEF SeqInv
<1>14. OnceInv'  BY <1>1, <1>3, <1>6, Zenon DEF OnceInv
<1>15. IInv' /\ Kept  BY <1>1, <1>3, StutterIInv, Zenon
<1>16. CompleteInv'  BY <1>1, <1>3, <1>15, CompleteFrame, Zenon
<1>17. Cause' <=> Cause  BY <1>1, <1>2, <1>4, Zenon DEF Cause
<1>18. CauseInv'  BY <1>1, <1>3, <1>17, Zenon DEF CauseInv
<1> QED  BY <1>7, <1>8, <1>9, <1>10, <1>11, <1>12, <1>13, <1>14, <1>15, <1>16, <1>18,
         Zenon DEF CallInv, RecordInv

\* Every step keeps the invariant.
LEMMA StepCallInv ==
  ASSUME CallInv, OneStep, ~call.concurrent, Least,
         \A S \in SUBSET KeyId : Cardinality(S) \in Nat,
         CountInv', Deficit => Deficit', GivesUp => Deficit',
         \A t \in Task : dpc[t] = "collect" => Last(t)
  PROVE  CallInv'
<1>1. /\ IInv /\ MoreTypes /\ KeyInv /\ RecordInv /\ call' = call
      /\ SeqInv /\ OnceInv /\ CompleteInv /\ CauseInv
  BY Zenon DEF CallInv, OneStep
<1>2. IInv'  BY <1>1, StepKeeps, Zenon
<1>3. MoreTypes'  BY <1>1, TypesStep, Zenon
<1>4. KeyInv'  BY <1>1, KeyStep, Zenon
<1>5. RecordInv'  BY <1>1, RecordStep, Zenon
<1>6. SeqInv'  BY <1>1, SeqStep, Zenon
<1>7. (\E c \in Call, k \in KeyId : BadKey(c, k)) => Deficit'
  BY <1>1, StepCounts, Zenon
<1>8. OnceInv'  BY <1>1, <1>7, OnceStep, Zenon
<1>9. \A t \in Task : dpc[t] = "collect" => AllIn  BY Zenon DEF Last
<1>10. CompleteInv'  BY <1>1, <1>9, CompleteStep, Zenon
<1>11. CauseInv'  BY <1>1, <1>9, CauseStep, Zenon
<1> QED  BY <1>2, <1>3, <1>4, <1>5, <1>6, <1>8, <1>10, <1>11, Zenon DEF CallInv

-----------------------------------------------------------------------------
(* The counters, and the theorems *)

\* There are finitely many calls and callbacks.
LEMMA Finite ==
  ASSUME Types
  PROVE  /\ IsFiniteSet(Call) /\ Cardinality(Call) = CallCount /\ IsFiniteSet(Task)
         /\ \A S \in SUBSET KeyId : IsFiniteSet(S) /\ Cardinality(S) \in Nat
         /\ \A S \in SUBSET Call : IsFiniteSet(S) /\ Cardinality(S) \in Nat
         /\ \A S \in SUBSET Task : IsFiniteSet(S) /\ Cardinality(S) \in Nat
<1>1. CallCount \in Nat  BY CallNumbers, Zenon
<1>2. IsFiniteSet(1..CallCount) /\ Cardinality(1..CallCount) = CallCount
  BY <1>1, FS_Interval
<1>3. IsFiniteSet(Call) /\ Cardinality(Call) = CallCount  BY <1>2, Zenon DEF Call
<1>4. IsFiniteSet(KeyId \cup {NULL})  BY CallAssumption, FS_AddElement, Zenon
<1>5. IsFiniteSet(Task)  BY <1>3, <1>4, FS_Product, Zenon DEF Task
<1>6. ASSUME NEW A, IsFiniteSet(A), NEW S \in SUBSET A
      PROVE  IsFiniteSet(S) /\ Cardinality(S) \in Nat
  BY <1>6, FS_Subset, FS_CardinalityType, Zenon
<1> QED  BY <1>3, <1>5, <1>6, CallAssumption, Zenon

\* Every step keeps the counters right; a split that is given up is missing for good.
LEMMA CountStep ==
  ASSUME IInv, MoreTypes, KeyInv, CountInv, OneStep
  PROVE  CountInv' /\ (Deficit => Deficit') /\ (GivesUp => Deficit')
<1> DEFINE O == Cardinality(Outstanding)
           P == Cardinality(Outstanding')
           H == Cardinality(HandledCalls)
           I == Cardinality(HandledCalls')
<1>1. /\ GoesOn \/ GivesUp \/ CountsFetch \/ CountsSplits \/ CountsSplit
      /\ Types /\ UNCHANGED <<Call, Task>>
  BY StepCounts, SameCalls, Zenon DEF IInv, OneStep, CallStep
<1>2. /\ Outstanding \in SUBSET Task /\ Outstanding' \in SUBSET Task
      /\ HandledCalls \in SUBSET Call /\ HandledCalls' \in SUBSET Call
  BY <1>1, Zenon DEF Outstanding, HandledCalls
<1>3. /\ IsFiniteSet(Outstanding) /\ IsFiniteSet(HandledCalls) /\ IsFiniteSet(HandledCalls')
      /\ O \in Nat /\ P \in Nat /\ H \in Nat /\ I \in Nat
  BY <1>1, <1>2, Finite, Zenon
<1>4. ASSUME Outstanding' \subseteq Outstanding
      PROVE  P <= O /\ (P = O => Outstanding' = Outstanding)
  BY <1>3, <1>4, FS_Subset, Zenon
<1>5. ASSUME HandledCalls \subseteq HandledCalls' PROVE H <= I
  BY <1>3, <1>5, FS_Subset, Zenon
<1>6. /\ finished + O <= total /\ (Deficit <=> finished + O < total)
      /\ Deficit \/ (/\ returned <= H
                     /\ \A t \in Task : t[2] # NULL /\ dpc[t] \in Past => Known(t))
      /\ Deficit' <=> finished' + P < total'
      /\ total \in Nat /\ finished \in Nat /\ returned \in Nat
  BY Zenon DEF CountInv, Deficit, MoreTypes
<1>7. ASSUME Stores, finished' + P <= total',
             finished + O < total => finished' + P < total',
             returned <= H => returned' <= I
      PROVE  CountInv' /\ (Deficit => Deficit')
  <2>1. CASE Deficit  BY <1>6, <1>7, <2>1, Zenon DEF CountInv
  <2>2. CASE ~Deficit
    <3>1. \A t \in Task' : t[2] # NULL /\ dpc'[t] \in Past => Known(t)'
      BY <1>1, <1>6, <1>7, <2>2, Zenon DEF Stores
    <3> QED  BY <1>6, <1>7, <2>2, <3>1, Zenon DEF CountInv
  <2> QED  BY <2>1, <2>2, Zenon
<1>8. CASE GivesUp
  <2>1. finished' + P < total' /\ finished' + P <= total'
    BY <1>3, <1>4, <1>6, <1>8 DEF GivesUp
  <2>2. Deficit'  BY <1>6, <2>1, Zenon
  <2> QED  BY <2>1, <2>2, Zenon DEF CountInv
<1> HIDE DEF O, P, H, I
<1>9. CASE GoesOn /\ ~GivesUp
  BY <1>3, <1>4, <1>5, <1>6, <1>7, <1>9, SMTT(20) DEF GoesOn
<1>10. CASE CountsFetch /\ ~GivesUp
  <2>1. I = H + 1
    BY <1>3, <1>10, FS_AddElement, Zenon DEF CountsFetch, H, I
  <2>2. P = O  BY <1>10, Zenon DEF CountsFetch, O, P
  <2> QED  BY <1>3, <1>6, <1>7, <1>10, <2>1, <2>2, SMTT(20) DEF CountsFetch
<1>11. CASE CountsSplits /\ ~GivesUp
  <2>1. PICK c \in Call, K \in SUBSET KeyId : /\ total' = total + Cardinality(K)
                                              /\ Outstanding' = Outstanding \cup ({c} \X K)
    BY <1>11, Zenon DEF CountsSplits
  <2> DEFINE N == {c} \X K
  <2>2. IsFiniteSet(K) /\ Cardinality(K) \in Nat  BY <1>1, Finite, Zenon
  <2>3. IsFiniteSet(N) /\ Cardinality(N) = Cardinality(K)
    <3>1. IsFiniteSet({c}) /\ Cardinality({c}) = 1  BY FS_Singleton, Zenon
    <3>2. IsFiniteSet(N) /\ Cardinality(N) = 1 * Cardinality(K)
      BY <2>2, <3>1, FS_Product, Zenon
    <3> QED  BY <2>2, <3>2
  <2> HIDE DEF N
  <2>4. P = O + Cardinality(N) - Cardinality(Outstanding \cap N)
    BY <1>3, <2>1, <2>3, FS_Union, Zenon DEF N, O, P
  <2>5. Cardinality(Outstanding \cap N) \in Nat
    <3>1. Outstanding \cap N \in SUBSET Task  BY <1>2, Zenon
    <3> QED  BY <1>1, <3>1, Finite, Zenon
  <2>6. P <= O + Cardinality(K)  BY <1>3, <2>2, <2>3, <2>4, <2>5, SMTT(20)
  <2> QED  BY <1>3, <1>5, <1>6, <1>7, <1>11, <2>1, <2>2, <2>6, SMTT(20) DEF CountsSplits
<1>12. CASE CountsSplit /\ ~GivesUp
  <2>1. P = O - 1  BY <1>3, <1>12, FS_RemoveElement, ZenonT(30) DEF CountsSplit, O, P
  <2> QED  BY <1>3, <1>5, <1>6, <1>7, <1>12, <2>1, SMTT(20) DEF CountsSplit
<1> QED  BY <1>1, <1>8, <1>9, <1>10, <1>11, <1>12, Zenon

\* When the keys are collected every fetch has returned and every split is stored.
LEMMA AtCollect ==
  ASSUME IInv, MoreTypes, KeyInv, CountInv, SeqInv, NEW t \in Task, dpc[t] = "collect"
  PROVE  Last(t)
<1>0. Types /\ Sent  BY Zenon DEF IInv
<1>1. finished = total /\ returned = CallCount  BY Zenon DEF SeqInv
<1>2. /\ IsFiniteSet(Outstanding) /\ Cardinality(Outstanding) \in Nat
      /\ IsFiniteSet(Call) /\ Cardinality(Call) = CallCount /\ CallCount \in Nat
      /\ HandledCalls \in SUBSET Call /\ Cardinality(HandledCalls) \in Nat
  <2>1. Outstanding \in SUBSET Task /\ HandledCalls \in SUBSET Call
    BY Zenon DEF Outstanding, HandledCalls
  <2> QED  BY <1>0, <2>1, Finite, CallNumbers, Zenon
<1>3. Cardinality(Outstanding) = 0 /\ ~Deficit
  BY <1>1, <1>2 DEF CountInv, Deficit, MoreTypes
<1>4. Outstanding = {}  BY <1>2, <1>3, FS_EmptySet, Zenon
<1>5. CallCount <= Cardinality(HandledCalls)  BY <1>1, <1>3, Zenon DEF CountInv
<1>6. HandledCalls = Call  BY <1>2, <1>5, FS_Subset
<1>7. ASSUME NEW c \in Call
      PROVE  Handled(c) /\ fpc[c] \in {"decrypt", "done"} /\ Returned(c)
  <2>1. Handled(c)  BY <1>6, Zenon DEF HandledCalls
  <2>2. fpc[c] \in {"unsent", "pending", "done", "decrypt"}  BY Zenon DEF SeqInv
  <2> QED  BY <2>1, <2>2, Zenon DEF Handled, Returned
<1>8. \A u \in Task : ~Open(u)  BY <1>4, Zenon DEF Outstanding
<1>9. ASSUME NEW c \in Call, NEW k \in DOMAIN answer[c].keys
      PROVE  dpc[<<c, k>>] \in Past /\ decrypt_results[UriIndex(c)][k] # NULL
  <2>1. k \in KeyId /\ k # NULL  BY <1>0, <1>7, AnswerKeys, Tasks, Zenon DEF KeyInv
  <2>2. k \in todo[c] \/ dpc[<<c, k>>] # "none"  BY <1>7, Zenon DEF Handled
  <2>3. PICK s \in Task : s = <<c, k>> /\ s[1] = c /\ s[2] = k  BY <2>1, TaskOf, Zenon
  <2>4. dpc[s] \in Past  BY <1>0, <1>8, <2>1, <2>2, <2>3, Zenon DEF Open, Types, Past
  <2>5. Known(s)  BY <1>3, <2>1, <2>3, <2>4, Zenon DEF CountInv
  <2> QED  BY <2>3, <2>4, <2>5, Zenon DEF Known
<1>10. ASSUME NEW u \in Task, u # t PROVE dpc[u] \in {"none", "done"}
  <2>1. dpc[u] \in {"none", "pending", "done"}  BY <1>10, Zenon DEF SeqInv
  <2>2. u[2] # NULL => dpc[u] # "pending"  BY <1>8, Zenon DEF Open
  <2>3. u[2] = NULL => dpc[u] # "pending"
    <3>1. u = <<u[1], u[2]>> /\ u[1] \in Call  BY Tasks, Zenon
    <3> QED  BY <3>1 DEF KeyInv
  <2> QED  BY <2>1, <2>2, <2>3, Zenon
<1>11. lpc # "error"
  <2> SUFFICES ASSUME lpc = "error" PROVE FALSE  BY Zenon
  <2>1. sent + 1 \in Call /\ sent + 1 > sent  BY <1>0, CallNumbers
      DEF KeyInv, Types, Call
  <2>2. fpc[sent + 1] = "unsent"  BY <1>0, <2>1, Zenon DEF Sent
  <2> QED  BY <1>7, <2>1, <2>2, Zenon
<1> QED  BY <1>3, <1>4, <1>7, <1>9, <1>10, <1>11, Zenon DEF Last, AllIn

\* Sets of numbers have a least one.
LEMMA FirstSingle == Least
<1> SUFFICES ASSUME NEW S \in SUBSET Nat, S # {}
             PROVE  (CHOOSE d \in S : \A x \in S : d <= x) \in S
  BY Zenon DEF Least
<1>1. PICK m \in S : \A x \in S : <<x, m>> \notin OpToRel(<, Nat)
  BY WFMin, NatLessThanWellFounded, Zenon
<1>2. \A x \in S : <<x, m>> \in OpToRel(<, Nat) <=> x < m
  BY Zenon DEF OpToRel
<1>3. \A x \in S : ~(x < m)  BY <1>1, <1>2, Zenon
<1>4. \A x \in S : m <= x  BY <1>3
<1> QED  BY <1>4, Zenon

\* The invariant is inductive.
LEMMA InductiveCallInv == Spec => []SerialInv
<1>1. Init => SerialInv
  <2> SUFFICES ASSUME Init PROVE CallInv  BY Zenon DEF SerialInv
  <2>1. Types  BY InitIInv, Zenon DEF IInv
  <2>2. HandledCalls \in SUBSET Call  BY Zenon DEF HandledCalls
  <2>3. Cardinality(HandledCalls) \in Nat  BY <2>1, <2>2, Finite, Zenon
  <2> QED  BY <2>3, FS_EmptySet, InitCallInv, Zenon
<1>2. ASSUME CallInv, ~call.concurrent, [Next]_vars PROVE CallInv'
  <2>1. CASE OneStep
    <3>1. /\ IInv /\ MoreTypes /\ KeyInv /\ CountInv /\ SeqInv
          /\ Types
      BY <1>2, Zenon DEF CallInv, IInv
    <3>2. \A S \in SUBSET KeyId : Cardinality(S) \in Nat  BY <3>1, Finite, Zenon
    <3>3. CountInv' /\ (Deficit => Deficit') /\ (GivesUp => Deficit')
      BY <2>1, <3>1, CountStep, Zenon
    <3>4. \A t \in Task : dpc[t] = "collect" => Last(t)
      BY <3>1, AtCollect, Zenon
    <3> QED  BY <1>2, <2>1, <3>2, <3>3, <3>4, FirstSingle, StepCallInv, Zenon
  <2>2. CASE UNCHANGED vars
    BY <1>2, <2>2, StutterCallInv, Zenon
  <2>3. OneStep \/ UNCHANGED vars
    BY <1>2, Zenon DEF Next, Terminated, Step, OneStep, CollectRacing, IteratorInvalidated
  <2> QED  BY <2>1, <2>2, <2>3, Zenon
<1>3. SerialInv /\ [Next]_vars => SerialInv'
  <2>1. [Next]_vars => call' = call  BY Zenon DEF Next, Terminated, Step, vars
  <2> QED  BY <1>2, <2>1, Zenon DEF SerialInv
<1> QED  BY <1>1, <1>3, PTL DEF Spec

\* Unless callbacks race, or Decrypt both calls back and returns an error,
\* ListPrivateKeys calls the caller back at most once, whatever fails: a failure
\* keeps the counters from ever meeting, and when they meet no callback is left.
THEOREM FinishesOnce == Spec => []FinishedOnce
<1>1. SerialInv => FinishedOnce  BY Zenon DEF SerialInv, CallInv, OnceInv, FinishedOnce
<1> QED  BY <1>1, InductiveCallInv, PTL

\* Unless callbacks race, a response of ListPrivateKeys holds exactly the keys
\* that the answers of all endpoints add up to: the last callback runs after all
\* fetches have returned and every split is stored.
THEOREM ResponsesComplete == Spec => []SuccessComplete
<1>1. SerialInv => SuccessComplete
  BY Zenon DEF SerialInv, CallInv, CompleteInv, Complete, SuccessComplete
<1> QED  BY <1>1, InductiveCallInv, PTL

\* Unless callbacks race, ListPrivateKeys fails only because a fetch was refused
\* or failed, a split could not be sent or decrypted, or splits do not match.
THEOREM FailuresJustified == Spec => []FailureJustified
<1>1. SerialInv => FailureJustified
  BY Zenon DEF SerialInv, CallInv, CauseInv, Cause, FailureJustified
<1> QED  BY <1>1, InductiveCallInv, PTL

=============================================================================
