---------------------------- MODULE SharedSearch ----------------------------
(***************************************************************************)
(* Searches that share one request (searcher/search.go:174-204, 320-328):  *)
(* callers of Do with WithSingleflight meet under a key made of client,    *)
(* result type, index and a hash of the request; the first of them sends   *)
(* the request with its own context, the others wait for its answer        *)
(* whatever their own contexts do.  Count, DoAgg and Do without            *)
(* WithSingleflight ask for themselves.                                    *)
(*                                                                         *)
(* An answer is what the index had been given when Elasticsearch executed  *)
(* the request, which tells how old it is: one index that never goes back, *)
(* without the delay and the replicas a real one has.  A hash of eight     *)
(* bytes is taken to tell requests apart.                                  *)
(***************************************************************************)
EXTENDS Content

CONSTANTS
  Callers,
  Queries,        \* what a request asks for, its index included
  Types,          \* result types T
  TypeName,       \* as they are printed: types of two packages may look alike
  Searches,       \* what callers ask for (bound of the instance)
  IndexOf,        \* the model whose alias a query names
  Unmarshalable,  \* queries json.Marshal refuses
  None,           \* no caller, no answer
  MaxSearches     \* bound of the instance

ASSUME SearchAssumption ==
  /\ IndexOf \in [Queries -> Models]
  /\ Searches \subseteq [query : Queries, type : Types] /\ Searches # {}
  /\ Unmarshalable \subseteq Queries
  /\ None \notin Callers \cup Queries /\ None \notin Nat
  /\ MaxSearches \in Nat

\* MUTANT: the key leaves the request out.
KeyMutant(s) == [index |-> IndexOf[s.query], type |-> TypeName[s.type], hash |-> None]

\* cacheKey: what cannot be marshalled has a key per client, type and index.
Key(s) == IF s.query \in Unmarshalable
          THEN [index |-> IndexOf[s.query], type |-> TypeName[s.type], hash |-> None]
          ELSE [index |-> IndexOf[s.query], type |-> TypeName[s.type], hash |-> s.query]

Keys == {Key(s) : s \in Searches}

VARIABLES
  searching,   \* where each caller is
  asked,       \* its search
  leader,      \* per key, the caller whose call the group holds
  answer,      \* what Elasticsearch has answered to a leader or a lone caller
  result,      \* what a caller got last: the search that was sent, the answer
  floor,       \* history: what the index showed when the key's last call ended
  least,       \* history: that value when the caller asked
  searches     \* searches so far (bound)

search_vars == <<searching, asked, leader, answer, result, floor, least, searches>>

SearchTypeOK ==
  /\ ContentTypeOK
  /\ searching \in [Callers -> {"idle", "lead", "wait", "alone"}]
  /\ asked \in [Callers -> Searches]
  /\ leader \in [Keys -> Callers \cup {None}]
  /\ answer \in [Callers -> Nat \cup {None}]
  /\ result \in [Callers -> [search : Searches, answer : Nat \cup {None}]]
  /\ floor \in [Keys -> Nat]
  /\ least \in [Callers -> Nat]
  /\ searches \in Nat

SearchInit ==
  /\ searching = [c \in Callers |-> "idle"]
  /\ asked \in [Callers -> {CHOOSE s \in Searches : TRUE}]
  /\ leader = [k \in Keys |-> None]
  /\ answer = [c \in Callers |-> None]
  /\ result = [c \in Callers |-> [search |-> asked[c], answer |-> None]]
  /\ floor = [k \in Keys |-> 0]
  /\ least = [c \in Callers |-> 0]
  /\ searches = 0

-----------------------------------------------------------------------------
Ask(c, s, state) ==
  /\ searching[c] = "idle"
  /\ searches < MaxSearches
  /\ searches' = searches + 1
  /\ searching' = [searching EXCEPT ![c] = state]
  /\ asked' = [asked EXCEPT ![c] = s]
  /\ result' = [result EXCEPT ![c].answer = None]
  /\ UNCHANGED <<answer, floor, content>>

\* MUTANT: nobody looks for a call under the key.
LeadMutant(c, s) ==
  /\ Ask(c, s, "lead")
  /\ leader' = [leader EXCEPT ![Key(s)] = c]
  /\ least' = [least EXCEPT ![c] = floor[Key(s)]]

\* The group has no call under the key: this caller makes one.
Lead(c, s) ==
  /\ leader[Key(s)] = None
  /\ Ask(c, s, "lead")
  /\ leader' = [leader EXCEPT ![Key(s)] = c]
  /\ least' = [least EXCEPT ![c] = floor[Key(s)]]

\* It has one: this caller waits for it.
Join(c, s) ==
  /\ leader[Key(s)] # None
  /\ Ask(c, s, "wait")
  /\ least' = [least EXCEPT ![c] = floor[Key(s)]]
  /\ UNCHANGED leader

AskAlone(c, s) ==
  /\ Ask(c, s, "alone")
  /\ least' = [least EXCEPT ![c] = docs[IndexOf[s.query]]]
  /\ UNCHANGED leader

\* MUTANT: an answer somebody still has is taken for the answer.
EsSearchesMutant(c) ==
  /\ searching[c] \in {"lead", "alone"}
  /\ asked[c].query \notin Unmarshalable
  /\ answer[c] = None
  /\ \E d \in Callers :
       /\ result[d].answer # None => result[d].search = asked[c]
       /\ answer' = [answer EXCEPT ![c] = IF result[d].answer # None THEN result[d].answer
                                          ELSE docs[IndexOf[asked[c].query]]]
  /\ UNCHANGED <<searching, asked, leader, result, floor, least, searches, content>>

\* Elasticsearch executes a request; one that cannot be marshalled is never sent.
EsSearches(c) ==
  /\ searching[c] \in {"lead", "alone"}
  /\ asked[c].query \notin Unmarshalable
  /\ answer[c] = None
  /\ answer' = [answer EXCEPT ![c] = docs[IndexOf[asked[c].query]]]
  /\ UNCHANGED <<searching, asked, leader, result, floor, least, searches, content>>

\* MUTANT: those who wait are not told.
ServedMutant(c) == {c}

\* The callers that get what c's request ends with.
Served(c) ==
  {c} \cup {d \in Callers : /\ searching[c] = "lead" /\ searching[d] = "wait"
                            /\ Key(asked[d]) = Key(asked[c])}

\* What d gets of it: an error, if the result is of another type than d's.
Handed(c, d, value) == IF asked[d].type = asked[c].type THEN value ELSE None

End(c, value) ==
  /\ searching' = [d \in Callers |-> IF d \in Served(c) THEN "idle" ELSE searching[d]]
  /\ result' = [d \in Callers |-> IF d \in Served(c)
                                  THEN [search |-> asked[c], answer |-> Handed(c, d, value)]
                                  ELSE result[d]]
  /\ IF searching[c] = "lead"
     THEN /\ leader' = [leader EXCEPT ![Key(asked[c])] = None]
          /\ floor' = [floor EXCEPT ![Key(asked[c])] = docs[IndexOf[asked[c].query]]]
     ELSE UNCHANGED <<leader, floor>>
  /\ answer' = [answer EXCEPT ![c] = None]
  /\ least' = [d \in Callers |-> IF d \in Served(c) THEN 0 ELSE least[d]]
  /\ UNCHANGED <<asked, searches, content>>

SearchReturns(c) ==
  /\ searching[c] \in {"lead", "alone"}
  /\ answer[c] # None
  /\ End(c, answer[c])

\* Refused, unmarshalable, timed out, or cancelled by c's own context.
SearchFails(c) ==
  /\ searching[c] \in {"lead", "alone"}
  /\ End(c, None)

SearchEnds(c) == SearchReturns(c) \/ SearchFails(c)

SearchStep ==
  \E c \in Callers :
    \/ \E s \in Searches : Lead(c, s) \/ Join(c, s) \/ AskAlone(c, s)
    \/ EsSearches(c) \/ SearchEnds(c)

\* Meanwhile the index is given more.
IndexGrows ==
  /\ lost' \in [Models -> Nat] /\ \A m \in Models : lost'[m] <= docs'[m]
  /\ docs' \in [Models -> Nat]
  /\ \A m \in Models : docs'[m] >= docs[m] /\ docs'[m] <= rows'[m]
  /\ rows' \in [Models -> Nat]

SearchNext == SearchStep \/ (IndexGrows /\ UNCHANGED search_vars)

SearchSpec == ContentTypeOK /\ SearchInit /\ [][SearchNext]_<<search_vars, content>>

\* A request ends: the transport bounds the time to an answer.
SearchFairness == \A c \in Callers : WF_<<search_vars, content>>(SearchEnds(c))

-----------------------------------------------------------------------------
(* Properties.                                                              *)

(* Equal searches in flight are one request (README.md:21), and whoever     *)
(* waits has a leader that will wake it.                                    *)
OneRequestPerKey ==
  /\ \A c, d \in Callers : /\ searching[c] = "lead" /\ searching[d] = "lead"
                           /\ Key(asked[c]) = Key(asked[d])
                           => c = d
  /\ \A c \in Callers : searching[c] = "wait" =>
       \E d \in Callers : searching[d] = "lead" /\ Key(asked[d]) = Key(asked[c])

(* The documents a caller gets are those of its own query in its own type,  *)
(* though queries that cannot be marshalled share a key (search.go:323-325) *)
(* with types that are only printed alike, and one group serves all types   *)
(* (search.go:20, 183-186).                                                 *)
OwnAnswer ==
  \A c \in Callers : result[c].answer # None => result[c].search = asked[c]

(* A shared answer comes from a request that was still under way when the   *)
(* caller asked, never from one that had ended: what the index had been     *)
(* given when the last one ended is the least a caller gets                 *)
(* (search.go:177-179).                                                     *)
NoReuse ==
  [][\A c \in Callers :
       searching[c] # "idle" /\ searching'[c] = "idle" /\ result'[c].answer # None
         => result'[c].answer >= least[c]]_<<search_vars, content>>

(* Whoever asks gets an answer or an error in the end, also behind another  *)
(* caller's request.                                                        *)
SearchesReturn == \A c \in Callers : searching[c] # "idle" ~> searching[c] = "idle"
=============================================================================
