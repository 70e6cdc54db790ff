------------------------- MODULE SharedSearch_proofs -------------------------
(***************************************************************************)
(* Searches that share a request, for every number of callers, queries,    *)
(* types and models, while the indices grow.                               *)
(***************************************************************************)
EXTENDS SharedSearch, TLAPS

(* The group and the callers agree on who leads (search.go:177-179).        *)
Led ==
  /\ \A k \in Keys : leader[k] # None =>
       searching[leader[k]] = "lead" /\ Key(asked[leader[k]]) = k
  /\ \A c \in Callers : searching[c] = "lead" => leader[Key(asked[c])] = c
  /\ \A c \in Callers : searching[c] = "wait" => leader[Key(asked[c])] # None

(* What an answer is worth: no less than what the index showed when the     *)
(* last call under the key ended, which is what its callers were promised.  *)
Fresh ==
  /\ \A k \in Keys : floor[k] <= docs[k.index]
  /\ \A c \in Callers : searching[c] \in {"lead", "wait"} => least[c] = floor[Key(asked[c])]
  /\ \A c \in Callers : searching[c] = "alone" => least[c] <= docs[IndexOf[asked[c].query]]
  /\ \A c \in Callers : answer[c] # None =>
       /\ searching[c] \in {"lead", "alone"}
       /\ asked[c].query \notin Unmarshalable
       /\ answer[c] >= least[c]

SearchInv == SearchTypeOK /\ Led /\ Fresh /\ OwnAnswer

search_and_content == <<search_vars, content>>

(* cacheKey (search.go:320-328): the index is a part of it, and searches    *)
(* with the same key have the same query unless it cannot be marshalled.    *)
LEMMA KeyFacts ==
  ASSUME NEW s \in Searches
  PROVE  /\ Key(s) \in Keys
         /\ Key(s).index = IndexOf[s.query]
         /\ IndexOf[s.query] \in Models
         /\ \A t \in Searches : Key(s) = Key(t) /\ s.query \notin Unmarshalable => s.query = t.query
  <1>1. Key(s) \in Keys
    BY DEF Keys
  <1>2. Key(s).index = IndexOf[s.query]
    BY DEF Key
  <1>3. IndexOf[s.query] \in Models
    BY SearchAssumption
  <1>4. ASSUME NEW t \in Searches, Key(s) = Key(t), s.query \notin Unmarshalable
        PROVE  s.query = t.query
    <2>1. s \in [query : Queries, type : Types] /\ t \in [query : Queries, type : Types]
      BY SearchAssumption
    <2>2. Key(s).hash = s.query
      BY <1>4 DEF Key
    <2>3. s.query \in Queries /\ None \notin Queries
      BY <2>1, SearchAssumption
    <2>4. Key(t).hash = (IF t.query \in Unmarshalable THEN None ELSE t.query)
      BY DEF Key
    <2> QED BY <1>4, <2>2, <2>3, <2>4
  <1> QED BY <1>1, <1>2, <1>3, <1>4

(* Nothing has been asked before the program runs (search.go:20).           *)
LEMMA SearchStarts == ContentTypeOK /\ SearchInit => SearchInv
  <1> SUFFICES ASSUME ContentTypeOK, SearchInit PROVE SearchInv
    OBVIOUS
  <1>1. asked \in [Callers -> Searches]
    BY SearchAssumption DEF SearchInit
  <1>2. /\ searching = [c \in Callers |-> "idle"] /\ answer = [c \in Callers |-> None]
        /\ leader = [k \in Keys |-> None] /\ floor = [k \in Keys |-> 0]
        /\ least = [c \in Callers |-> 0] /\ searches = 0
        /\ result = [c \in Callers |-> [search |-> asked[c], answer |-> None]]
    BY DEF SearchInit
  <1>3. SearchTypeOK
    BY <1>1, <1>2 DEF SearchTypeOK
  <1>4. Led
    BY <1>2 DEF Led
  <1>5. ASSUME NEW k \in Keys PROVE floor[k] <= docs[k.index]
    <2>1. PICK s \in Searches : k = Key(s)
      BY DEF Keys
    <2> QED BY <1>2, <2>1, KeyFacts DEF ContentTypeOK
  <1>6. Fresh
    BY <1>2, <1>5 DEF Fresh
  <1>7. OwnAnswer
    BY <1>2 DEF OwnAnswer
  <1> QED BY <1>3, <1>4, <1>6, <1>7 DEF SearchInv

(* Do, up to the point where the caller leads, waits or asks alone          *)
(* (search.go:174-189).                                                     *)
LEMMA AskKeepsInv ==
  ASSUME SearchInv, NEW c \in Callers, NEW s \in Searches,
         Lead(c, s) \/ Join(c, s) \/ AskAlone(c, s)
  PROVE  SearchInv'
  <1>0. /\ searching[c] = "idle" /\ searches' = searches + 1
        /\ asked' = [asked EXCEPT ![c] = s] /\ result' = [result EXCEPT ![c].answer = None]
        /\ UNCHANGED <<answer, floor, rows, docs, lost>>
    BY DEF Lead, Join, AskAlone, Ask, content
  <1>1. SearchTypeOK
    BY DEF SearchInv
  <1>2. /\ searching \in [Callers -> {"idle", "lead", "wait", "alone"}]
        /\ asked \in [Callers -> Searches] /\ leader \in [Keys -> Callers \cup {None}]
        /\ answer \in [Callers -> Nat \cup {None}] /\ floor \in [Keys -> Nat]
        /\ least \in [Callers -> Nat] /\ docs \in [Models -> Nat]
    BY <1>1 DEF SearchTypeOK, ContentTypeOK
  <1>3. /\ Key(s) \in Keys /\ Key(s).index = IndexOf[s.query] /\ IndexOf[s.query] \in Models
        /\ \A d \in Callers : Key(asked[d]) \in Keys
    BY <1>2, KeyFacts
  <1>4. answer[c] = None
    BY <1>0 DEF SearchInv, Fresh
  <1>5. PICK state \in {"lead", "wait", "alone"}, n \in Nat :
          /\ searching' = [searching EXCEPT ![c] = state]
          /\ least' = [least EXCEPT ![c] = n]
          /\ state = "lead" => leader[Key(s)] = None
          /\ state = "wait" => leader[Key(s)] # None
          /\ leader' = IF state = "lead" THEN [leader EXCEPT ![Key(s)] = c] ELSE leader
          /\ n = IF state = "alone" THEN docs[IndexOf[s.query]] ELSE floor[Key(s)]
    <2>1. CASE Lead(c, s)
      <3>1. floor[Key(s)] \in Nat
        BY <1>2, <1>3
      <3> QED BY <2>1, <3>1 DEF Lead, Ask
    <2>2. CASE Join(c, s)
      <3>1. floor[Key(s)] \in Nat
        BY <1>2, <1>3
      <3> QED BY <2>2, <3>1 DEF Join, Ask
    <2>3. CASE AskAlone(c, s)
      <3>1. docs[IndexOf[s.query]] \in Nat
        BY <1>2, <1>3
      <3> QED BY <2>3, <3>1 DEF AskAlone, Ask
    <2> QED BY <2>1, <2>2, <2>3
  <1>6. SearchTypeOK'
    <2>1. result' \in [Callers -> [search : Searches, answer : Nat \cup {None}]]
      BY <1>0, <1>1 DEF SearchTypeOK
    <2>2. searches' \in Nat
      BY <1>0, <1>1 DEF SearchTypeOK
    <2>3. ContentTypeOK'
      BY <1>0, <1>1 DEF SearchTypeOK, ContentTypeOK
    <2>4. searching' \in [Callers -> {"idle", "lead", "wait", "alone"}]
      BY <1>2, <1>5
    <2>5. leader' \in [Keys -> Callers \cup {None}]
      BY <1>2, <1>3, <1>5
    <2>6. asked' \in [Callers -> Searches] /\ least' \in [Callers -> Nat]
      BY <1>0, <1>2, <1>5
    <2> QED BY <1>0, <1>2, <2>1, <2>2, <2>3, <2>4, <2>5, <2>6 DEF SearchTypeOK
  <1>7. Led'
    <2> USE <1>0, <1>2, <1>3, <1>5
    <2>1. ASSUME NEW k \in Keys, leader'[k] # None
          PROVE  searching'[leader'[k]] = "lead" /\ Key(asked'[leader'[k]]) = k
      BY <2>1, SearchAssumption DEF SearchInv, Led
    <2>2. ASSUME NEW d \in Callers, searching'[d] = "lead"
          PROVE  leader'[Key(asked'[d])] = d
      BY <2>2, SearchAssumption DEF SearchInv, Led
    <2>3. ASSUME NEW d \in Callers, searching'[d] = "wait"
          PROVE  leader'[Key(asked'[d])] # None
      BY <2>3, SearchAssumption DEF SearchInv, Led
    <2> QED BY <2>1, <2>2, <2>3 DEF Led
  <1>8. Fresh'
    BY <1>0, <1>2, <1>3, <1>4, <1>5 DEF SearchInv, Fresh
  <1>9. OwnAnswer'
    BY <1>0, <1>1 DEF SearchInv, OwnAnswer, SearchTypeOK
  <1> QED BY <1>6, <1>7, <1>8, <1>9 DEF SearchInv

(* Elasticsearch executes the request of a leader or a lone caller.         *)
LEMMA EsKeepsInv ==
  ASSUME SearchInv, NEW c \in Callers, EsSearches(c)
  PROVE  SearchInv'
  <1>1. /\ searching[c] \in {"lead", "alone"} /\ asked[c].query \notin Unmarshalable
        /\ answer' = [answer EXCEPT ![c] = docs[IndexOf[asked[c].query]]]
        /\ UNCHANGED <<searching, asked, leader, result, floor, least, searches, rows, docs, lost>>
    BY DEF EsSearches, content
  <1>2. SearchTypeOK
    BY DEF SearchInv
  <1>3. /\ asked[c] \in Searches /\ docs \in [Models -> Nat] /\ floor \in [Keys -> Nat]
        /\ answer \in [Callers -> Nat \cup {None}] /\ least \in [Callers -> Nat]
    BY <1>2 DEF SearchTypeOK, ContentTypeOK
  <1>4. /\ Key(asked[c]) \in Keys /\ Key(asked[c]).index = IndexOf[asked[c].query]
        /\ docs[IndexOf[asked[c].query]] \in Nat
    BY <1>3, KeyFacts
  <1>5. docs[IndexOf[asked[c].query]] >= least[c]
    BY <1>1, <1>3, <1>4 DEF SearchInv, Fresh
  <1>6. SearchTypeOK'
    <2>1. answer' \in [Callers -> Nat \cup {None}]
      BY <1>1, <1>3, <1>4
    <2> QED BY <1>1, <1>2, <2>1 DEF SearchTypeOK, ContentTypeOK
  <1>7. Led' /\ OwnAnswer'
    BY <1>1 DEF SearchInv, Led, OwnAnswer
  <1>8. Fresh'
    BY <1>1, <1>3, <1>5 DEF SearchInv, Fresh
  <1> QED BY <1>6, <1>7, <1>8 DEF SearchInv

(* Everybody who is served has the query that was sent when it is answered, *)
(* and it is worth what they were promised (search.go:177-188).             *)
LEMMA ServedFacts ==
  ASSUME SearchInv, NEW c \in Callers, searching[c] \in {"lead", "alone"},
         NEW d \in Served(c)
  PROVE  /\ d \in Callers
         /\ answer[c] # None => asked[d].query = asked[c].query /\ answer[c] >= least[d]
  <1>1. d \in Callers
    BY DEF Served
  <1>2. asked[c] \in Searches /\ asked[d] \in Searches
    BY <1>1 DEF SearchInv, SearchTypeOK
  <1>3. CASE d = c
    BY <1>1, <1>3 DEF SearchInv, Fresh
  <1>4. CASE d # c
    <2>1. searching[c] = "lead" /\ searching[d] = "wait" /\ Key(asked[d]) = Key(asked[c])
      BY <1>4 DEF Served
    <2>2. least[d] = least[c]
      BY <1>1, <2>1 DEF SearchInv, Fresh
    <2>3. answer[c] # None => asked[c].query \notin Unmarshalable /\ answer[c] >= least[c]
      BY DEF SearchInv, Fresh
    <2>4. answer[c] # None => asked[d].query = asked[c].query
      BY <1>2, <2>1, <2>3, KeyFacts
    <2> QED BY <1>1, <2>2, <2>3, <2>4
  <1> QED BY <1>3, <1>4

(* The request ends: with an answer or an error for all it was made for     *)
(* (search.go:177-203).                                                     *)
LEMMA EndKeepsInv ==
  ASSUME SearchInv, NEW c \in Callers, SearchEnds(c)
  PROVE  SearchInv'
  <1>1. PICK value \in {None, answer[c]} : End(c, value) /\ searching[c] \in {"lead", "alone"}
    BY DEF SearchEnds, SearchReturns, SearchFails
  <1>2. /\ searching' = [d \in Callers |-> IF d \in Served(c) THEN "idle" ELSE searching[d]]
        /\ result' = [d \in Callers |-> IF d \in Served(c)
                        THEN [search |-> asked[c], answer |-> Handed(c, d, value)] ELSE result[d]]
        /\ answer' = [answer EXCEPT ![c] = None]
        /\ least' = [d \in Callers |-> IF d \in Served(c) THEN 0 ELSE least[d]]
        /\ UNCHANGED <<asked, searches, rows, docs, lost>>
    BY <1>1 DEF End, content
  <1>3. SearchTypeOK
    BY DEF SearchInv
  <1>4. /\ searching \in [Callers -> {"idle", "lead", "wait", "alone"}]
        /\ asked \in [Callers -> Searches] /\ leader \in [Keys -> Callers \cup {None}]
        /\ answer \in [Callers -> Nat \cup {None}] /\ floor \in [Keys -> Nat]
        /\ least \in [Callers -> Nat] /\ docs \in [Models -> Nat] /\ None \notin Callers
        /\ result \in [Callers -> [search : Searches, answer : Nat \cup {None}]]
    BY <1>3, SearchAssumption DEF SearchTypeOK, ContentTypeOK
  <1>5. /\ Key(asked[c]) \in Keys /\ Key(asked[c]).index = IndexOf[asked[c].query]
        /\ docs[IndexOf[asked[c].query]] \in Nat
        /\ \A d \in Callers : Key(asked[d]) \in Keys
    BY <1>4, KeyFacts
  <1>6. /\ searching[c] = "lead" =>
             /\ leader' = [leader EXCEPT ![Key(asked[c])] = None]
             /\ floor' = [floor EXCEPT ![Key(asked[c])] = docs[IndexOf[asked[c].query]]]
        /\ searching[c] = "alone" => UNCHANGED <<leader, floor>>
    BY <1>1 DEF End
  <1>7. SearchTypeOK'
    <2>1. searching' \in [Callers -> {"idle", "lead", "wait", "alone"}]
      BY <1>2, <1>4
    <2>2. result' \in [Callers -> [search : Searches, answer : Nat \cup {None}]]
      <3>1. \A d \in Callers : [search |-> asked[c], answer |-> Handed(c, d, value)]
                              \in [search : Searches, answer : Nat \cup {None}]
        BY <1>4 DEF Handed
      <3> QED BY <1>2, <1>4, <3>1
    <2>3. answer' \in [Callers -> Nat \cup {None}] /\ least' \in [Callers -> Nat]
      BY <1>2, <1>4
    <2>4. leader' \in [Keys -> Callers \cup {None}] /\ floor' \in [Keys -> Nat]
      BY <1>1, <1>4, <1>5, <1>6
    <2> QED BY <1>2, <1>3, <2>1, <2>2, <2>3, <2>4 DEF SearchTypeOK, ContentTypeOK
  <1>8. \* Who goes on, and under which key.
        ASSUME NEW d \in Callers, searching'[d] # "idle"
        PROVE  /\ d \notin Served(c) /\ d # c
               /\ searching'[d] = searching[d] /\ searching[d] # "idle" /\ least'[d] = least[d]
               /\ searching[c] = "lead" /\ searching[d] \in {"lead", "wait"}
                    => Key(asked[d]) # Key(asked[c])
    <2>1. d \notin Served(c) /\ searching'[d] = searching[d] /\ least'[d] = least[d]
      BY <1>2, <1>8
    <2>2. d # c /\ (searching[c] = "lead" /\ searching[d] = "wait" => Key(asked[d]) # Key(asked[c]))
      BY <2>1 DEF Served
    <2>3. searching[c] = "lead" /\ searching[d] = "lead" => Key(asked[d]) # Key(asked[c])
      BY <2>2 DEF SearchInv, Led
    <2> QED BY <1>8, <2>1, <2>2, <2>3
  <1>9. Led'
    <2>1. ASSUME NEW k \in Keys, leader'[k] # None
          PROVE  searching'[leader'[k]] = "lead" /\ Key(asked'[leader'[k]]) = k
      <3>1. leader'[k] = leader[k] /\ leader[k] \in Callers
        BY <1>1, <1>4, <1>5, <1>6, <2>1
      <3>2. searching[leader[k]] = "lead" /\ Key(asked[leader[k]]) = k
        BY <2>1, <3>1 DEF SearchInv, Led
      <3>3. leader[k] # c
        <4>1. CASE searching[c] = "lead"
          <5>1. k # Key(asked[c])
            BY <1>4, <1>5, <1>6, <2>1, <4>1
          <5> QED BY <3>2, <5>1
        <4>2. CASE searching[c] = "alone"
          BY <3>2, <4>2
        <4> QED BY <1>1, <4>1, <4>2
      <3>4. leader[k] \notin Served(c)
        BY <3>2, <3>3 DEF Served
      <3> QED BY <1>2, <3>1, <3>2, <3>4
    <2>2. ASSUME NEW d \in Callers, searching'[d] = "lead"
          PROVE  leader'[Key(asked'[d])] = d
      <3>1. searching[d] = "lead" /\ (searching[c] = "lead" => Key(asked[d]) # Key(asked[c]))
        BY <1>8, <2>2
      <3>2. leader[Key(asked[d])] = d /\ Key(asked[d]) \in Keys
        BY <1>5, <3>1 DEF SearchInv, Led
      <3> QED BY <1>1, <1>2, <1>4, <1>6, <3>1, <3>2
    <2>3. ASSUME NEW d \in Callers, searching'[d] = "wait"
          PROVE  leader'[Key(asked'[d])] # None
      <3>1. searching[d] = "wait" /\ (searching[c] = "lead" => Key(asked[d]) # Key(asked[c]))
        BY <1>8, <2>3
      <3>2. leader[Key(asked[d])] # None /\ Key(asked[d]) \in Keys
        BY <1>5, <3>1 DEF SearchInv, Led
      <3> QED BY <1>1, <1>2, <1>4, <1>6, <3>1, <3>2
    <2> QED BY <2>1, <2>2, <2>3 DEF Led
  <1>10. Fresh'
    <2>1. ASSUME NEW k \in Keys PROVE floor'[k] <= docs'[k.index]
      <3>1. floor[k] <= docs[k.index]
        BY DEF SearchInv, Fresh
      <3>2. docs' = docs
        BY <1>2
      <3>3. CASE searching[c] = "lead" /\ k = Key(asked[c])
        <4>1. floor'[k] = docs[IndexOf[asked[c].query]] /\ k.index = IndexOf[asked[c].query]
          BY <1>4, <1>5, <1>6, <3>3
        <4> QED BY <1>5, <3>2, <4>1
      <3>4. CASE ~(searching[c] = "lead" /\ k = Key(asked[c]))
        <4>1. floor'[k] = floor[k]
          BY <1>1, <1>4, <1>6, <3>4
        <4> QED BY <3>1, <3>2, <4>1
      <3> QED BY <3>3, <3>4
    <2>2. ASSUME NEW d \in Callers, searching'[d] \in {"lead", "wait"}
          PROVE  least'[d] = floor'[Key(asked'[d])]
      <3>1. /\ searching[d] \in {"lead", "wait"} /\ least'[d] = least[d]
            /\ searching[c] = "lead" => Key(asked[d]) # Key(asked[c])
        BY <1>8, <2>2
      <3>2. least[d] = floor[Key(asked[d])] /\ Key(asked[d]) \in Keys
        BY <1>5, <3>1 DEF SearchInv, Fresh
      <3> QED BY <1>1, <1>2, <1>4, <1>6, <3>1, <3>2
    <2>3. ASSUME NEW d \in Callers, searching'[d] = "alone"
          PROVE  least'[d] <= docs'[IndexOf[asked'[d].query]]
      <3>1. searching[d] = "alone" /\ least'[d] = least[d]
        BY <1>8, <2>3
      <3> QED BY <1>2, <3>1 DEF SearchInv, Fresh
    <2>4. ASSUME NEW d \in Callers, answer'[d] # None
          PROVE  /\ searching'[d] \in {"lead", "alone"}
                 /\ asked'[d].query \notin Unmarshalable
                 /\ answer'[d] >= least'[d]
      <3>1. d # c /\ answer'[d] = answer[d]
        BY <1>2, <1>4, <2>4
      <3>2. searching[d] \in {"lead", "alone"} /\ asked[d].query \notin Unmarshalable
            /\ answer[d] >= least[d]
        BY <2>4, <3>1 DEF SearchInv, Fresh
      <3>3. d \notin Served(c)
        BY <3>1, <3>2 DEF Served
      <3> QED BY <1>2, <3>1, <3>2, <3>3
    <2> QED BY <2>1, <2>2, <2>3, <2>4 DEF Fresh
  <1>11. OwnAnswer'
    <2> SUFFICES ASSUME NEW d \in Callers, result'[d].answer # None
                 PROVE  result'[d].search = asked'[d]
      BY DEF OwnAnswer
    <2>1. CASE d \in Served(c)
      <3>1. result'[d] = [search |-> asked[c], answer |-> Handed(c, d, value)]
        BY <1>2, <2>1
      <3>2. answer[c] # None /\ asked[d].type = asked[c].type
        BY <3>1 DEF Handed
      <3>3. asked[d].query = asked[c].query
        BY <1>1, <2>1, <3>2, ServedFacts
      <3>4. asked[d] \in [query : Queries, type : Types] /\ asked[c] \in [query : Queries, type : Types]
        BY <1>4, SearchAssumption
      <3>5. asked[d] = asked[c]
        BY <3>2, <3>3, <3>4
      <3> QED BY <1>2, <3>1, <3>5
    <2>2. CASE d \notin Served(c)
      BY <1>2, <2>2 DEF SearchInv, OwnAnswer
    <2> QED BY <2>1, <2>2
  <1> QED BY <1>7, <1>9, <1>10, <1>11 DEF SearchInv

(* A rebuild or a write changes the index while searches are under way.     *)
LEMMA GrowthKeepsInv ==
  ASSUME SearchInv, IndexGrows \/ UNCHANGED content, UNCHANGED search_vars
  PROVE  SearchInv'
  <1>1. /\ UNCHANGED <<searching, asked, leader, answer, result, floor, least, searches>>
        /\ docs \in [Models -> Nat] /\ docs' \in [Models -> Nat]
        /\ \A m \in Models : docs[m] <= docs'[m]
        /\ ContentTypeOK'
    BY DEF search_vars, IndexGrows, content, SearchInv, SearchTypeOK, ContentTypeOK
  <1>2. SearchTypeOK' /\ Led' /\ OwnAnswer'
    BY <1>1 DEF SearchInv, SearchTypeOK, Led, OwnAnswer
  <1>3. ASSUME NEW k \in Keys PROVE floor[k] <= docs'[k.index]
    <2>1. PICK s \in Searches : k = Key(s)
      BY DEF Keys
    <2>2. k.index \in Models /\ floor[k] <= docs[k.index] /\ floor[k] \in Nat
      BY <2>1, KeyFacts DEF SearchInv, Fresh, SearchTypeOK
    <2> QED BY <1>1, <2>2
  <1>4. ASSUME NEW c \in Callers, searching[c] = "alone"
        PROVE  least[c] <= docs'[IndexOf[asked[c].query]]
    <2>1. IndexOf[asked[c].query] \in Models /\ least[c] \in Nat
      BY KeyFacts DEF SearchInv, SearchTypeOK
    <2>2. least[c] <= docs[IndexOf[asked[c].query]]
      BY <1>4 DEF SearchInv, Fresh
    <2> QED BY <1>1, <2>1, <2>2
  <1>5. Fresh'
    BY <1>1, <1>3, <1>4 DEF SearchInv, Fresh
  <1> QED BY <1>2, <1>5 DEF SearchInv

(* Every step of a caller, of Elasticsearch and of whoever changes the      *)
(* index keeps the invariant.                                               *)
LEMMA SearchStepKeepsInv ==
  ASSUME SearchInv, [SearchNext]_search_and_content
  PROVE  SearchInv'
  <1>1. CASE SearchStep
    <2>1. PICK c \in Callers :
            \/ \E s \in Searches : Lead(c, s) \/ Join(c, s) \/ AskAlone(c, s)
            \/ EsSearches(c) \/ SearchEnds(c)
      BY <1>1 DEF SearchStep
    <2> QED BY <2>1, AskKeepsInv, EsKeepsInv, EndKeepsInv
  <1>2. CASE IndexGrows /\ UNCHANGED search_vars
    BY <1>2, GrowthKeepsInv
  <1>3. CASE UNCHANGED search_and_content
    BY <1>3, GrowthKeepsInv DEF search_and_content
  <1> QED BY <1>1, <1>2, <1>3 DEF SearchNext

(* Type correctness, and how the group, its callers and the indices hang    *)
(* together (search.go:174-190).                                            *)
THEOREM SearchInvariant == SearchSpec => []SearchInv
  <1>1. SearchInv /\ [SearchNext]_search_and_content => SearchInv'
    BY SearchStepKeepsInv
  <1> QED BY SearchStarts, <1>1, PTL DEF SearchSpec, search_and_content

(* One leader per key, and one for everybody who waits (search.go:177).     *)
LEMMA InvMeansOneRequest == SearchInv => OneRequestPerKey
  <1> SUFFICES ASSUME SearchInv PROVE OneRequestPerKey
    OBVIOUS
  <1>1. /\ asked \in [Callers -> Searches] /\ leader \in [Keys -> Callers \cup {None}]
        /\ \A c \in Callers : Key(asked[c]) \in Keys
    BY KeyFacts DEF SearchInv, SearchTypeOK
  <1> QED BY <1>1 DEF OneRequestPerKey, SearchInv, Led

(* Equal searches in flight are one request (README.md:21).                 *)
THEOREM SharedOnce == SearchSpec => []OneRequestPerKey
  BY SearchInvariant, InvMeansOneRequest, PTL

(* A caller gets the documents of its own search, though a key may stand    *)
(* for several (search.go:320-328).                                         *)
THEOREM EveryoneItsOwn == SearchSpec => []OwnAnswer
  <1>1. SearchInv => OwnAnswer
    BY DEF SearchInv
  <1> QED BY SearchInvariant, <1>1, PTL

(* Who becomes idle with an answer was served by a request worth it.        *)
LEMMA StepDoesNotReuse ==
  ASSUME SearchInv, [SearchNext]_search_and_content,
         NEW c \in Callers,
         searching[c] # "idle", searching'[c] = "idle", result'[c].answer # None
  PROVE  result'[c].answer >= least[c]
  <1>1. SearchStep
    BY DEF SearchNext, search_vars, search_and_content
  <1>2. PICK d \in Callers :
          \/ \E s \in Searches : Lead(d, s) \/ Join(d, s) \/ AskAlone(d, s)
          \/ EsSearches(d) \/ SearchEnds(d)
    BY <1>1 DEF SearchStep
  <1>3. searching \in [Callers -> {"idle", "lead", "wait", "alone"}]
    BY DEF SearchInv, SearchTypeOK
  <1>4. CASE \E s \in Searches : Lead(d, s) \/ Join(d, s) \/ AskAlone(d, s)
    <2>1. searching' = [searching EXCEPT ![d] = "lead"] \/ searching' = [searching EXCEPT ![d] = "wait"]
          \/ searching' = [searching EXCEPT ![d] = "alone"]
      BY <1>4 DEF Lead, Join, AskAlone, Ask
    <2> QED BY <1>3, <2>1
  <1>5. CASE EsSearches(d)
    BY <1>5 DEF EsSearches
  <1>6. CASE SearchEnds(d)
    <2>1. PICK value \in {None, answer[d]} : End(d, value) /\ searching[d] \in {"lead", "alone"}
      BY <1>6 DEF SearchEnds, SearchReturns, SearchFails
    <2>2. /\ searching'[c] = IF c \in Served(d) THEN "idle" ELSE searching[c]
          /\ c \in Served(d) => result'[c] = [search |-> asked[d], answer |-> Handed(d, c, value)]
      BY <2>1 DEF End
    <2>3. c \in Served(d) /\ result'[c].answer = value
      BY <2>2 DEF Handed
    <2> QED BY <2>1, <2>3, ServedFacts
  <1> QED BY <1>2, <1>4, <1>5, <1>6

(* No request that had ended answers a later caller (search.go:177-179).    *)
THEOREM NeverReused == SearchSpec => NoReuse
  <1>1. SearchInv /\ [SearchNext]_search_and_content
          => [\A c \in Callers :
                searching[c] # "idle" /\ searching'[c] = "idle" /\ result'[c].answer # None
                  => result'[c].answer >= least[c]]_search_and_content
    BY StepDoesNotReuse
  <1> QED BY SearchInvariant, <1>1, PTL DEF SearchSpec, NoReuse, search_and_content
=============================================================================
