------------------------- MODULE ClientsGaugeProofs -------------------------
(***************************************************************************)
(* Theorems about ClientsGauge for any set of sockets and any number of    *)
(* clients.                                                                *)
(***************************************************************************)
EXTENDS ClientsGauge, TLAPS

USE GaugeAssumption

LEMMA InitGaugeInv == Init => GaugeInv
<1> SUFFICES ASSUME Init PROVE GaugeInv
  OBVIOUS
<1>1. TypeOK
  <2>1. truth \in [Name -> SUBSET Counts] /\ gauge \in [Name -> Counts \union {None}]
    BY DEF Init
  <2>2. count \in Counts
    BY DEF Init, Counts
  <2> QED
    BY <2>1, <2>2 DEF Init, TypeOK
<1>2. \A n \in Name : gauge[n] = None
  BY DEF Init
<1> QED
  BY <1>1, <1>2 DEF Init, GaugeInv, Running, NoOldCount, AnswerIsShown, Shown

\* Every way a listing ends without an error has a count that is a true one, or
\* the 0 of a RequestError.
LEMMA ListingGaugeInv ==
  ASSUME GaugeInv, NEW n \in Name, NEW k \in Counts, NEW ok \in BOOLEAN,
         Listing(n, k, ok), k \in IF ok THEN truth[n] ELSE {0}
  PROVE  GaugeInv'
<1> USE DEF env, metric, Running, Listing, Visit
<1>1. TypeOK'
  BY DEF GaugeInv, TypeOK, Used
<1>2. /\ pc = "scrape" /\ pc' = "set" /\ n \in todo /\ todo' = todo \ {n}
      /\ sock = None /\ sock' = n /\ count' = k
      /\ answered' = IF ok THEN answered \union {n} ELSE answered
      /\ UNCHANGED <<clients, known, gauge, truth>>
  BY DEF GaugeInv
<1>3. n \notin answered /\ Shown' = answered /\ Shown = answered
  BY <1>2, GaugeAssumption DEF GaugeInv, Shown, TypeOK
<1>4. NoOldCount' /\ AnswerIsShown'
  BY <1>2, <1>3 DEF GaugeInv, NoOldCount, AnswerIsShown
<1>5. count' \in IF sock' \in answered' THEN truth'[sock'] ELSE {0}
  BY <1>2, <1>3
<1>6. answered' \intersect todo' = {}
  BY <1>2 DEF GaugeInv
<1> QED
  BY <1>1, <1>2, <1>4, <1>5, <1>6 DEF GaugeInv

LEMMA NextGaugeInv == ASSUME GaugeInv, [Next]_vars PROVE GaugeInv'
<1> USE DEF env, scraper, metric, history, Running
<1>1. CASE Tick
  BY <1>1 DEF Tick, GaugeInv, TypeOK, Counts, NoOldCount, AnswerIsShown, Shown
<1>2. CASE ListFails
  BY <1>2 DEF ListFails, GaugeInv, TypeOK, Counts, NoOldCount, AnswerIsShown, Shown
<1>3. CASE List
  <2>1. \A n \in Name : truth'[n] = {clients[n]} /\ clients[n] \in Counts
    BY <1>3 DEF List, GaugeInv, TypeOK
  <2>2. truth' \in [Name -> SUBSET Counts]
    <3>1. \A n \in Name : {clients[n]} \in SUBSET Counts
      BY <2>1
    <3> QED
      BY <1>3, <3>1 DEF List
  <2>3. TypeOK'
    BY <1>3, <2>2 DEF List, Available, GaugeInv, TypeOK
  <2>4. \A n \in Name \ todo' : gauge'[n] = None
    BY <1>3 DEF List, GaugeInv
  <2>5. /\ pc' = "clear" /\ answered' = {} /\ todo' = known /\ sock = None
        /\ UNCHANGED <<known, gauge, clients, sock>>
    BY <1>3 DEF List, GaugeInv
  <2>6. known' = {n \in Name : gauge'[n] # None} /\ todo' \subseteq known'
    BY <2>5 DEF GaugeInv
  <2>7. \A n \in Name : clients'[n] \in truth'[n]
    BY <2>1, <2>5
  <2>8. NoOldCount' /\ AnswerIsShown'
    BY <2>5 DEF NoOldCount, AnswerIsShown
  <2> QED
    BY <2>3, <2>4, <2>5, <2>6, <2>7, <2>8 DEF GaugeInv
<1>4. ASSUME NEW n \in Name, ClearOne(n) PROVE GaugeInv'
  <2>1. TypeOK'
    BY <1>4 DEF ClearOne, GaugeInv, TypeOK, Counts
  <2>2. n \in known /\ gauge' = [gauge EXCEPT ![n] = 0]
    BY <1>4 DEF ClearOne, GaugeInv, TypeOK
  <2>3. known' = {m \in Name : gauge'[m] # None}
    BY <1>4, <2>2 DEF ClearOne, GaugeInv, TypeOK
  <2> QED
    BY <1>4, <2>1, <2>2, <2>3 DEF ClearOne, GaugeInv, TypeOK, NoOldCount, AnswerIsShown
<1>5. CASE ClearDone
  BY <1>5 DEF ClearDone, GaugeInv, TypeOK, Counts, NoOldCount, AnswerIsShown, Shown
<1>6. ASSUME NEW n \in Name, ListingOk(n) PROVE GaugeInv'
  <2>1. clients[n] \in Counts /\ clients[n] \in truth[n]
    BY <1>6 DEF ListingOk, Listing, Visit, GaugeInv, TypeOK
  <2> QED
    BY <1>6, <2>1, ListingGaugeInv DEF ListingOk
<1>7. ASSUME NEW n \in Name, ListingMute(n) PROVE GaugeInv'
  <2>1. 0 \in Counts
    BY DEF Counts
  <2> QED
    BY <1>7, <2>1, ListingGaugeInv DEF ListingMute
<1>8. ASSUME NEW n \in Name, ListingFails(n) PROVE GaugeInv'
  BY <1>8 DEF ListingFails, Visit, Used, GaugeInv, TypeOK, Counts, NoOldCount, AnswerIsShown,
              Shown
<1>9. ASSUME NEW n \in Name, Panics(n) PROVE GaugeInv'
  <2>1. TypeOK'
    BY <1>9 DEF Panics, GaugeInv, TypeOK, Counts
  <2> QED
    BY <1>9, <2>1 DEF Panics, GaugeInv, NoOldCount, AnswerIsShown, Shown
<1>10. CASE Set
  <2>1. TypeOK'
    BY <1>10 DEF Set, GaugeInv, TypeOK, Counts
  <2>2. /\ pc = "set" /\ pc' = "scrape" /\ sock \in Name /\ sock' = None
        /\ known' = known \union {sock} /\ gauge' = [gauge EXCEPT ![sock] = count]
        /\ gauge \in [Name -> Counts \union {None}] /\ count \in Counts
        /\ UNCHANGED <<clients, todo, truth, answered>>
    BY <1>10 DEF Set, GaugeInv, TypeOK
  <2>3. known' = {n \in Name : gauge'[n] # None}
    BY <2>2, GaugeAssumption DEF GaugeInv, Counts
  <2>4. Shown' = answered /\ answered \subseteq Name
    BY <2>2, GaugeAssumption DEF Shown, GaugeInv, TypeOK
  <2>5. NoOldCount' /\ AnswerIsShown'
    BY <2>2, <2>4 DEF GaugeInv, NoOldCount, AnswerIsShown, Shown
  <2> QED
    BY <2>1, <2>2, <2>3, <2>5 DEF GaugeInv
<1>11. CASE ScrapeDone
  BY <1>11 DEF ScrapeDone, GaugeInv, TypeOK, Counts, NoOldCount, AnswerIsShown, Shown
<1>12. ASSUME NEW n \in Name, Turns(n) PROVE GaugeInv'
  BY <1>12 DEF Turns, GaugeInv, TypeOK, Counts, NoOldCount, AnswerIsShown, Shown
<1>13. ASSUME NEW n \in Name, NEW k \in Counts, Counted(n, k) PROVE GaugeInv'
  <2>1. TypeOK'
    BY <1>13 DEF Counted, GaugeInv, TypeOK
  <2>2. /\ UNCHANGED <<pc, todo, sock, count, known, gauge, answered>>
        /\ clients' = [clients EXCEPT ![n] = k]
        /\ truth' = IF pc \in Running THEN [truth EXCEPT ![n] = @ \union {k}] ELSE truth
        /\ clients \in [Name -> Counts] /\ truth \in [Name -> SUBSET Counts]
        /\ answered \subseteq Name
    BY <1>13 DEF Counted, GaugeInv, TypeOK
  <2>3. \A m \in Name : truth[m] \subseteq truth'[m]
    BY <2>2
  <2>4. pc' \in Running => \A m \in Name : clients'[m] \in truth'[m]
    BY <2>2 DEF GaugeInv
  <2>5. NoOldCount' /\ AnswerIsShown'
    BY <2>2, <2>3 DEF GaugeInv, NoOldCount, AnswerIsShown, Shown
  <2>6. pc' = "set" => count' \in IF sock' \in answered' THEN truth'[sock'] ELSE {0}
    BY <2>2, <2>3 DEF GaugeInv
  <2> QED
    BY <2>1, <2>2, <2>4, <2>5, <2>6 DEF GaugeInv
<1>14. CASE DirTurns
  BY <1>14 DEF DirTurns, GaugeInv, TypeOK, Counts, NoOldCount, AnswerIsShown, Shown
<1>15. CASE UNCHANGED vars
  BY <1>15 DEF vars, GaugeInv, TypeOK, Counts, NoOldCount, AnswerIsShown, Shown
<1>16. ASSUME NEW n \in Name, OtherRpc(n) PROVE GaugeInv'
  <2>1. CASE Panics(n)
    BY <1>9, <2>1
  <2>2. CASE Used(n) /\ UNCHANGED <<env, scraper, metric, history>>
    BY <2>2 DEF Used, GaugeInv, TypeOK, NoOldCount, AnswerIsShown, Shown
  <2> QED
    BY <1>16, <2>1, <2>2 DEF OtherRpc
<1> QED
  BY <1>1, <1>2, <1>3, <1>4, <1>5, <1>6, <1>7, <1>8, <1>9, <1>10, <1>11,
     <1>12, <1>13, <1>14, <1>15, <1>16 DEF Next, Scraping, ListingPanics

\* GaugeInv holds in every state: the steps of clear, of the listings and of
\* Set keep their books whatever the sockets do between them.
THEOREM GaugeInvHolds == Spec => []GaugeInv
  BY InitGaugeInv, NextGaugeInv, PTL DEF Spec

\* At no time but that of clear does a socket show a count that was not found in
\* this scrape, or in the last one that got the list.
THEOREM NoOldCountHolds == Spec => []NoOldCount
<1>1. GaugeInv => NoOldCount
  BY DEF GaugeInv
<1> QED
  BY <1>1, GaugeInvHolds, PTL

\* From its Set on a socket whose listing succeeded shows a count it had in the
\* course of the scrape.
THEOREM AnswersAreShown == Spec => []AnswerIsShown
<1>1. GaugeInv => AnswerIsShown
  BY DEF GaugeInv
<1> QED
  BY <1>1, GaugeInvHolds, PTL

\* No step takes a label away once it exists, but the end of the process.
THEOREM LabelsAreKept == Spec => LabelsStay
<1> DEFINE Kept == pc' # "exited" => \A n \in Name : gauge[n] # None => gauge'[n] # None
<1>1. ASSUME GaugeInv, [Next]_vars PROVE [Kept]_vars
  <2> USE DEF env, scraper, metric, history
  <2>1. ASSUME NEW n \in Name, ClearOne(n) PROVE Kept
    BY <1>1, <2>1 DEF ClearOne, GaugeInv, TypeOK
  <2>2. CASE Set
    BY <1>1, <2>2 DEF Set, GaugeInv, TypeOK, Counts
  <2>3. CASE UNCHANGED gauge
    BY <2>3
  <2>4. CASE UNCHANGED vars
    BY <2>4 DEF vars
  <2>5. CASE pc' = "exited"
    BY <2>5
  <2> QED
    BY <1>1, <2>1, <2>2, <2>3, <2>4, <2>5
    DEF Next, Scraping, Tick, List, ListFails, ClearDone, ScrapeDone, ListingOk,
        ListingMute, Listing, ListingFails, ListingPanics, Panics, OtherRpc, DirTurns,
        Turns, Counted
<1> QED
  BY <1>1, GaugeInvHolds, PTL DEF Spec, LabelsStay
=============================================================================
