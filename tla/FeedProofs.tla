----------------------------- MODULE FeedProofs -----------------------------
(***************************************************************************)
(* Collecting from the provider: the request budget is kept, the gaps of   *)
(* the feed are all on record, once, and followed up, and the process that *)
(* collects starts and stops in good order.                                *)
(***************************************************************************)
EXTENDS FeedLifecycle, RestBudget, IngestorProcess, LedgerProofs

Ages == Seq(Nat)

(* How many of the ages a governor forgets.                                *)
Gone(ages) ==
    LET kept == {n \in 0 .. Len(ages) : n = Len(ages) \/ ages[n + 1] < Window}
    IN  CHOOSE n \in kept : \A m \in kept : n <= m

LEMMA GoneIs ==
    ASSUME NEW ages \in Ages
    PROVE  /\ Gone(ages) \in 0 .. Len(ages)
           /\ \A n \in 1 .. Gone(ages) : ages[n] >= Window
           /\ Gone(ages) < Len(ages) => ages[Gone(ages) + 1] < Window
           /\ Live(ages) = SubSeq(ages, Gone(ages) + 1, Len(ages))
<1> DEFINE kept == {n \in 0 .. Len(ages) : n = Len(ages) \/ ages[n + 1] < Window}
<1>1. Len(ages) \in Nat /\ \A n \in 1 .. Len(ages) : ages[n] \in Nat
  BY DEF Ages
<1>2. kept \in SUBSET Nat /\ kept # {}
  BY <1>1
<1>3. \E n \in kept : \A m \in kept : n <= m
  BY <1>2, LeastNumber
<1>4. Gone(ages) \in kept /\ \A m \in kept : Gone(ages) <= m
  BY <1>3 DEF Gone
<1>5. ASSUME NEW n \in 1 .. Gone(ages)
      PROVE  ages[n] >= Window
  <2>1. n - 1 \notin kept /\ n - 1 \in 0 .. Len(ages) - 1
    <3>1. Gone(ages) \in 0 .. Len(ages) /\ n \in 1 .. Len(ages)
      BY <1>1, <1>4
    <3>2. n - 1 < Gone(ages) /\ n - 1 \in 0 .. Len(ages) - 1
      BY <1>1, <3>1
    <3>3. ~(Gone(ages) <= n - 1)
      BY <1>1, <3>1, <3>2
    <3> HIDE DEF kept
    <3> QED
      BY <1>4, <3>2, <3>3
  <2>2. ages[n] \in Nat /\ ~(ages[n - 1 + 1] < Window) /\ n - 1 + 1 = n
    BY <1>1, <2>1
  <2> QED
    BY <2>2, BudgetAssumption
<1>6. Live(ages) = SubSeq(ages, Gone(ages) + 1, Len(ages))
  BY DEF Live, Gone
<1> QED
  BY <1>4, <1>5, <1>6

(* It is told by what it is.                                               *)
LEMMA GoneOnce ==
    ASSUME NEW ages \in Ages, NEW k \in 0 .. Len(ages),
           \A n \in 1 .. k : ages[n] >= Window, k < Len(ages) => ages[k + 1] < Window
    PROVE  Gone(ages) = k
<1>1. Len(ages) \in Nat /\ \A n \in 1 .. Len(ages) : ages[n] \in Nat
  BY DEF Ages
<1>2. /\ Gone(ages) \in 0 .. Len(ages)
      /\ \A n \in 1 .. Gone(ages) : ages[n] >= Window
      /\ Gone(ages) < Len(ages) => ages[Gone(ages) + 1] < Window
  BY GoneIs
<1>3. ~(k < Gone(ages))
  <2> SUFFICES ASSUME k < Gone(ages) PROVE FALSE
    OBVIOUS
  <2>1. k + 1 \in 1 .. Gone(ages) /\ k < Len(ages) /\ k + 1 \in 1 .. Len(ages)
    BY <1>1, <1>2
  <2> QED
    BY <1>1, <1>2, <2>1, BudgetAssumption
<1>4. ~(Gone(ages) < k)
  <2> SUFFICES ASSUME Gone(ages) < k PROVE FALSE
    OBVIOUS
  <2>1. Gone(ages) + 1 \in 1 .. k /\ Gone(ages) < Len(ages) /\ Gone(ages) + 1 \in 1 .. Len(ages)
    BY <1>1, <1>2
  <2> QED
    BY <1>1, <1>2, <2>1, BudgetAssumption
<1> QED
  BY <1>1, <1>2, <1>3, <1>4

(* A stretch of a sequence as the function it is.                          *)
LEMMA SubSeqIs ==
    ASSUME NEW s, NEW from \in Int, NEW to \in Int
    PROVE  SubSeq(s, from, to) = [n \in 1 .. to - from + 1 |-> s[from + n - 1]]
  OBVIOUS

(* What is left begins with one that is live, or is nothing.               *)
LEMMA LiveIs ==
    ASSUME NEW ages \in Ages
    PROVE  /\ Live(ages) \in Ages
           /\ Len(Live(ages)) = Len(ages) - Gone(ages)
           /\ \A n \in 1 .. Len(Live(ages)) : Live(ages)[n] = ages[Gone(ages) + n]
           /\ Live(ages) # <<>> => Live(ages)[1] < Window
<1> DEFINE k == Gone(ages)
           live == Live(ages)
<1>1. /\ Len(ages) \in Nat /\ \A n \in 1 .. Len(ages) : ages[n] \in Nat
      /\ k \in 0 .. Len(ages)
      /\ k < Len(ages) => ages[k + 1] < Window
      /\ live = SubSeq(ages, k + 1, Len(ages))
  BY GoneIs DEF Ages
<1> HIDE DEF k, live
<1>2. live = [n \in 1 .. Len(ages) - k |-> ages[k + n]]
  <2>1. Len(ages) - (k + 1) + 1 = Len(ages) - k /\ k + 1 \in Nat /\ Len(ages) \in Int
    BY <1>1
  <2>2. \A n \in 1 .. Len(ages) - k : (k + 1) + n - 1 = k + n
    BY <1>1
  <2>3. live = SubSeq(ages, k + 1, Len(ages))
    BY <1>1
  <2>4. live = [n \in 1 .. Len(ages) - (k + 1) + 1 |-> ages[(k + 1) + n - 1]]
    BY <2>1, <2>3, SubSeqIs
  <2> QED
    BY <2>1, <2>2, <2>4
<1>3. live \in Seq(Nat) /\ Len(live) = Len(ages) - k
  BY <1>1, <1>2
<1>4. live # <<>> => live[1] < Window
  <2> SUFFICES ASSUME live # <<>> PROVE live[1] < Window
    OBVIOUS
  <2>1. Len(live) # 0
    BY <1>3
  <2>2. 1 \in 1 .. Len(ages) - k /\ k < Len(ages)
    BY <1>1, <1>3, <2>1
  <2> QED
    BY <1>1, <1>2, <2>2
<1> QED
  BY <1>2, <1>3, <1>4 DEF Ages, k, live

(* One more request is live with all that were.                            *)
LEMMA LiveWithOneMore ==
    ASSUME NEW ages \in Ages
    PROVE  /\ Append(Live(ages), 0) \in Ages
           /\ Live(Append(Live(ages), 0)) = Append(Live(ages), 0)
           /\ Len(Append(Live(ages), 0)) = Len(Live(ages)) + 1
<1> DEFINE more == Append(Live(ages), 0)
<1>1. Live(ages) \in Ages /\ (Live(ages) # <<>> => Live(ages)[1] < Window)
  BY LiveIs
<1>2. more \in Ages /\ Len(more) = Len(Live(ages)) + 1 /\ Len(Live(ages)) \in Nat
  BY <1>1 DEF Ages
<1>3. more[1] < Window
  <2>1. CASE Live(ages) = <<>>
    BY <1>1, <2>1, BudgetAssumption DEF Ages
  <2>2. CASE Live(ages) # <<>>
    <3>1. more[1] = Live(ages)[1]
      BY <1>1, <2>2 DEF Ages
    <3> QED
      BY <1>1, <2>2, <3>1
  <2> QED
    BY <2>1, <2>2
<1> HIDE DEF more
<1>4. Gone(more) = 0
  BY <1>2, <1>3, GoneOnce
<1>5. Live(more) = SubSeq(more, 1, Len(more))
  <2>1. Live(more) = SubSeq(more, Gone(more) + 1, Len(more))
    BY <1>2, GoneIs
  <2>2. Gone(more) + 1 = 1
    BY <1>4
  <2> QED
    BY <2>1, <2>2
<1>6. Live(more) = more
  BY <1>2, <1>5 DEF Ages
<1> QED
  BY <1>2, <1>6 DEF more

LEMMA LiveOfLive ==
    ASSUME NEW ages \in Ages
    PROVE  Live(Live(ages)) = Live(ages)
<1> DEFINE live == Live(ages)
<1>1. live \in Ages /\ (live # <<>> => live[1] < Window)
  BY LiveIs
<1> HIDE DEF live
<1>2. Len(live) \in Nat /\ (Len(live) > 0 => live[1] < Window)
  BY <1>1 DEF Ages
<1>3. Gone(live) = 0
  BY <1>1, <1>2, GoneOnce
<1>4. Live(live) = SubSeq(live, 1, Len(live))
  <2>1. Live(live) = SubSeq(live, Gone(live) + 1, Len(live))
    BY <1>1, GoneIs
  <2>2. Gone(live) + 1 = 1
    BY <1>3
  <2> QED
    BY <2>1, <2>2
<1> QED
  BY <1>1, <1>4 DEF Ages, live

LEMMA OlderIs ==
    ASSUME NEW ages \in Ages
    PROVE  /\ Older(ages) \in Ages /\ Len(Older(ages)) = Len(ages)
           /\ \A n \in 1 .. Len(ages) :
                 /\ Older(ages)[n] = IF ages[n] < Window THEN ages[n] + 1 ELSE Window
                 /\ ages[n] >= Window => Older(ages)[n] >= Window
<1>1. ages \in Seq(Nat) /\ Len(ages) \in Nat /\ DOMAIN ages = 1 .. Len(ages)
  BY DEF Ages
<1>2. \A n \in 1 .. Len(ages) : ages[n] \in Nat
  BY <1>1
<1>3. \A n \in 1 .. Len(ages) : (IF ages[n] < Window THEN ages[n] + 1 ELSE Window) \in Nat
  BY <1>2, BudgetAssumption
<1>4. Older(ages) = [n \in 1 .. Len(ages) |-> IF ages[n] < Window THEN ages[n] + 1 ELSE Window]
  BY <1>1 DEF Older
<1>5. Older(ages) \in Seq(Nat) /\ Len(Older(ages)) = Len(ages)
  BY <1>1, <1>3, <1>4
<1> QED
  BY <1>2, <1>4, <1>5, BudgetAssumption DEF Ages

(* As time passes no request comes back, and those forgotten before are    *)
(* not missed.                                                             *)
LEMMA LiveGrowsOld ==
    ASSUME NEW ages \in Ages
    PROVE  /\ Live(Older(Live(ages))) = Live(Older(ages))
           /\ Len(Live(Older(ages))) <= Len(Live(ages))
<1> DEFINE k == Gone(ages)
           live == Live(ages)
           old == Older(ages)
           aged == Older(live)
           j == Gone(old)
<1>1. /\ Len(ages) \in Nat /\ k \in 0 .. Len(ages)
      /\ \A n \in 1 .. k : ages[n] >= Window
      /\ live \in Ages /\ Len(live) = Len(ages) - k
      /\ \A n \in 1 .. Len(live) : live[n] = ages[k + n]
  <2>1. Len(ages) \in Nat
    BY DEF Ages
  <2>2. k \in 0 .. Len(ages) /\ \A n \in 1 .. k : ages[n] >= Window
    BY GoneIs
  <2>3. /\ live \in Ages /\ Len(live) = Len(ages) - k
        /\ \A n \in 1 .. Len(live) : live[n] = ages[k + n]
    BY LiveIs
  <2> QED
    BY <2>1, <2>2, <2>3
<1>2. /\ old \in Ages /\ Len(old) = Len(ages)
      /\ \A n \in 1 .. Len(ages) :
            /\ old[n] = IF ages[n] < Window THEN ages[n] + 1 ELSE Window
            /\ ages[n] >= Window => old[n] >= Window
  BY OlderIs
<1>3. /\ aged \in Ages /\ Len(aged) = Len(live)
      /\ \A n \in 1 .. Len(live) : aged[n] = IF live[n] < Window THEN live[n] + 1 ELSE Window
  BY <1>1, OlderIs
<1>4. /\ j \in 0 .. Len(old)
      /\ \A n \in 1 .. j : old[n] >= Window
      /\ j < Len(old) => old[j + 1] < Window
      /\ Live(old) \in Ages /\ Len(Live(old)) = Len(old) - j
      /\ \A n \in 1 .. Len(Live(old)) : Live(old)[n] = old[j + n]
  BY <1>2, GoneIs, LiveIs
<1> HIDE DEF k, live, old, aged, j
<1>5. \A n \in 1 .. Len(live) : aged[n] = old[k + n]
  <2> SUFFICES ASSUME NEW n \in 1 .. Len(live) PROVE aged[n] = old[k + n]
    OBVIOUS
  <2>1. k + n \in 1 .. Len(ages)
    BY <1>1
  <2> QED
    BY <1>1, <1>2, <1>3, <2>1
<1>6. k <= j
  <2> SUFFICES ASSUME j < k PROVE FALSE
    BY <1>1, <1>2, <1>4
  <2>1. j + 1 \in 1 .. k /\ j + 1 \in 1 .. Len(ages) /\ j < Len(old)
    BY <1>1, <1>2, <1>4
  <2>2. old[j + 1] \in Nat /\ old[j + 1] >= Window /\ old[j + 1] < Window
    <3>1. ages[j + 1] >= Window
      BY <1>1, <2>1
    <3>2. old[j + 1] >= Window
      BY <1>2, <2>1, <3>1
    <3>3. old[j + 1] \in Nat
      BY <1>2, <2>1 DEF Ages
    <3>4. old[j + 1] < Window
      BY <1>4, <2>1
    <3> QED
      BY <3>2, <3>3, <3>4
  <2> QED
    BY <2>2, BudgetAssumption
<1>7. Gone(aged) = j - k
  <2>1. j - k \in 0 .. Len(aged)
    BY <1>1, <1>2, <1>3, <1>4, <1>6
  <2>2. ASSUME NEW n \in 1 .. j - k PROVE aged[n] >= Window
    <3>1. n \in 1 .. Len(live) /\ k + n \in 1 .. j
      BY <1>1, <1>2, <1>4, <1>6
    <3> QED
      BY <1>4, <1>5, <3>1
  <2>3. j - k < Len(aged) => aged[j - k + 1] < Window
    <3> SUFFICES ASSUME j - k < Len(aged) PROVE aged[j - k + 1] < Window
      OBVIOUS
    <3>1. j - k + 1 \in 1 .. Len(live) /\ k + (j - k + 1) = j + 1 /\ j < Len(old)
      BY <1>1, <1>2, <1>3, <1>4, <1>6
    <3> QED
      BY <1>4, <1>5, <3>1
  <2> QED
    BY <1>3, <2>1, <2>2, <2>3, GoneOnce
<1>8. /\ Live(aged) \in Ages /\ Len(Live(aged)) = Len(aged) - (j - k)
      /\ \A n \in 1 .. Len(Live(aged)) : Live(aged)[n] = aged[j - k + n]
  BY <1>3, <1>7, LiveIs
<1>9. Len(Live(aged)) = Len(Live(old)) /\ Len(Live(old)) \in Nat /\ Len(Live(old)) <= Len(live)
  BY <1>1, <1>2, <1>3, <1>4, <1>6, <1>8
<1>10. ASSUME NEW n \in 1 .. Len(Live(old)) PROVE Live(aged)[n] = Live(old)[n]
  <2>1. j - k + n \in 1 .. Len(live) /\ k + (j - k + n) = j + n
    BY <1>1, <1>2, <1>3, <1>4, <1>6
  <2> QED
    BY <1>4, <1>5, <1>8, <1>9, <2>1
<1>11. Live(aged) = Live(old)
  <2>1. DOMAIN Live(aged) = 1 .. Len(Live(old)) /\ DOMAIN Live(old) = 1 .. Len(Live(old))
    BY <1>4, <1>8, <1>9 DEF Ages
  <2>2. /\ Live(aged) = [n \in DOMAIN Live(aged) |-> Live(aged)[n]]
        /\ Live(old) = [n \in DOMAIN Live(old) |-> Live(old)[n]]
    BY <1>4, <1>8 DEF Ages
  <2> QED
    BY <1>10, <2>1, <2>2
<1> QED
  BY <1>9, <1>11 DEF live, old, aged
-----------------------------------------------------------------------------
(* What was sent in the window was granted in it.                          *)
BudgetInv ==
    /\ hits \in Ages /\ sends \in Ages
    /\ Live(sends) = Live(hits)
    /\ Len(Live(hits)) <= Budget

LEMMA BudgetStep == BudgetInv /\ [RestNext]_restVars => BudgetInv'
<1> SUFFICES ASSUME BudgetInv, [RestNext]_restVars PROVE BudgetInv'
  OBVIOUS
<1>1. hits \in Ages /\ sends \in Ages /\ Live(sends) = Live(hits) /\ Len(Live(hits)) <= Budget
  BY DEF BudgetInv
<1>2. CASE UNCHANGED <<hits, sends>>
  BY <1>2 DEF BudgetInv, Live
<1>3. ASSUME NEW c \in Callers, Acquire(c)
      PROVE  BudgetInv'
  <2>1. /\ hits' = Append(Live(hits), 0) /\ sends' = Append(Live(sends), 0)
        /\ Len(Live(hits)) < Budget
    BY <1>3 DEF Acquire, Sent
  <2>2. hits' \in Ages /\ Live(hits') = hits' /\ Len(hits') = Len(Live(hits)) + 1
    BY <1>1, <2>1, LiveWithOneMore
  <2>3. Len(Live(hits)) \in Nat
    BY <1>1, LiveIs DEF Ages
  <2>4. Len(hits') <= Budget /\ sends' = hits'
    BY <1>1, <2>1, <2>2, <2>3, BudgetAssumption
  <2> QED
    BY <2>2, <2>4 DEF BudgetInv
<1>4. ASSUME NEW c \in Callers, Wait(c)
      PROVE  BudgetInv'
  <2>1. sends' = sends /\ hits' \in {hits, Live(hits)}
    BY <1>4 DEF Wait
  <2>2. hits' \in Ages /\ Live(hits') = Live(hits)
    BY <1>1, <2>1, LiveIs, LiveOfLive
  <2> QED
    BY <1>1, <2>1, <2>2 DEF BudgetInv
<1>5. CASE Tick
  <2>1. hits' = Older(hits) /\ sends' = Older(Live(sends))
    BY <1>5 DEF Tick
  <2>2. /\ hits' \in Ages /\ sends' \in Ages
    BY <1>1, <2>1, LiveIs, OlderIs
  <2>3. Live(sends') = Live(hits') /\ Len(Live(hits')) <= Len(Live(hits))
    BY <1>1, <2>1, LiveGrowsOld
  <2>4. Len(Live(hits')) \in Nat /\ Len(Live(hits)) \in Nat
    BY <1>1, <2>2, LiveIs DEF Ages
  <2> QED
    BY <1>1, <2>2, <2>3, <2>4, BudgetAssumption DEF BudgetInv
<1>6. ASSUME NEW c \in Callers, Begin(c) \/ Respond(c)
      PROVE  BudgetInv'
  <2>1. UNCHANGED <<hits, sends>>
    BY <1>6 DEF Begin, Respond, Answered, ServerFails, RateLimited, Again
  <2> QED
    BY <1>2, <2>1
<1>7. CASE UNCHANGED restVars
  BY <1>2, <1>7 DEF restVars
<1> QED
  BY <1>3, <1>4, <1>5, <1>6, <1>7 DEF RestNext

(* For any callers, budget, window and delays the provider asks for: with  *)
(* every retry counted, no window has more requests sent than its budget.  *)
THEOREM SendsAlwaysInBudget == RestSpec => []SendsStayInBudget
<1>1. RestInit => BudgetInv
  <2> SUFFICES ASSUME RestInit PROVE BudgetInv
    OBVIOUS
  <2>1. hits = <<>> /\ sends = <<>> /\ <<>> \in Ages
    BY DEF RestInit, Ages
  <2>2. Live(<<>>) \in Ages /\ Len(Live(<<>>)) = 0 - Gone(<<>>) /\ Gone(<<>>) \in 0 .. 0
    BY <2>1, LiveIs, GoneIs
  <2> QED
    BY <2>1, <2>2, BudgetAssumption DEF BudgetInv
<1>2. BudgetInv => SendsStayInBudget
  BY DEF BudgetInv, SendsStayInBudget
<1> QED
  BY <1>1, <1>2, BudgetStep, PTL DEF RestSpec
-----------------------------------------------------------------------------

SessionSet == [open : BOOLEAN, first : Nat, last : Nat, received : SUBSET Nat]

GapSet == [kind : {"WEBSOCKET", "RECONNECT", "STALE"}, session : Nat, from : Nat, to : Nat]

Hole(gg, g, s) == gg[g].kind = "WEBSOCKET" /\ gg[g].session = s

Outage(gg, g, s) == gg[g].kind = "RECONNECT" /\ gg[g].session = s

(* A session begins at its first number and has received its highest; its  *)
(* holes lie between, in order, and what it has not received is in one.    *)
HolesOf(ss, gg) ==
    /\ \A s \in DOMAIN ss :
          /\ ss[s].first <= ss[s].last
          /\ ss[s].last # 0 => ss[s].last \in ss[s].received
          /\ \A g \in DOMAIN gg : Hole(gg, g, s) => ss[s].first < gg[g].from /\ gg[g].to < ss[s].last
          /\ \A n \in Nat : ss[s].first < n /\ n < ss[s].last /\ n \notin ss[s].received =>
                \E g \in DOMAIN gg : Hole(gg, g, s) /\ gg[g].from <= n /\ n <= gg[g].to
    /\ \A g, h \in DOMAIN gg : \A s \in DOMAIN ss :
          g < h /\ Hole(gg, g, s) /\ Hole(gg, h, s) => gg[g].to < gg[h].from

(* Each session but the current one has ended in one outage.               *)
OutagesOf(ss, gg) ==
    /\ \A s \in DOMAIN ss : s < Len(ss) =>
          \E g \in DOMAIN gg : \A h \in DOMAIN gg : Outage(gg, h, s) <=> h = g
    /\ \A g \in DOMAIN gg : gg[g].session <= Len(ss)
    /\ \A g \in DOMAIN gg : gg[g].kind = "RECONNECT" => gg[g].session < Len(ss)

Recorded(ss, gg) ==
    /\ ss \in Seq(SessionSet) /\ gg \in Seq(GapSet)
    /\ HolesOf(ss, gg) /\ OutagesOf(ss, gg)

(* The numbers of a session are what they were, whether it is open or not. *)
Like(ss, tt) ==
    /\ tt \in Seq(SessionSet)
    /\ Len(tt) = Len(ss)
    /\ \A s \in DOMAIN ss : /\ tt[s].first = ss[s].first
                            /\ tt[s].last = ss[s].last
                            /\ tt[s].received = ss[s].received

LEMMA ClosedIsLike ==
    ASSUME sessions \in Seq(SessionSet)
    PROVE  Like(sessions, Closed) /\ Like(sessions, sessions)
<1>1. /\ Len(sessions) \in Nat /\ DOMAIN sessions = 1 .. Len(sessions)
      /\ \A s \in DOMAIN sessions : sessions[s] \in SessionSet
  OBVIOUS
<1>2. ASSUME NEW s \in DOMAIN sessions
      PROVE  /\ [sessions[s] EXCEPT !.open = FALSE] \in SessionSet
             /\ [sessions[s] EXCEPT !.open = FALSE].first = sessions[s].first
             /\ [sessions[s] EXCEPT !.open = FALSE].last = sessions[s].last
             /\ [sessions[s] EXCEPT !.open = FALSE].received = sessions[s].received
  BY <1>1 DEF SessionSet
<1>3. Closed \in Seq(SessionSet) /\ Len(Closed) = Len(sessions)
  BY <1>1, <1>2 DEF Closed
<1> QED
  BY <1>1, <1>2, <1>3 DEF Like, Closed

LEMMA LikeKeeps ==
    ASSUME NEW ss, NEW gg, NEW tt, Recorded(ss, gg), Like(ss, tt)
    PROVE  Recorded(tt, gg)
<1>1. DOMAIN tt = DOMAIN ss /\ Len(tt) = Len(ss)
  BY DEF Like, Recorded
<1>2. HolesOf(tt, gg)
  BY <1>1 DEF Recorded, Like, HolesOf
<1>3. OutagesOf(tt, gg)
  BY <1>1 DEF Recorded, OutagesOf
<1> QED
  BY <1>2, <1>3 DEF Recorded, Like

(* A gap that is no hole and no outage changes nothing.                    *)
LEMMA StaleKeeps ==
    ASSUME NEW ss, NEW gg, Recorded(ss, gg), NEW gap \in GapSet, gap.kind = "STALE", gap.session <= Len(ss)
    PROVE  Recorded(ss, Append(gg, gap))
<1> DEFINE hh == Append(gg, gap)
           last == Len(gg) + 1
<1>1. /\ gg \in Seq(GapSet) /\ hh \in Seq(GapSet) /\ last \in Nat
      /\ DOMAIN hh = 1 .. last /\ DOMAIN gg = 1 .. last - 1
      /\ hh[last] = gap /\ \A g \in DOMAIN gg : hh[g] = gg[g]
  BY DEF Recorded
<1> HIDE DEF hh
<1>2. \A g \in DOMAIN hh : g \in DOMAIN gg \/ (g = last /\ hh[g] = gap)
  BY <1>1
<1>3. DOMAIN gg \subseteq DOMAIN hh
  BY <1>1
<1>4. HolesOf(ss, gg) /\ OutagesOf(ss, gg)
  BY DEF Recorded
<1>5. /\ \A g \in DOMAIN hh, s \in DOMAIN ss : Hole(hh, g, s) => g \in DOMAIN gg /\ Hole(gg, g, s)
      /\ \A g \in DOMAIN gg, s \in DOMAIN ss : Hole(hh, g, s) <=> Hole(gg, g, s)
      /\ \A g \in DOMAIN hh, s \in DOMAIN ss : Outage(hh, g, s) => g \in DOMAIN gg /\ Outage(gg, g, s)
      /\ \A g \in DOMAIN gg, s \in DOMAIN ss : Outage(hh, g, s) <=> Outage(gg, g, s)
  BY <1>1, <1>2 DEF Hole, Outage
<1>6. HolesOf(ss, hh)
  BY <1>1, <1>3, <1>4, <1>5 DEF HolesOf
<1>7. OutagesOf(ss, hh)
  <2>1. ASSUME NEW s \in DOMAIN ss, s < Len(ss)
        PROVE  \E g \in DOMAIN hh : \A h \in DOMAIN hh : Outage(hh, h, s) <=> h = g
    <3>1. PICK g \in DOMAIN gg : \A h \in DOMAIN gg : Outage(gg, h, s) <=> h = g
      BY <1>4, <2>1 DEF OutagesOf
    <3>2. \A h \in DOMAIN hh : Outage(hh, h, s) <=> h = g
      BY <1>5, <3>1
    <3> QED
      BY <1>3, <3>2
  <2>2. \A g \in DOMAIN hh : gap.session <= Len(ss) /\ hh[g].session <= Len(ss)
    BY <1>1, <1>2, <1>4 DEF OutagesOf
  <2>3. \A g \in DOMAIN hh : hh[g].kind = "RECONNECT" => hh[g].session < Len(ss)
    BY <1>1, <1>2, <1>4 DEF OutagesOf
  <2> QED
    BY <2>1, <2>2, <2>3 DEF OutagesOf
<1> QED
  BY <1>1, <1>6, <1>7 DEF Recorded, hh

(* A new session, after the outage that ended the one before it.           *)
LEMMA OpenKeeps ==
    ASSUME NEW ss, NEW gg, Recorded(ss, gg), NEW tt, NEW hh,
           tt = Append(ss, NewSession),
           hh = IF Len(ss) > 0
                THEN Append(gg, [kind |-> "RECONNECT", session |-> Len(ss), from |-> 0, to |-> 0])
                ELSE gg
    PROVE  Recorded(tt, hh)
<1> DEFINE gap == [kind |-> "RECONNECT", session |-> Len(ss), from |-> 0, to |-> 0]
           last == Len(gg) + 1
           s1 == Len(ss) + 1
<1>1. /\ ss \in Seq(SessionSet) /\ gg \in Seq(GapSet)
      /\ HolesOf(ss, gg) /\ OutagesOf(ss, gg)
      /\ Len(ss) \in Nat /\ Len(gg) \in Nat
      /\ DOMAIN ss = 1 .. Len(ss) /\ DOMAIN gg = 1 .. Len(gg)
  BY DEF Recorded
<1>2. NewSession \in SessionSet /\ NewSession.first = 0 /\ NewSession.last = 0 /\ NewSession.received = {}
  BY DEF NewSession, SessionSet
<1>3. /\ tt \in Seq(SessionSet) /\ Len(tt) = s1 /\ DOMAIN tt = 1 .. s1
      /\ tt[s1] = NewSession /\ \A s \in DOMAIN ss : tt[s] = ss[s]
      /\ DOMAIN tt = DOMAIN ss \cup {s1} /\ s1 \notin DOMAIN ss
      /\ DOMAIN ss \subseteq DOMAIN tt
  BY <1>1, <1>2
<1>4. /\ hh \in Seq(GapSet)
      /\ DOMAIN gg \subseteq DOMAIN hh
      /\ \A g \in DOMAIN gg : hh[g] = gg[g]
      /\ Len(ss) = 0 => hh = gg
      /\ Len(ss) > 0 => /\ last \in DOMAIN hh /\ last \notin DOMAIN gg
                        /\ hh[last].kind = "RECONNECT" /\ hh[last].session = Len(ss)
      /\ \A h \in DOMAIN hh : h \in DOMAIN gg
                              \/ (h = last /\ Len(ss) > 0)
  <2>1. CASE Len(ss) = 0
    BY <1>1, <2>1
  <2>2. CASE Len(ss) > 0
    <3>1. gap \in GapSet /\ hh = Append(gg, gap)
      BY <1>1, <2>2 DEF GapSet
    <3>2. gap.kind = "RECONNECT" /\ gap.session = Len(ss)
      OBVIOUS
    <3> HIDE DEF gap
    <3>3. hh \in Seq(GapSet) /\ DOMAIN hh = 1 .. last /\ hh[last] = gap /\ \A g \in DOMAIN gg : hh[g] = gg[g]
      BY <1>1, <3>1
    <3>4. last \in DOMAIN hh /\ last \notin DOMAIN gg /\ DOMAIN hh = DOMAIN gg \cup {last}
      BY <1>1, <3>3
    <3> QED
      BY <2>2, <3>2, <3>3, <3>4
  <2> QED
    BY <1>1, <2>1, <2>2
<1> HIDE DEF last, s1
<1>5. \A g \in DOMAIN gg : gg[g].session # s1
  <2>1. \A g \in DOMAIN gg : gg[g].session <= Len(ss)
    BY <1>1 DEF OutagesOf
  <2> QED
    BY <1>1, <2>1 DEF s1
<1>6. \A h \in DOMAIN hh, s \in DOMAIN tt : Hole(hh, h, s) => h \in DOMAIN gg /\ s \in DOMAIN ss /\ Hole(gg, h, s)
  BY <1>3, <1>4, <1>5 DEF Hole
<1>7. \A h \in DOMAIN gg, s \in DOMAIN ss : Hole(gg, h, s) => Hole(hh, h, s)
  BY <1>4 DEF Hole
<1>8. HolesOf(tt, hh)
  <2>1. ASSUME NEW s \in DOMAIN ss
        PROVE  /\ tt[s].first <= tt[s].last
               /\ tt[s].last # 0 => tt[s].last \in tt[s].received
               /\ \A g \in DOMAIN hh : Hole(hh, g, s) => tt[s].first < hh[g].from /\ hh[g].to < tt[s].last
               /\ \A n \in Nat : tt[s].first < n /\ n < tt[s].last /\ n \notin tt[s].received =>
                      \E g \in DOMAIN hh : Hole(hh, g, s) /\ hh[g].from <= n /\ n <= hh[g].to
    <3>1. tt[s] = ss[s] /\ s \in DOMAIN tt
      BY <1>3
    <3>2. \A g \in DOMAIN hh : Hole(hh, g, s) => ss[s].first < hh[g].from /\ hh[g].to < ss[s].last
      BY <1>1, <1>4, <1>6, <3>1 DEF HolesOf
    <3>3. ASSUME NEW n \in Nat, ss[s].first < n, n < ss[s].last, n \notin ss[s].received
          PROVE  \E g \in DOMAIN hh : Hole(hh, g, s) /\ hh[g].from <= n /\ n <= hh[g].to
      <4>1. PICK g \in DOMAIN gg : Hole(gg, g, s) /\ gg[g].from <= n /\ n <= gg[g].to
        BY <1>1, <3>3 DEF HolesOf
      <4> QED
        BY <1>4, <1>7, <4>1
    <3> QED
      BY <1>1, <3>1, <3>2, <3>3 DEF HolesOf
  <2>2. \A g \in DOMAIN hh : ~Hole(hh, g, s1)
    BY <1>3, <1>6
  <2>3. \A n \in Nat : ~(tt[s1].first < n /\ n < tt[s1].last)
    BY <1>2, <1>3
  <2>4. \A g, h \in DOMAIN hh : \A s \in DOMAIN tt :
            g < h /\ Hole(hh, g, s) /\ Hole(hh, h, s) => hh[g].to < hh[h].from
    <3>1. SUFFICES ASSUME NEW g \in DOMAIN hh, NEW h \in DOMAIN hh, NEW s \in DOMAIN tt,
                          g < h, Hole(hh, g, s), Hole(hh, h, s)
                   PROVE  hh[g].to < hh[h].from
      OBVIOUS
    <3>2. /\ g \in DOMAIN gg /\ h \in DOMAIN gg /\ s \in DOMAIN ss
          /\ Hole(gg, g, s) /\ Hole(gg, h, s)
      BY <1>6, <3>1
    <3>3. hh[g] = gg[g] /\ hh[h] = gg[h]
      BY <1>4, <3>2
    <3> QED
      BY <1>1, <3>1, <3>2, <3>3 DEF HolesOf
  <2>5. tt[s1].last = 0 /\ tt[s1].first = 0 /\ tt[s1].first <= tt[s1].last
    BY <1>2, <1>3
  <2>6. ASSUME NEW s \in DOMAIN tt, s \notin DOMAIN ss
        PROVE  s = s1
    BY <1>3, <2>6
  <2>7. ASSUME NEW s \in DOMAIN tt
        PROVE  /\ tt[s].first <= tt[s].last
               /\ tt[s].last # 0 => tt[s].last \in tt[s].received
               /\ \A g \in DOMAIN hh : Hole(hh, g, s) => tt[s].first < hh[g].from /\ hh[g].to < tt[s].last
               /\ \A n \in Nat : tt[s].first < n /\ n < tt[s].last /\ n \notin tt[s].received =>
                      \E g \in DOMAIN hh : Hole(hh, g, s) /\ hh[g].from <= n /\ n <= hh[g].to
    <3>1. CASE s \in DOMAIN ss
      BY <2>1, <3>1, Zenon
    <3>2. CASE s = s1
      BY <2>2, <2>3, <2>5, <3>2
    <3> QED
      BY <2>6, <3>1, <3>2
  <2> QED
    BY <2>4, <2>7, Zenon DEF HolesOf
<1>9. OutagesOf(tt, hh)
  <2>1. ASSUME NEW s \in DOMAIN tt, s < Len(tt)
        PROVE  \E g \in DOMAIN hh : \A h \in DOMAIN hh : Outage(hh, h, s) <=> h = g
    <3>1. CASE s = Len(ss)
      <4>1. Len(ss) > 0
        BY <1>1, <1>3, <3>1 DEF s1
      <4>2. \A h \in DOMAIN gg : ~Outage(gg, h, s)
        <5>1. \A h \in DOMAIN gg : gg[h].kind = "RECONNECT" => gg[h].session < Len(ss)
          BY <1>1 DEF OutagesOf
        <5> QED
          BY <1>1, <3>1, <5>1 DEF Outage
      <4>3. \A h \in DOMAIN hh : Outage(hh, h, s) <=> h = last
        BY <1>4, <3>1, <4>1, <4>2 DEF Outage
      <4> QED
        BY <1>4, <4>1, <4>3
    <3>2. CASE s # Len(ss)
      <4>1. s \in DOMAIN ss /\ s < Len(ss)
        BY <1>1, <1>3, <2>1, <3>2 DEF s1
      <4>2. PICK g \in DOMAIN gg : \A h \in DOMAIN gg : Outage(gg, h, s) <=> h = g
        BY <1>1, <4>1 DEF OutagesOf
      <4>3. \A h \in DOMAIN hh : Outage(hh, h, s) <=> h = g
        BY <1>4, <3>2, <4>2 DEF Outage
      <4> QED
        BY <1>4, <4>3
    <3> QED
      BY <3>1, <3>2
  <2>2. ASSUME NEW h \in DOMAIN hh
        PROVE  hh[h].session <= Len(ss)
    <3>1. CASE h \in DOMAIN gg
      BY <1>1, <1>4, <3>1 DEF OutagesOf
    <3>2. CASE h \notin DOMAIN gg
      <4>1. hh[h].session = Len(ss)
        BY <1>4, <3>2
      <4> QED
        BY <1>1, <4>1
    <3> QED
      BY <3>1, <3>2
  <2>3. \A h \in DOMAIN hh : hh[h].session \in Nat
    <3>1. \A h \in DOMAIN hh : hh[h] \in GapSet
      BY <1>4
    <3> QED
      BY <3>1 DEF GapSet
  <2>4. \A h \in DOMAIN hh : hh[h].session <= Len(tt) /\ hh[h].session < Len(tt)
    BY <1>1, <1>3, <2>2, <2>3 DEF s1
  <2> QED
    BY <2>1, <2>4 DEF OutagesOf
<1> QED
  BY <1>3, <1>4, <1>8, <1>9 DEF Recorded

(* A message: what it leaves out is a hole, and what it fills was one.     *)
LEMMA RecordKeeps ==
    ASSUME Recorded(sessions, gaps), NEW n \in Nat, Current > 0, RecordMessage(n)
    PROVE  Recorded(sessions, gaps)'
<1> DEFINE ss == sessions
           gg == gaps
           tt == sessions'
           hh == gaps'
           c == Len(ss)
           S == ss[c]
           T == [S EXCEPT !.first = IF S.last = 0 THEN n ELSE @,
                          !.last = IF n > @ THEN n ELSE @,
                          !.received = @ \cup ({n} \ {0})]
           jump == n # 0 /\ S.last # 0 /\ n > S.last + 1
           gap == [kind |-> "WEBSOCKET", session |-> c, from |-> S.last + 1, to |-> n - 1]
           last == Len(gg) + 1
<1>1. /\ ss \in Seq(SessionSet) /\ gg \in Seq(GapSet)
      /\ HolesOf(ss, gg) /\ OutagesOf(ss, gg)
      /\ c \in Nat /\ Len(gg) \in Nat /\ c > 0
      /\ DOMAIN ss = 1 .. c /\ DOMAIN gg = 1 .. Len(gg)
      /\ c \in DOMAIN ss
  BY DEF Recorded, Current
<1>2. S \in SessionSet /\ S.first \in Nat /\ S.last \in Nat /\ S.received \in SUBSET Nat
  <2>1. S \in SessionSet
    BY <1>1
  <2> QED
    BY <2>1 DEF SessionSet
<1>3. /\ T \in SessionSet
      /\ T.first = IF S.last = 0 THEN n ELSE S.first
      /\ T.last = IF n > S.last THEN n ELSE S.last
      /\ T.received = S.received \cup ({n} \ {0})
  BY <1>2 DEF SessionSet
<1> HIDE DEF S, T
<1>4. tt = [ss EXCEPT ![c] = T]
  BY DEF RecordMessage, Current, T, S
<1>5. /\ tt \in Seq(SessionSet) /\ Len(tt) = c /\ DOMAIN tt = DOMAIN ss
      /\ tt[c] = T /\ \A s \in DOMAIN ss : s # c => tt[s] = ss[s]
  BY <1>1, <1>3, <1>4
<1>6. hh = IF jump THEN Append(gg, gap) ELSE gg
  BY DEF RecordMessage, Current, S
<1>7. jump => gap \in GapSet
  BY <1>1, <1>2 DEF GapSet
<1>8. /\ hh \in Seq(GapSet)
      /\ DOMAIN gg \subseteq DOMAIN hh
      /\ \A g \in DOMAIN gg : hh[g] = gg[g]
      /\ ~jump => hh = gg
      /\ jump => /\ last \in DOMAIN hh /\ last \notin DOMAIN gg /\ \A g \in DOMAIN gg : g < last
                 /\ hh[last].kind = "WEBSOCKET" /\ hh[last].session = c
                 /\ hh[last].from = S.last + 1 /\ hh[last].to = n - 1
      /\ \A h \in DOMAIN hh : h \in DOMAIN gg \/ (h = last /\ jump)
  <2>1. CASE ~jump
    BY <1>1, <1>6, <2>1
  <2>2. CASE jump
    <3>1. gap.kind = "WEBSOCKET" /\ gap.session = c /\ gap.from = S.last + 1 /\ gap.to = n - 1
      OBVIOUS
    <3> HIDE DEF gap, jump
    <3>2. hh \in Seq(GapSet) /\ DOMAIN hh = 1 .. last /\ hh[last] = gap /\ \A g \in DOMAIN gg : hh[g] = gg[g]
      BY <1>1, <1>6, <1>7, <2>2
    <3>3. /\ last \in DOMAIN hh /\ last \notin DOMAIN gg /\ DOMAIN hh = DOMAIN gg \cup {last}
          /\ \A g \in DOMAIN gg : g < last
      BY <1>1, <3>2
    <3> QED
      BY <2>2, <3>1, <3>2, <3>3
  <2> QED
    BY <2>1, <2>2
<1> HIDE DEF last
<1>9. \A g \in DOMAIN gg : gg[g].session \in Nat /\ gg[g].from \in Nat /\ gg[g].to \in Nat
  <2>1. \A g \in DOMAIN gg : gg[g] \in GapSet
    BY <1>1
  <2> QED
    BY <2>1 DEF GapSet
<1>10. \A g \in DOMAIN gg : \A s : (Hole(hh, g, s) <=> Hole(gg, g, s)) /\ (Outage(hh, g, s) <=> Outage(gg, g, s))
  BY <1>8 DEF Hole, Outage
<1>11. jump => \A s : (Hole(hh, last, s) <=> s = c) /\ ~Outage(hh, last, s)
  BY <1>8 DEF Hole, Outage
<1>12. /\ S.first <= S.last
       /\ S.last # 0 => S.last \in S.received
       /\ \A g \in DOMAIN gg : Hole(gg, g, c) => S.first < gg[g].from /\ gg[g].to < S.last
       /\ \A k \in Nat : S.first < k /\ k < S.last /\ k \notin S.received =>
              \E g \in DOMAIN gg : Hole(gg, g, c) /\ gg[g].from <= k /\ k <= gg[g].to
  BY <1>1 DEF HolesOf, S
<1>13. S.last = 0 => \A g \in DOMAIN gg : ~Hole(gg, g, c)
  BY <1>2, <1>9, <1>12
<1>14. /\ T.first <= T.last
       /\ T.last # 0 => T.last \in T.received
  BY <1>2, <1>3, <1>12
<1>15. ASSUME NEW g \in DOMAIN hh, Hole(hh, g, c)
       PROVE  T.first < hh[g].from /\ hh[g].to < T.last
  <2>1. CASE g \in DOMAIN gg
    <3>1. Hole(gg, g, c) /\ S.last # 0 /\ hh[g] = gg[g]
      BY <1>8, <1>10, <1>13, <1>15, <2>1
    <3> QED
      BY <1>2, <1>3, <1>9, <1>12, <2>1, <3>1
  <2>2. CASE g \notin DOMAIN gg
    <3>1. jump /\ hh[g].from = S.last + 1 /\ hh[g].to = n - 1
      BY <1>8, <2>2
    <3> QED
      BY <1>2, <1>3, <1>12, <3>1
  <2> QED
    BY <2>1, <2>2
<1>16. ASSUME NEW k \in Nat, T.first < k, k < T.last, k \notin T.received
       PROVE  \E g \in DOMAIN hh : Hole(hh, g, c) /\ hh[g].from <= k /\ k <= hh[g].to
  <2>1. S.last # 0 /\ S.first < k
    BY <1>2, <1>3, <1>16
  <2>2. CASE k < S.last
    <3>1. PICK g \in DOMAIN gg : Hole(gg, g, c) /\ gg[g].from <= k /\ k <= gg[g].to
      BY <1>3, <1>12, <1>16, <2>1, <2>2
    <3> QED
      BY <1>8, <1>10, <3>1
  <2>3. CASE ~(k < S.last)
    <3>1. k # S.last /\ n > S.last /\ T.last = n
      BY <1>2, <1>3, <1>12, <1>16, <2>1, <2>3
    <3>2. jump /\ S.last + 1 <= k /\ k <= n - 1
      BY <1>2, <1>16, <2>1, <2>3, <3>1
    <3> QED
      BY <1>8, <1>11, <3>2
  <2> QED
    BY <2>2, <2>3
<1>17. ASSUME NEW g \in DOMAIN hh, NEW h \in DOMAIN hh, NEW s \in DOMAIN ss,
              g < h, Hole(hh, g, s), Hole(hh, h, s)
       PROVE  hh[g].to < hh[h].from
  <2>1. CASE h \in DOMAIN gg
    <3>1. g \in DOMAIN gg
      BY <1>1, <1>8, <1>17, <2>1
    <3> QED
      BY <1>1, <1>8, <1>10, <1>17, <2>1, <3>1 DEF HolesOf
  <2>2. CASE h \notin DOMAIN gg
    <3>1. jump /\ h = last /\ s = c /\ hh[h].from = S.last + 1
      BY <1>8, <1>11, <1>17, <2>2
    <3>2. g \in DOMAIN gg
      BY <1>8, <1>17, <3>1, <1>1 DEF last
    <3>3. hh[g] = gg[g] /\ gg[g].to < S.last
      BY <1>8, <1>10, <1>12, <1>17, <3>1, <3>2
    <3> QED
      BY <1>2, <1>9, <3>1, <3>2, <3>3
  <2> QED
    BY <2>1, <2>2
<1> HIDE DEF jump
<1>18. HolesOf(tt, hh)
  <2>1. ASSUME NEW s \in DOMAIN tt, s # c
        PROVE  /\ tt[s].first <= tt[s].last
               /\ tt[s].last # 0 => tt[s].last \in tt[s].received
               /\ \A g \in DOMAIN hh : Hole(hh, g, s) => tt[s].first < hh[g].from /\ hh[g].to < tt[s].last
               /\ \A k \in Nat : tt[s].first < k /\ k < tt[s].last /\ k \notin tt[s].received =>
                      \E g \in DOMAIN hh : Hole(hh, g, s) /\ hh[g].from <= k /\ k <= hh[g].to
    <3>1. s \in DOMAIN ss /\ tt[s] = ss[s]
      BY <1>5, <2>1
    <3>2. ASSUME NEW g \in DOMAIN hh, Hole(hh, g, s)
          PROVE  g \in DOMAIN gg /\ Hole(gg, g, s) /\ hh[g] = gg[g]
      BY <1>8, <1>10, <1>11, <2>1, <3>2
    <3>3. ASSUME NEW k \in Nat, ss[s].first < k, k < ss[s].last, k \notin ss[s].received
          PROVE  \E g \in DOMAIN hh : Hole(hh, g, s) /\ hh[g].from <= k /\ k <= hh[g].to
      <4>1. PICK g \in DOMAIN gg : Hole(gg, g, s) /\ gg[g].from <= k /\ k <= gg[g].to
        BY <1>1, <3>1, <3>3 DEF HolesOf
      <4> QED
        BY <1>8, <1>10, <4>1
    <3> QED
      BY <1>1, <3>1, <3>2, <3>3 DEF HolesOf
  <2> QED
    BY <1>5, <1>14, <1>15, <1>16, <1>17, <2>1 DEF HolesOf
<1>19. OutagesOf(tt, hh)
  <2>1. ASSUME NEW s \in DOMAIN tt, s < Len(tt)
        PROVE  \E g \in DOMAIN hh : \A h \in DOMAIN hh : Outage(hh, h, s) <=> h = g
    <3>1. PICK g \in DOMAIN gg : \A h \in DOMAIN gg : Outage(gg, h, s) <=> h = g
      BY <1>1, <1>5, <2>1 DEF OutagesOf
    <3>2. \A h \in DOMAIN hh : Outage(hh, h, s) <=> h = g
      BY <1>8, <1>10, <1>11, <3>1
    <3> QED
      BY <1>8, <3>2
  <2>2. \A h \in DOMAIN hh : hh[h].session <= c
    BY <1>1, <1>8 DEF OutagesOf
  <2>3. \A h \in DOMAIN hh : hh[h].kind = "RECONNECT" => hh[h].session < c
    BY <1>1, <1>8 DEF OutagesOf
  <2> QED
    BY <1>5, <2>1, <2>2, <2>3 DEF OutagesOf
<1> QED
  BY <1>5, <1>8, <1>18, <1>19 DEF Recorded

TodoOf(td) == {td[i] : i \in DOMAIN td}

PlannedOf(pl) == {p.gap : p \in pl}

(* What the collector has taken is split between what is to do, what has a *)
(* plan and what was dropped; a gap is to do once.                         *)
FatesOf(count, taken, td, pl, dr, tk) ==
    /\ taken \in Nat /\ taken <= count
    /\ td \in Seq(Nat)
    /\ TodoOf(td) \cup PlannedOf(pl) \cup dr = 1 .. taken
    /\ TodoOf(td) \cap PlannedOf(pl) = {}
    /\ TodoOf(td) \cap dr = {}
    /\ PlannedOf(pl) \cap dr = {}
    /\ \A i, j \in DOMAIN td : td[i] = td[j] => i = j
    /\ tk # "recovering" => td = <<>>

(* More gaps, and a collector that does not recover: nothing taken.        *)
LEMMA FatesStand ==
    ASSUME NEW count \in Nat, NEW more \in Nat, count <= more, NEW taken, NEW td, NEW pl, NEW dr, NEW tk,
           NEW to, FatesOf(count, taken, td, pl, dr, tk),
           td = <<>> \/ to = tk
    PROVE  FatesOf(more, taken, td, pl, dr, to)
BY DEF FatesOf

(* The gaps since the last drain, all of them and each once.               *)
LEMMA StoredKeeps ==
    ASSUME NEW count \in Nat, NEW taken, NEW td, NEW pl, NEW dr, NEW tk, tk # "recovering",
           FatesOf(count, taken, td, pl, dr, tk),
           NEW all, all = [g \in 1 .. count |-> g]
    PROVE  FatesOf(count, count, SubSeq(all, taken + 1, count), pl, dr, "recovering")
<1> DEFINE more == SubSeq(all, taken + 1, count)
<1>1. /\ taken \in Nat /\ taken <= count /\ td = <<>>
      /\ TodoOf(td) = {} /\ PlannedOf(pl) \cup dr = 1 .. taken
      /\ PlannedOf(pl) \cap dr = {}
  BY DEF FatesOf, TodoOf
<1>2. all \in Seq(Nat) /\ Len(all) = count /\ \A g \in 1 .. count : all[g] = g
  OBVIOUS
<1>3. /\ more \in Seq(Nat) /\ Len(more) = count - taken
      /\ DOMAIN more = 1 .. count - taken
      /\ \A i \in 1 .. count - taken : more[i] = taken + i
  BY <1>1, <1>2
<1> HIDE DEF more
<1>4. TodoOf(more) = (taken + 1) .. count
  <2>1. ASSUME NEW g \in (taken + 1) .. count
        PROVE  g \in TodoOf(more)
    <3>1. g - taken \in DOMAIN more /\ more[g - taken] = g
      BY <1>1, <1>3
    <3> QED
      BY <3>1 DEF TodoOf
  <2>2. \A i \in DOMAIN more : more[i] \in (taken + 1) .. count
    BY <1>1, <1>3
  <2> QED
    BY <2>1, <2>2 DEF TodoOf
<1>5. /\ ((taken + 1) .. count) \cup (1 .. taken) = 1 .. count
      /\ ((taken + 1) .. count) \cap (1 .. taken) = {}
  BY <1>1
<1>6. \A i, j \in DOMAIN more : more[i] = more[j] => i = j
  BY <1>1, <1>3
<1>7. count <= count
  OBVIOUS
<1> QED
  BY <1>1, <1>3, <1>4, <1>5, <1>6, <1>7 DEF FatesOf, more

(* What is to do is its head and, apart from it, the rest.                 *)
LEMMA HeadAndTail ==
    ASSUME NEW td \in Seq(Nat), td # <<>>, \A i, j \in DOMAIN td : td[i] = td[j] => i = j
    PROVE  /\ TodoOf(td) = {Head(td)} \cup {td[i] : i \in 2 .. Len(td)}
           /\ Head(td) \notin {td[i] : i \in 2 .. Len(td)}
           /\ TodoOf(Tail(td)) = {td[i] : i \in 2 .. Len(td)}
           /\ \A i, j \in DOMAIN Tail(td) : Tail(td)[i] = Tail(td)[j] => i = j
<1>1. /\ Len(td) \in Nat /\ Len(td) >= 1 /\ DOMAIN td = 1 .. Len(td) /\ Head(td) = td[1]
      /\ Tail(td) \in Seq(Nat) /\ DOMAIN Tail(td) = 1 .. Len(td) - 1
      /\ \A i \in 1 .. Len(td) - 1 : Tail(td)[i] = td[i + 1]
  OBVIOUS
<1>2. TodoOf(td) = {Head(td)} \cup {td[i] : i \in 2 .. Len(td)}
  <2>1. DOMAIN td = {1} \cup (2 .. Len(td))
    BY <1>1
  <2> QED
    BY <1>1, <2>1 DEF TodoOf
<1>3. Head(td) \notin {td[i] : i \in 2 .. Len(td)}
  BY <1>1
<1>4. TodoOf(Tail(td)) = {td[i] : i \in 2 .. Len(td)}
  <2>1. ASSUME NEW i \in 2 .. Len(td)
        PROVE  td[i] \in TodoOf(Tail(td))
    <3>1. i - 1 \in DOMAIN Tail(td) /\ Tail(td)[i - 1] = td[i]
      BY <1>1
    <3> QED
      BY <3>1 DEF TodoOf
  <2>2. ASSUME NEW i \in DOMAIN Tail(td)
        PROVE  Tail(td)[i] \in {td[k] : k \in 2 .. Len(td)}
    <3>1. i + 1 \in 2 .. Len(td) /\ Tail(td)[i] = td[i + 1]
      BY <1>1
    <3> QED
      BY <3>1
  <2> QED
    BY <2>1, <2>2 DEF TodoOf
<1>5. \A i, j \in DOMAIN Tail(td) : Tail(td)[i] = Tail(td)[j] => i = j
  <2>1. SUFFICES ASSUME NEW i \in DOMAIN Tail(td), NEW j \in DOMAIN Tail(td), Tail(td)[i] = Tail(td)[j]
                 PROVE  i = j
    OBVIOUS
  <2>2. i + 1 \in DOMAIN td /\ j + 1 \in DOMAIN td /\ td[i + 1] = td[j + 1]
    BY <1>1, <2>1
  <2>3. i + 1 = j + 1
    BY <2>2
  <2> QED
    BY <1>1, <2>3
<1> QED
  BY <1>2, <1>3, <1>4, <1>5

LEMMA RecoverKeeps ==
    ASSUME NEW count, NEW taken, NEW td, NEW pl, NEW dr, NEW tk,
           FatesOf(count, taken, td, pl, dr, tk), td # <<>>,
           NEW plan, plan.gap = Head(td)
    PROVE  FatesOf(count, taken, Tail(td), pl \cup {plan}, dr, tk)
<1>1. td \in Seq(Nat) /\ Tail(td) \in Seq(Nat) /\ tk = "recovering"
  BY DEF FatesOf
<1>2. /\ TodoOf(td) = {Head(td)} \cup TodoOf(Tail(td))
      /\ Head(td) \notin TodoOf(Tail(td))
      /\ \A i, j \in DOMAIN Tail(td) : Tail(td)[i] = Tail(td)[j] => i = j
  BY <1>1, HeadAndTail DEF FatesOf
<1>3. PlannedOf(pl \cup {plan}) = PlannedOf(pl) \cup {Head(td)}
  BY DEF PlannedOf
<1>4. /\ TodoOf(td) \cup PlannedOf(pl) \cup dr = 1 .. taken
      /\ TodoOf(td) \cap PlannedOf(pl) = {}
      /\ TodoOf(td) \cap dr = {}
      /\ PlannedOf(pl) \cap dr = {}
  BY DEF FatesOf
<1>5. /\ TodoOf(Tail(td)) \cup PlannedOf(pl \cup {plan}) \cup dr = 1 .. taken
      /\ TodoOf(Tail(td)) \cap PlannedOf(pl \cup {plan}) = {}
      /\ TodoOf(Tail(td)) \cap dr = {}
      /\ PlannedOf(pl \cup {plan}) \cap dr = {}
  BY <1>2, <1>3, <1>4
<1> QED
  BY <1>1, <1>2, <1>5 DEF FatesOf

(* The store fails: the rest of what was to do is dropped.                 *)
LEMMA FailKeeps ==
    ASSUME NEW count, NEW taken, NEW td, NEW pl, NEW dr, NEW tk, NEW to, NEW more,
           FatesOf(count, taken, td, pl, dr, tk),
           \/ td = <<>> /\ more = pl
           \/ td # <<>> /\ \E plan : plan.gap = Head(td) /\ more = pl \cup {plan}
    PROVE  FatesOf(count, taken, <<>>, more, dr \cup {td[i] : i \in 2 .. Len(td)}, to)
<1> DEFINE lost == {td[i] : i \in 2 .. Len(td)}
<1>1. TodoOf(<<>>) = {} /\ <<>> \in Seq(Nat) /\ \A i, j \in DOMAIN <<>> : <<>>[i] = <<>>[j] => i = j
  BY DEF TodoOf
<1>2. /\ TodoOf(td) \cup PlannedOf(pl) \cup dr = 1 .. taken
      /\ TodoOf(td) \cap PlannedOf(pl) = {}
      /\ TodoOf(td) \cap dr = {}
      /\ PlannedOf(pl) \cap dr = {}
      /\ taken \in Nat /\ taken <= count
      /\ td \in Seq(Nat) /\ \A i, j \in DOMAIN td : td[i] = td[j] => i = j
  BY DEF FatesOf
<1>3. /\ PlannedOf(more) \cup (dr \cup lost) = 1 .. taken
      /\ PlannedOf(more) \cap (dr \cup lost) = {}
  <2>1. CASE td = <<>> /\ more = pl
    <3>1. lost = {} /\ TodoOf(td) = {}
      BY <2>1 DEF TodoOf
    <3> QED
      BY <1>2, <2>1, <3>1
  <2>2. CASE td # <<>> /\ \E plan : plan.gap = Head(td) /\ more = pl \cup {plan}
    <3>1. TodoOf(td) = {Head(td)} \cup lost /\ Head(td) \notin lost
      BY <1>2, <2>2, HeadAndTail
    <3>2. PlannedOf(more) = PlannedOf(pl) \cup {Head(td)}
      BY <2>2 DEF PlannedOf
    <3> QED
      BY <1>2, <3>1, <3>2
  <2> QED
    BY <2>1, <2>2
<1> QED
  BY <1>1, <1>2, <1>3 DEF FatesOf
-----------------------------------------------------------------------------
FeedInv ==
    /\ Recorded(sessions, gaps)
    /\ FatesOf(Len(gaps), drained, todo, planned, dropped, task)

LEMMA FeedBegins == FeedInit => FeedInv
<1> SUFFICES ASSUME FeedInit PROVE FeedInv
  OBVIOUS
<1>1. /\ sessions = <<>> /\ gaps = <<>> /\ drained = 0 /\ todo = <<>>
      /\ planned = {} /\ dropped = {} /\ task = "down"
  BY DEF FeedInit
<1>2. sessions \in Seq(SessionSet) /\ gaps \in Seq(GapSet)
  BY <1>1
<1>3. HolesOf(sessions, gaps) /\ OutagesOf(sessions, gaps)
  BY <1>1 DEF HolesOf, OutagesOf
<1>4. /\ TodoOf(todo) = {} /\ PlannedOf(planned) = {} /\ 1 .. drained = {}
      /\ todo \in Seq(Nat) /\ \A i, j \in DOMAIN todo : todo[i] = todo[j] => i = j
      /\ drained \in Nat /\ Len(gaps) = 0 /\ drained <= Len(gaps)
  BY <1>1 DEF TodoOf, PlannedOf
<1>5. FatesOf(Len(gaps), drained, todo, planned, dropped, task)
  BY <1>1, <1>4 DEF FatesOf
<1> QED
  BY <1>2, <1>3, <1>5 DEF FeedInv, Recorded

(* Closing the sessions, or leaving them, keeps the record.                *)
LEMMA QuietKeeps ==
    ASSUME Recorded(sessions, gaps), gaps' = gaps, sessions' = Closed \/ sessions' = sessions
    PROVE  Recorded(sessions, gaps)'
<1>1. Like(sessions, sessions')
  BY ClosedIsLike DEF Recorded
<1> QED
  BY <1>1, LikeKeeps

LEMMA SessionKeeps ==
    ASSUME Recorded(sessions, gaps), OpenSession
    PROVE  Recorded(sessions, gaps)'
<1>1. Like(sessions, Closed) /\ Len(Closed) = Len(sessions)
  BY ClosedIsLike DEF Recorded, Like
<1>2. Recorded(Closed, gaps)
  BY <1>1, LikeKeeps
<1>3. /\ sessions' = Append(Closed, NewSession)
      /\ gaps' = IF Len(Closed) > 0
                 THEN Append(gaps, [kind |-> "RECONNECT", session |-> Len(Closed), from |-> 0, to |-> 0])
                 ELSE gaps
  BY <1>1 DEF OpenSession, Closed, Current
<1> QED
  BY <1>2, <1>3, OpenKeeps

(* The record only grows.                                                  *)
LEMMA GapsGrow ==
    ASSUME gaps \in Seq(GapSet), NEW gap, gaps' = Append(gaps, gap) \/ gaps' = gaps
    PROVE  Len(gaps) \in Nat /\ Len(gaps') \in Nat /\ Len(gaps) <= Len(gaps')
OBVIOUS

LEMMA FeedStep == FeedInv /\ [FeedNext]_feedVars => FeedInv'
<1> SUFFICES ASSUME FeedInv, [FeedNext]_feedVars PROVE FeedInv'
  OBVIOUS
<1> DEFINE recorded == Recorded(sessions, gaps)
           fates(tk) == FatesOf(Len(gaps), drained, todo, planned, dropped, tk)
<1>1. /\ Recorded(sessions, gaps)
      /\ FatesOf(Len(gaps), drained, todo, planned, dropped, task)
      /\ gaps \in Seq(GapSet) /\ sessions \in Seq(SessionSet)
      /\ Len(gaps) \in Nat /\ Len(sessions) \in Nat
      /\ task # "recovering" => todo = <<>>
  BY DEF FeedInv, Recorded, FatesOf
<1>2. ASSUME Recorded(sessions, gaps)', Len(gaps') \in Nat, Len(gaps) <= Len(gaps'),
             UNCHANGED <<drained, todo, planned, dropped>>, todo = <<>> \/ task' = task
      PROVE  FeedInv'
  BY <1>1, <1>2, FatesStand DEF FeedInv
<1>3. ASSUME NEW walked \in BOOLEAN, Start(walked)
      PROVE  FeedInv'
  <2>1. OpenSession \/ UNCHANGED <<sessions, gaps>>
    BY <1>3 DEF Start
  <2>2. Recorded(sessions, gaps)'
    BY <1>1, <2>1, SessionKeeps, QuietKeeps
  <2>3. Len(gaps') \in Nat /\ Len(gaps) <= Len(gaps')
    BY <1>1, <2>1, GapsGrow DEF OpenSession
  <2> QED
    BY <1>1, <1>2, <1>3, <2>2, <2>3 DEF Start
<1>4. ASSUME BeginAttempt \/ Opened \/ Stop \/ RecoveredAll
      PROVE  FeedInv'
  <2>1. UNCHANGED <<sessions, gaps, drained, todo, planned, dropped>> /\ todo = <<>>
    BY <1>1, <1>4 DEF BeginAttempt, Opened, Stop, RecoveredAll
  <2> QED
    BY <1>1, <1>2, <2>1, QuietKeeps
<1>5. ASSUME RefuseAttempt \/ AttemptFails \/ ConnectionLost
      PROVE  FeedInv'
  <2>1. /\ UNCHANGED <<gaps, drained, todo, planned, dropped>> /\ todo = <<>>
        /\ sessions' = Closed \/ sessions' = sessions
    BY <1>1, <1>5 DEF RefuseAttempt, AttemptFails, ConnectionLost, EndAttempt
  <2> QED
    BY <1>1, <1>2, <2>1, QuietKeeps
<1>6. ASSUME Subscribed
      PROVE  FeedInv'
  <2>1. OpenSession \/ UNCHANGED <<sessions, gaps>>
    BY <1>6 DEF Subscribed
  <2>2. Recorded(sessions, gaps)'
    BY <1>1, <2>1, SessionKeeps, QuietKeeps
  <2>3. Len(gaps') \in Nat /\ Len(gaps) <= Len(gaps')
    BY <1>1, <2>1, GapsGrow DEF OpenSession
  <2> QED
    BY <1>1, <1>2, <1>6, <2>2, <2>3 DEF Subscribed
<1>7. ASSUME WatchdogFires
      PROVE  FeedInv'
  <2> DEFINE gap == [kind |-> "STALE", session |-> Current, from |-> 0, to |-> 0]
  <2>1. gap \in GapSet /\ gap.kind = "STALE" /\ gap.session = Len(sessions)
    BY <1>1 DEF GapSet, Current
  <2> HIDE DEF gap
  <2>2. /\ gaps' = Append(gaps, gap) /\ todo = <<>>
        /\ UNCHANGED <<drained, todo, planned, dropped>>
        /\ sessions' = Closed \/ sessions' = sessions
    BY <1>1, <1>7 DEF WatchdogFires, EndAttempt, gap
  <2>3. Recorded(sessions, gaps')
    BY <1>1, <2>1, <2>2, StaleKeeps
  <2>4. Like(sessions, sessions')
    BY <1>1, <2>2, ClosedIsLike
  <2>5. Recorded(sessions, gaps)'
    BY <2>3, <2>4, LikeKeeps
  <2>6. Len(gaps') \in Nat /\ Len(gaps) <= Len(gaps')
    BY <1>1, <2>2, GapsGrow
  <2> QED
    BY <1>2, <2>2, <2>5, <2>6
<1>8. ASSUME NEW n \in 0 .. MaxSequence, Receive(n)
      PROVE  FeedInv'
  <2>1. n \in Nat
    BY FeedAssumption
  <2>2. Recorded(sessions, gaps)'
    BY <1>1, <1>8, <2>1, RecordKeeps DEF Receive
  <2>3. Len(gaps') \in Nat /\ Len(gaps) <= Len(gaps')
    BY <1>1, <1>8, GapsGrow DEF Receive, RecordMessage
  <2> QED
    BY <1>1, <1>2, <1>8, <2>2, <2>3 DEF Receive
<1>9. ASSUME Stored
      PROVE  FeedInv'
  <2> DEFINE all == [g \in DOMAIN gaps |-> g]
  <2>1. all = [g \in 1 .. Len(gaps) |-> g] /\ task # "recovering"
    BY <1>1, <1>9 DEF Stored
  <2> HIDE DEF all
  <2>2. FatesOf(Len(gaps), Len(gaps), SubSeq(all, drained + 1, Len(gaps)), planned, dropped, "recovering")
    BY <1>1, <2>1, StoredKeeps
  <2>3. FatesOf(Len(gaps), drained, todo, planned, dropped, task)'
    BY <1>9, <2>2 DEF Stored, all
  <2>4. Recorded(sessions, gaps)'
    BY <1>1, <1>9, QuietKeeps DEF Stored
  <2> QED
    BY <2>3, <2>4 DEF FeedInv
<1>10. ASSUME NEW fetched \in BOOLEAN, Recover(fetched)
       PROVE  FeedInv'
  <2>1. PlanRecovery(Head(todo), fetched).gap = Head(todo)
    BY DEF PlanRecovery
  <2>2. FatesOf(Len(gaps), drained, Tail(todo), planned \cup {PlanRecovery(Head(todo), fetched)}, dropped, task)
    BY <1>1, <1>10, <2>1, RecoverKeeps DEF Recover
  <2>3. FatesOf(Len(gaps), drained, todo, planned, dropped, task)'
    BY <1>10, <2>2 DEF Recover
  <2>4. Recorded(sessions, gaps)'
    BY <1>1, <1>10, QuietKeeps DEF Recover
  <2> QED
    BY <2>3, <2>4 DEF FeedInv
<1>11. ASSUME StoreFails
       PROVE  FeedInv'
  <2>1. PlanRecovery(Head(todo), FALSE).gap = Head(todo)
    BY DEF PlanRecovery
  <2>2. \/ todo = <<>> /\ planned' = planned
        \/ /\ todo # <<>>
           /\ \E plan : plan.gap = Head(todo) /\ planned' = planned \cup {plan}
    BY <1>1, <1>11, <2>1 DEF StoreFails
  <2>3. FatesOf(Len(gaps), drained, <<>>, planned', dropped \cup {todo[i] : i \in 2 .. Len(todo)}, task')
    BY <1>1, <2>2, FailKeeps
  <2>4. FatesOf(Len(gaps), drained, todo, planned, dropped, task)'
    BY <1>11, <2>3 DEF StoreFails
  <2>5. Recorded(sessions, gaps)'
    BY <1>1, <1>11, QuietKeeps DEF StoreFails, EndAttempt
  <2> QED
    BY <2>4, <2>5 DEF FeedInv
<1>12. ASSUME Shutdown
       PROVE  FeedInv'
  <2>1. UNCHANGED <<gaps, drained, todo, planned, dropped, task>> /\ sessions' = Closed
    BY <1>12 DEF Shutdown
  <2> QED
    BY <1>1, <1>2, <2>1, QuietKeeps
<1>13. ASSUME UNCHANGED feedVars
       PROVE  FeedInv'
  <2>1. UNCHANGED <<sessions, gaps, drained, todo, planned, dropped, task>>
    BY <1>13 DEF feedVars
  <2> QED
    BY <1>1, <1>2, <2>1, QuietKeeps
<1> QED
  BY <1>3, <1>4, <1>5, <1>6, <1>7, <1>8, <1>9, <1>10, <1>11, <1>12, <1>13 DEF FeedNext

(* Holes that lie in order leave a number in one of them at most.          *)
LEMMA HolesAreCounted ==
    ASSUME FeedInv
    PROVE  MissingIsRecordedOnce
<1>1. /\ HolesOf(sessions, gaps)
      /\ DOMAIN gaps = 1 .. Len(gaps) /\ Len(gaps) \in Nat
      /\ \A g \in DOMAIN gaps : gaps[g] \in GapSet
      /\ \A s \in DOMAIN sessions : sessions[s] \in SessionSet
  BY DEF FeedInv, Recorded
<1>2. /\ \A g \in DOMAIN gaps : gaps[g].from \in Nat /\ gaps[g].to \in Nat
      /\ \A s \in DOMAIN sessions : sessions[s].first \in Nat /\ sessions[s].last \in Nat
  BY <1>1 DEF GapSet, SessionSet
<1>3. SUFFICES ASSUME NEW s \in DOMAIN sessions, NEW n \in 1 .. MaxSequence
               PROVE  LET holes == {g \in GapsOf(s, "WEBSOCKET") : Covers(g, n)}
                      IN  /\ Cardinality(holes) <= 1
                          /\ holes # {} => sessions[s].first < n /\ n < sessions[s].last
                          /\ (sessions[s].first < n /\ n < sessions[s].last
                               /\ n \notin sessions[s].received) => holes # {}
  BY DEF MissingIsRecordedOnce
<1> DEFINE holes == {g \in GapsOf(s, "WEBSOCKET") : Covers(g, n)}
<1>4. \A g : g \in holes <=> g \in DOMAIN gaps /\ Hole(gaps, g, s) /\ gaps[g].from <= n /\ n <= gaps[g].to
  BY DEF GapsOf, Covers, Hole
<1> HIDE DEF holes
<1>5. n \in Nat
  BY FeedAssumption
<1>6. ASSUME NEW g \in holes, NEW h \in holes
      PROVE  g = h
  <2>1. ASSUME NEW a \in holes, NEW b \in holes, a < b
        PROVE  FALSE
    <3>1. gaps[a].to < gaps[b].from
      BY <1>1, <1>3, <1>4, <2>1 DEF HolesOf
    <3> QED
      BY <1>2, <1>4, <1>5, <2>1, <3>1
  <2> QED
    BY <1>1, <1>4, <1>6, <2>1
<1>7. Cardinality(holes) <= 1
  <2>1. CASE holes = {}
    BY <2>1, FS_EmptySet
  <2>2. CASE holes # {}
    <3>1. PICK g \in holes : TRUE
      BY <2>2
    <3>2. holes = {g}
      BY <1>6, <3>1
    <3> QED
      BY <3>2, FS_Singleton
  <2> QED
    BY <2>1, <2>2
<1>8. holes # {} => sessions[s].first < n /\ n < sessions[s].last
  <2>1. ASSUME NEW g \in holes
        PROVE  sessions[s].first < n /\ n < sessions[s].last
    <3>1. sessions[s].first < gaps[g].from /\ gaps[g].to < sessions[s].last
      BY <1>1, <1>3, <1>4 DEF HolesOf
    <3> QED
      BY <1>2, <1>3, <1>4, <1>5, <3>1
  <2> QED
    BY <2>1
<1>9. (sessions[s].first < n /\ n < sessions[s].last /\ n \notin sessions[s].received) => holes # {}
  BY <1>1, <1>3, <1>4, <1>5 DEF HolesOf
<1> QED
  BY <1>7, <1>8, <1>9 DEF holes

LEMMA OutagesAndFates ==
    ASSUME FeedInv
    PROVE  OutagesAndRecoveries
<1>1. /\ OutagesOf(sessions, gaps)
      /\ FatesOf(Len(gaps), drained, todo, planned, dropped, task)
      /\ DOMAIN sessions = 1 .. Len(sessions) /\ Len(sessions) \in Nat
      /\ DOMAIN gaps = 1 .. Len(gaps) /\ Len(gaps) \in Nat
      /\ \A g \in DOMAIN gaps : gaps[g] \in GapSet
  BY DEF FeedInv, Recorded
<1>2. ASSUME NEW s \in DOMAIN sessions
      PROVE  Cardinality(GapsOf(s, "RECONNECT")) = IF s < Current THEN 1 ELSE 0
  <2>1. \A g : g \in GapsOf(s, "RECONNECT") <=> g \in DOMAIN gaps /\ Outage(gaps, g, s)
    BY DEF GapsOf, Outage
  <2>2. CASE s < Len(sessions)
    <3>1. PICK g \in DOMAIN gaps : \A h \in DOMAIN gaps : Outage(gaps, h, s) <=> h = g
      BY <1>1, <2>2 DEF OutagesOf
    <3>2. GapsOf(s, "RECONNECT") = {g}
      BY <2>1, <3>1
    <3> QED
      BY <2>2, <3>2, FS_Singleton DEF Current
  <2>3. CASE ~(s < Len(sessions))
    <3>1. \A g \in DOMAIN gaps : gaps[g].kind = "RECONNECT" => gaps[g].session < Len(sessions)
      BY <1>1 DEF OutagesOf
    <3>2. \A g \in DOMAIN gaps : ~Outage(gaps, g, s)
      BY <1>1, <2>3, <3>1 DEF Outage
    <3>3. GapsOf(s, "RECONNECT") = {}
      BY <2>1, <3>2
    <3> QED
      BY <2>3, <3>3, FS_EmptySet DEF Current
  <2> QED
    BY <2>2, <2>3
<1>3. ASSUME NEW g \in DOMAIN gaps
      PROVE  LET fates == {x \in {"todo", "planned", "dropped"} :
                              \/ x = "todo" /\ g \in {todo[i] : i \in DOMAIN todo}
                              \/ x = "planned" /\ g \in {p.gap : p \in planned}
                              \/ x = "dropped" /\ g \in dropped}
             IN  Cardinality(fates) = IF g <= drained THEN 1 ELSE 0
  <2> DEFINE fates == {x \in {"todo", "planned", "dropped"} :
                          \/ x = "todo" /\ g \in {todo[i] : i \in DOMAIN todo}
                          \/ x = "planned" /\ g \in {p.gap : p \in planned}
                          \/ x = "dropped" /\ g \in dropped}
  <2>1. /\ g <= drained <=> g \in TodoOf(todo) \cup PlannedOf(planned) \cup dropped
        /\ TodoOf(todo) \cap PlannedOf(planned) = {}
        /\ TodoOf(todo) \cap dropped = {}
        /\ PlannedOf(planned) \cap dropped = {}
    <3>1. g \in 1 .. drained <=> g <= drained
      BY <1>1, <1>3 DEF FatesOf
    <3> QED
      BY <1>1, <3>1 DEF FatesOf
  <2>2. /\ "todo" \in fates <=> g \in TodoOf(todo)
        /\ "planned" \in fates <=> g \in PlannedOf(planned)
        /\ "dropped" \in fates <=> g \in dropped
        /\ fates \subseteq {"todo", "planned", "dropped"}
    BY DEF TodoOf, PlannedOf
  <2> HIDE DEF fates
  <2>3. ASSUME g <= drained
        PROVE  Cardinality(fates) = 1
    <3>1. CASE g \in TodoOf(todo)
      <4>1. fates = {"todo"}
        BY <2>1, <2>2, <3>1
      <4> QED
        BY <4>1, FS_Singleton
    <3>2. CASE g \in PlannedOf(planned)
      <4>1. fates = {"planned"}
        BY <2>1, <2>2, <3>2
      <4> QED
        BY <4>1, FS_Singleton
    <3>3. CASE g \in dropped
      <4>1. fates = {"dropped"}
        BY <2>1, <2>2, <3>3
      <4> QED
        BY <4>1, FS_Singleton
    <3> QED
      BY <2>1, <2>3, <3>1, <3>2, <3>3
  <2>4. ASSUME ~(g <= drained)
        PROVE  Cardinality(fates) = 0
    <3>1. fates = {}
      BY <2>1, <2>2, <2>4
    <3> QED
      BY <3>1, FS_EmptySet
  <2>5. Cardinality(fates) = IF g <= drained THEN 1 ELSE 0
    BY <2>3, <2>4
  <2> QED
    BY <2>5 DEF fates
<1> QED
  BY <1>2, <1>3 DEF OutagesAndRecoveries

(* Every sequence number a session missed is in exactly one hole of that   *)
(* session, every two sessions have one outage between them, and every gap *)
(* the collector has taken is recovered, to do, or dropped by a failing    *)
(* store: record_message, open_session, drain_gaps and recover_after_gap   *)
(* together lose none and take none twice, for any number of sessions,     *)
(* sequences and stale reads.                                              *)
THEOREM GapsNeverSlip == FeedSpec => []GapsAreAccountedFor
<1>1. FeedInit => FeedInv
  BY FeedBegins
<1>2. FeedInv /\ [FeedNext]_feedVars => FeedInv'
  BY FeedStep
<1>3. FeedInv => GapsAreAccountedFor
  BY HolesAreCounted, OutagesAndFates DEF GapsAreAccountedFor
<1> QED
  BY <1>1, <1>2, <1>3, PTL DEF FeedSpec
-----------------------------------------------------------------------------
(* The process: IngestorProcess.                                           *)

Windows == [from : {Now}, to : {Open}, id : Nat]

(* What binding the first n entries leaves of a key: the last of its       *)
(* entries is the newest mapping, and all are in force.                    *)
LastNamed(entries, n, key, windows) ==
    /\ windows \in Seq(Windows)
    /\ IF \E m \in 1 .. n : entries[m][1] = key
       THEN /\ windows # <<>>
            /\ \E m \in 1 .. n :
                  /\ entries[m][1] = key /\ windows[Len(windows)].id = entries[m][2]
                  /\ \A k \in 1 .. n : entries[k][1] = key => k <= m
       ELSE windows = <<>>

Unbound == [key \in VendorKeys |-> <<>>]

ResolverIsBound == \A key \in VendorKeys :
    LastNamed(universe.entries, Len(universe.entries), key, resolver[key])

Launched == {"serving", "reading", "wiring", "probing", "anchoring", "collecting"}

(* Settings, universe and probes were judged before anything was built.    *)
Judged ==
    /\ stage \in {"down", "booting", "ended"} \cup Launched
    /\ stage = "down" => answer = "none"
    /\ stage # "down" => settings \in Environments /\ args \in CommandLines
    /\ (stage \in Launched \/ answer # "none") => Problems(settings) = {}
    /\ results \in Seq(BOOLEAN) /\ Len(results) <= 3
    /\ stage \in {"wiring", "probing"} /\ Role = "ingestor" => universe.kind = "whole"
    /\ stage \in {"reading", "wiring"} => Role = "ingestor"
    /\ stage = "serving" => Role = "api"
    /\ universe \in Documents \/ universe.entries = <<>>
    /\ Working => Role = "ingestor" /\ Failed = {} /\ Len(results) = 3 /\ universe.kind = "whole"
    /\ stage # "ended" => code = 0
    /\ code = 6 => Len(results) = 3
    /\ code = 2 => reported = Problems(settings) \/ Problems(settings) = {}

(* What is bound and planned, and what is stored of it.                    *)
Planned ==
    /\ Working => ResolverIsBound /\ subscribed = Listed
    /\ ~Working /\ stage # "ended" => resolver = Unbound /\ saved = {}
    /\ saved \subseteq UNION {Resolve(resolver[key], Now) : key \in VendorKeys}
    /\ saved = {} \/ (ResolverIsBound /\ subscribed = Listed)

(* Who closes the session, and what it takes to leave the loop.            *)
Ends ==
    /\ stage \in {"down", "booting", "serving", "reading", "wiring", "probing"} =>
          session = "none" /\ told \in {"never", "probing"}
    /\ Working => session \in {"open", "closed"}
    /\ stage = "anchoring" => told # "collecting"
    /\ Working /\ session = "open" => told \notin {"anchoring", "collecting"}
    /\ stage = "collecting" /\ ~collecting => told = "collecting"
    /\ SessionsAreClosed

ProcessInv == Judged /\ Planned /\ Ends
-----------------------------------------------------------------------------
LEMMA Registers ==
    ASSUME NEW windows \in Seq(Windows), NEW id \in Nat
    PROVE  Register(windows, id, Now) = Append(windows, [from |-> Now, to |-> Open, id |-> id])
<1>1. \A n \in DOMAIN windows : windows[n].from = Now
  <2>1. \A n \in DOMAIN windows : windows[n] \in Windows
    OBVIOUS
  <2> QED
    BY <2>1 DEF Windows
<1>2. [n \in DOMAIN windows |->
          IF windows[n].to = Open /\ windows[n].from < Now THEN [windows[n] EXCEPT !.to = Now]
          ELSE windows[n]] = windows
  <2>1. \A n \in DOMAIN windows : ~(windows[n].from < Now)
    BY <1>1 DEF Now
  <2> QED
    BY <2>1
<1> QED
  BY <1>2 DEF Register

(* The newest of the mappings is the answer, if there are any.             *)
LEMMA Resolves ==
    ASSUME NEW windows \in Seq(Windows)
    PROVE  Resolve(windows, Now) = IF windows = <<>> THEN {} ELSE {windows[Len(windows)].id}
<1>1. Len(windows) \in Nat /\ DOMAIN windows = 1 .. Len(windows)
  OBVIOUS
<1>2. InForce(windows, Now) = DOMAIN windows
  <2>1. \A n \in DOMAIN windows : windows[n] \in Windows
    OBVIOUS
  <2>2. \A n \in DOMAIN windows : windows[n].from = Now /\ windows[n].to = Open
    BY <2>1 DEF Windows
  <2>3. \A n \in DOMAIN windows : windows[n].from <= Now
    BY <2>2 DEF Now
  <2> QED
    BY <2>2, <2>3 DEF InForce
<1>3. CASE windows = <<>>
  BY <1>1, <1>2, <1>3 DEF Resolve
<1>4. CASE windows # <<>>
  <2>1. Len(windows) \in DOMAIN windows /\ \A k \in DOMAIN windows : k <= Len(windows)
    BY <1>1, <1>4
  <2>2. {m \in DOMAIN windows : \A k \in DOMAIN windows : k <= m} = {Len(windows)}
    BY <1>1, <2>1
  <2> QED
    BY <1>2, <1>4, <2>2 DEF Resolve
<1> QED
  BY <1>3, <1>4

IsBinding(entries, m, after) ==
    after = [n \in 0 .. m |-> IF n = 0 THEN Unbound ELSE Bind(after[n - 1], entries[n])]

LEMMA BindingExists ==
    ASSUME NEW entries, NEW m \in Nat
    PROVE  \E after : IsBinding(entries, m, after)
<1> DEFINE T == {k \in Nat : ~(\E g : IsBinding(entries, k, g))}
<1> SUFFICES ASSUME T # {} PROVE FALSE
  OBVIOUS
<1>1. PICK k \in T : \A j \in T : k <= j
  BY LeastNumber
<1>2. k # 0
  <2>1. IsBinding(entries, 0, [n \in 0 .. 0 |-> Unbound])
    BY DEF IsBinding
  <2> QED
    BY <1>1, <2>1
<1>3. k - 1 \in Nat /\ k - 1 \notin T
  BY <1>1, <1>2
<1>4. PICK g : IsBinding(entries, k - 1, g)
  BY <1>3
<1> DEFINE h == [n \in 0 .. k |-> IF n = k THEN Bind(g[k - 1], entries[k]) ELSE g[n]]
<1>5. IsBinding(entries, k, h)
  <2>1. ASSUME NEW n \in 0 .. k
        PROVE  h[n] = IF n = 0 THEN Unbound ELSE Bind(h[n - 1], entries[n])
    <3>1. CASE n = k
      BY <3>1, <1>1, <1>2
    <3>2. CASE n # k
      <4>1. n \in 0 .. k - 1
        BY <3>2, <1>1
      <4>2. g[n] = IF n = 0 THEN Unbound ELSE Bind(g[n - 1], entries[n])
        BY <4>1, <1>4 DEF IsBinding
      <4>3. n # 0 => n - 1 \in 0 .. k /\ n - 1 # k
        BY <4>1, <1>1
      <4> QED
        BY <3>2, <4>2, <4>3
    <3> QED
      BY <3>1, <3>2
  <2> QED
    BY <2>1 DEF IsBinding
<1> QED
  BY <1>1, <1>5

(* One more entry is the newest mapping of its key and leaves the others.  *)
LEMMA BindOneMore ==
    ASSUME NEW entries \in Seq(VendorKeys \X Nat), NEW n \in 1 .. Len(entries),
           NEW before \in [VendorKeys -> Seq(Windows)],
           \A key \in VendorKeys : LastNamed(entries, n - 1, key, before[key])
    PROVE  /\ Bind(before, entries[n]) \in [VendorKeys -> Seq(Windows)]
           /\ \A key \in VendorKeys : LastNamed(entries, n, key, Bind(before, entries[n])[key])
<1> DEFINE name == entries[n][1]
           id == entries[n][2]
           window == [from |-> Now, to |-> Open, id |-> id]
<1>1. entries[n] \in VendorKeys \X Nat /\ name \in VendorKeys /\ id \in Nat /\ n \in Nat
  <2>1. entries[n] \in VendorKeys \X Nat
    OBVIOUS
  <2> QED
    BY <2>1
<1>2. before[name] \in Seq(Windows) /\ window \in Windows
  BY <1>1 DEF Windows
<1>3. Bind(before, entries[n]) = [before EXCEPT ![name] = Append(before[name], window)]
  BY <1>1, <1>2, Registers DEF Bind
<1>4. Append(before[name], window) \in Seq(Windows)
  BY <1>2
<1> HIDE DEF window
<1>5. ASSUME NEW key \in VendorKeys, key # name
      PROVE  LastNamed(entries, n, key, Bind(before, entries[n])[key])
  <2>1. Bind(before, entries[n])[key] = before[key]
    BY <1>3, <1>5
  <2>2. \A m \in 1 .. n : entries[m][1] = key => m \in 1 .. n - 1
    BY <1>1, <1>5
  <2>3. \A m \in 1 .. n - 1 : m \in 1 .. n
    BY <1>1
  <2>4. LastNamed(entries, n - 1, key, before[key])
    OBVIOUS
  <2> QED
    BY <2>1, <2>2, <2>3, <2>4 DEF LastNamed
<1>6. LastNamed(entries, n, name, Bind(before, entries[n])[name])
  <2> DEFINE windows == Append(before[name], window)
  <2>1. Bind(before, entries[n])[name] = windows
    BY <1>1, <1>3
  <2>2. windows \in Seq(Windows) /\ windows # <<>> /\ windows[Len(windows)] = window
    <3>1. Len(windows) = Len(before[name]) + 1 /\ Len(before[name]) \in Nat
      BY <1>2
    <3>2. windows[Len(before[name]) + 1] = window
      BY <1>2
    <3>3. windows # <<>>
      <4>1. Len(windows) # 0 /\ Len(<<>>) = 0
        BY <3>1
      <4> QED
        BY <4>1
    <3> QED
      BY <1>4, <3>1, <3>2, <3>3
  <2>3. window.id = id
    BY DEF window
  <2>4. n \in 1 .. n /\ \A k \in 1 .. n : k <= n
    BY <1>1
  <2> HIDE DEF windows
  <2> QED
    BY <2>1, <2>2, <2>3, <2>4 DEF LastNamed
<1> QED
  BY <1>3, <1>4, <1>5, <1>6

LEMMA BoundIs ==
    ASSUME resolver = Unbound, universe.entries \in Seq(VendorKeys \X Nat)
    PROVE  /\ Bound \in [VendorKeys -> Seq(Windows)]
           /\ \A key \in VendorKeys :
                 LastNamed(universe.entries, Len(universe.entries), key, Bound[key])
<1> DEFINE entries == universe.entries
           after == CHOOSE g : IsBinding(entries, Len(entries), g)
           Good(n) == /\ after[n] \in [VendorKeys -> Seq(Windows)]
                      /\ \A key \in VendorKeys : LastNamed(entries, n, key, after[n][key])
           T == {n \in Nat : n <= Len(entries) /\ ~Good(n)}
<1>1. Len(entries) \in Nat
  OBVIOUS
<1>2. IsBinding(entries, Len(entries), after)
  BY <1>1, BindingExists
<1>3. Bound = after[Len(entries)]
  BY Zenon DEF Bound, IsBinding
<1> HIDE DEF after
<1>4. \A n \in 0 .. Len(entries) : after[n] = IF n = 0 THEN Unbound ELSE Bind(after[n - 1], entries[n])
  BY <1>2 DEF IsBinding
<1>5. T = {}
  <2> SUFFICES ASSUME T # {} PROVE FALSE
    OBVIOUS
  <2>1. PICK n \in T : \A j \in T : n <= j
    <3>1. T \in SUBSET Nat
      OBVIOUS
    <3> HIDE DEF T
    <3> QED
      BY <3>1, LeastNumber
  <2>2. n \in 0 .. Len(entries) /\ ~Good(n)
    BY <1>1, <2>1
  <2>3. CASE n = 0
    <3>1. after[0] = Unbound
      BY <1>1, <1>4
    <3>2. \A key \in VendorKeys : LastNamed(entries, 0, key, Unbound[key])
      BY DEF LastNamed, Unbound
    <3>3. Unbound \in [VendorKeys -> Seq(Windows)]
      BY DEF Unbound
    <3> QED
      BY <2>2, <2>3, <3>1, <3>2, <3>3
  <2>4. CASE n # 0
    <3>1. n - 1 \in Nat /\ n - 1 \notin T /\ n - 1 <= Len(entries) /\ n \in 1 .. Len(entries)
      <4>1. n \in Nat /\ n <= Len(entries)
        BY <1>1, <2>2
      <4>2. n - 1 \in Nat /\ n - 1 <= Len(entries) /\ n \in 1 .. Len(entries) /\ ~(n <= n - 1)
        BY <1>1, <2>4, <4>1
      <4>3. n - 1 \notin T
        <5> HIDE DEF T
        <5> QED
          BY <2>1, <4>2
      <4> QED
        BY <4>2, <4>3
    <3>2. Good(n - 1)
      BY <3>1
    <3>3. after[n] = Bind(after[n - 1], entries[n])
      BY <1>4, <2>2, <2>4
    <3>4. /\ after[n - 1] \in [VendorKeys -> Seq(Windows)]
          /\ \A key \in VendorKeys : LastNamed(entries, n - 1, key, after[n - 1][key])
      BY <3>2
    <3>5. entries \in Seq(VendorKeys \X Nat) /\ n \in 1 .. Len(entries)
      BY <3>1
    <3>6. /\ Bind(after[n - 1], entries[n]) \in [VendorKeys -> Seq(Windows)]
          /\ \A key \in VendorKeys :
                LastNamed(entries, n, key, Bind(after[n - 1], entries[n])[key])
      <4> HIDE DEF entries, T, Good
      <4> QED
        BY <3>4, <3>5, BindOneMore
    <3>7. Good(n)
      BY <3>3, <3>6, Zenon
    <3> QED
      BY <2>2, <3>7, Zenon
  <2> QED
    BY <2>3, <2>4
<1>6. Good(Len(entries))
  BY <1>1, <1>5
<1> QED
  BY <1>3, <1>6
-----------------------------------------------------------------------------
LEMMA SameRole ==
    ASSUME args' = args, settings' = settings
    PROVE  /\ Role' = Role
           /\ results' = results => Failed' = Failed
<1>1. Role' = Role
  BY DEF Role
<1>2. ProbeNames' = ProbeNames
  BY <1>1 DEF ProbeNames
<1> QED
  BY <1>1, <1>2 DEF Failed

LEMMA EndJudges ==
    ASSUME Judged, NEW exit, NEW named, End(exit, named), stage # "ended", stage # "down",
           exit = 6 => Len(results) = 3,
           exit = 2 => named = Problems(settings) \/ Problems(settings) = {}
    PROVE  Judged'
<1>1. /\ stage' = "ended" /\ code' = exit /\ reported' = named
      /\ args' = args /\ settings' = settings /\ results' = results /\ universe' = universe
      /\ answer' = answer
  BY DEF End
<1>2. Role' = Role /\ Failed' = Failed
  BY <1>1, SameRole
<1> QED
  BY <1>1, <1>2 DEF Judged, Launched, Working

LEMMA MoveJudges ==
    ASSUME Judged, NEW next \in Launched, MoveTo(next), universe' \in Documents \/ universe' = universe,
           stage # "ended", stage # "down", Problems(settings) = {}, next \notin {"anchoring", "collecting"},
           results' \in Seq(BOOLEAN), Len(results') <= 3,
           next \in {"wiring", "probing"} /\ Role = "ingestor" => universe'.kind = "whole",
           next \in {"reading", "wiring"} => Role = "ingestor", next = "serving" => Role = "api"
    PROVE  Judged'
<1>1. /\ stage' = next /\ args' = args /\ settings' = settings /\ code' = code /\ reported' = reported
      /\ answer' = answer
  BY DEF MoveTo
<1>2. Role' = Role
  BY <1>1, SameRole
<1>3. code = 0
  BY DEF Judged
<1> QED
  BY <1>1, <1>2, <1>3 DEF Judged, Launched, Working

LEMMA StepJudges == ProcessInv /\ [ProcessNext]_processVars => Judged'
<1> SUFFICES ASSUME ProcessInv, [ProcessNext]_processVars
             PROVE  Judged'
  OBVIOUS
<1>0. Judged
  BY DEF ProcessInv
<1>1. ASSUME NEW line \in CommandLines, NEW environment \in Environments, Launch(line, environment)
      PROVE  Judged'
  <2>1. answer = "none" /\ code = 0 /\ answer' = "none" /\ code' = 0
    BY <1>0, <1>1 DEF Launch, Judged
  <2> QED
    BY <1>0, <1>1, <2>1 DEF Launch, Judged, Launched, Working
<1>2. CASE RefuseSettings
  BY <1>0, <1>2, EndJudges DEF RefuseSettings
<1>3. CASE CheckOnly
  BY <1>0, <1>3, EndJudges DEF CheckOnly
<1>4. CASE NoRuntime
  BY <1>0, <1>4, EndJudges DEF NoRuntime
<1>5. CASE Dispatch
  <2>1. /\ stage = "booting" /\ Problems(settings) = {} /\ Role \in {"api", "ingestor"}
        /\ MoveTo(IF Role = "api" THEN "serving" ELSE "reading")
        /\ universe' = universe /\ results' = results
    BY <1>5 DEF Dispatch
  <2>2. results \in Seq(BOOLEAN) /\ Len(results) <= 3
    BY <1>0 DEF Judged
  <2>3. CASE Role = "api"
    BY <1>0, <2>1, <2>2, <2>3, MoveJudges DEF Launched
  <2>4. CASE Role # "api"
    BY <1>0, <2>1, <2>2, <2>4, MoveJudges DEF Launched
  <2> QED
    BY <2>3, <2>4
<1>6. ASSUME NEW document \in Documents, RefuseUniverse(document)
      PROVE  Judged'
  <2>1. Problems(settings) = {}
    BY <1>0, <1>6 DEF Judged, Launched, RefuseUniverse
  <2> QED
    BY <1>0, <1>6, <2>1, EndJudges DEF RefuseUniverse
<1>7. ASSUME NEW document \in Documents, ReadUniverse(document)
      PROVE  Judged'
  <2>1. Problems(settings) = {} /\ results \in Seq(BOOLEAN) /\ Len(results) <= 3 /\ Role = "ingestor"
    BY <1>0, <1>7 DEF Judged, Launched, ReadUniverse
  <2> QED
    BY <1>0, <1>7, <2>1, MoveJudges DEF ReadUniverse, Launched
<1>8. ASSUME NEW missing \in {"package", "token", "decoder"}, RefuseWiring(missing)
      PROVE  Judged'
  <2>1. Problems(settings) = {}
    BY <1>0, <1>8 DEF Judged, Launched, RefuseWiring
  <2>2. End(3, {missing}) \/ End(2, {missing}) \/ End(7, {missing})
    BY <1>8 DEF RefuseWiring
  <2> QED
    BY <1>0, <1>8, <2>1, <2>2, EndJudges DEF RefuseWiring
<1>9. CASE Wire
  <2>1. /\ Problems(settings) = {} /\ results \in Seq(BOOLEAN) /\ Len(results) <= 3
        /\ universe.kind = "whole" /\ stage = "wiring" /\ MoveTo("probing")
        /\ universe' = universe /\ results' = results
    BY <1>0, <1>9 DEF Judged, Launched, Wire
  <2> QED
    BY <1>0, <2>1, MoveJudges DEF Launched
<1>10. CASE AskReady
  <2>1. Problems(settings) = {} /\ Role = "api"
    BY <1>0, <1>10 DEF Judged, Launched, AskReady
  <2>2. results' \in Seq(BOOLEAN) /\ Len(results') <= 3
    BY <1>10 DEF AskReady
  <2> QED
    BY <1>0, <1>10, <2>1, <2>2, MoveJudges DEF AskReady, Launched
<1>11. ASSUME NEW ok \in ProbeOutcomes, Probe(ok)
      PROVE  Judged'
  <2>1. ok \in BOOLEAN
    BY <1>11 DEF ProbeOutcomes, RuntimeReady
  <2>2. Len(ProbeNames) = 3
    BY DEF ProbeNames
  <2>3. /\ Problems(settings) = {} /\ results \in Seq(BOOLEAN) /\ Len(results) < 3
        /\ results' = Append(results, ok) /\ MoveTo("probing") /\ universe' = universe
        /\ stage = "probing" /\ Role = "ingestor" => universe.kind = "whole"
    BY <1>0, <1>11, <2>2 DEF Judged, Launched, Probe
  <2>4. results' \in Seq(BOOLEAN) /\ Len(results') <= 3
    BY <2>1, <2>3
  <2>5. stage = "probing"
    BY <1>11 DEF Probe
  <2> QED
    BY <1>0, <2>3, <2>4, <2>5, MoveJudges DEF Launched
<1>12. CASE AnswerReady
  <2>1. /\ stage = "probing" /\ stage' = "serving" /\ args' = args /\ settings' = settings
        /\ universe' = universe /\ code' = code /\ reported' = reported /\ results' = results
        /\ Role = "api"
    BY <1>12 DEF AnswerReady, Probed
  <2>2. Role' = Role
    BY <2>1, SameRole
  <2> QED
    BY <1>0, <2>1, <2>2 DEF Judged, Launched, Working
<1>13. CASE RefusePreflight
  <2>1. Len(results) = 3
    BY <1>13 DEF RefusePreflight, Probed, ProbeNames
  <2> QED
    BY <1>0, <1>13, <2>1, EndJudges DEF RefusePreflight, Probed
<1>14. CASE RefuseCapacity
  BY <1>0, <1>14, EndJudges DEF RefuseCapacity, Probed
<1>15. CASE StartIngestor
  <2>1. Len(results) = 3
    BY <1>15 DEF StartIngestor, Probed, ProbeNames
  <2>2. /\ stage = "probing" /\ stage' = "anchoring" /\ Role = "ingestor" /\ Failed = {}
        /\ args' = args /\ settings' = settings /\ universe' = universe
        /\ code' = code /\ reported' = reported /\ results' = results /\ answer' = answer
    BY <1>15 DEF StartIngestor, Probed
  <2>3. Role' = Role /\ Failed' = Failed
    BY <2>2, SameRole
  <2> QED
    BY <1>0, <2>1, <2>2, <2>3 DEF Judged, Launched, Working
<1>16. ASSUME NEW keys, AnchorStoreFails(keys)
       PROVE  Judged'
  BY <1>0, <1>16, EndJudges DEF AnchorStoreFails
<1>17. CASE LeaveLoop
  BY <1>0, <1>17, EndJudges DEF LeaveLoop
<1>18. ASSUME args' = args, settings' = settings, universe' = universe, code' = code, reported' = reported,
              results' = results, answer' = answer,
              stage' = stage \/ (stage = "anchoring" /\ stage' = "collecting")
       PROVE  Judged'
  <2>1. Role' = Role /\ Failed' = Failed
    BY <1>18, SameRole
  <2> QED
    BY <1>0, <1>18, <2>1 DEF Judged, Launched, Working
<1>19. CASE AnchorFetchFails \/ StartCollecting \/ SignalArrives \/ UNCHANGED processVars
  BY <1>18, <1>19 DEF AnchorFetchFails, StartCollecting, SignalArrives, processVars
<1>20. ASSUME NEW keys, AnchorChain(keys) \/ RecoverChain(keys) \/ Collect(keys)
       PROVE  Judged'
  BY <1>18, <1>20 DEF AnchorChain, RecoverChain, Collect
<1> QED
  BY <1>1, <1>2, <1>3, <1>4, <1>5, <1>6, <1>7, <1>8, <1>9, <1>10, <1>11, <1>12, <1>13, <1>14, <1>15,
     <1>16, <1>17, <1>19, <1>20 DEF ProcessNext

LEMMA EntriesAreTyped ==
    ASSUME Judged
    PROVE  universe.entries \in Seq(VendorKeys \X Nat)
<1>1. universe \in Documents => universe.entries \in Shards \/ universe.entries = <<>>
  BY DEF Documents, Document
<1>2. universe.entries \in Shards \/ universe.entries = <<>>
  BY <1>1 DEF Judged
<1>3. <<>> \in Seq(VendorKeys \X Nat)
  OBVIOUS
<1> QED
  BY <1>2, <1>3, ProcessAssumption

LEMMA StaysPlanned ==
    ASSUME Planned, resolver' = resolver, universe' = universe, subscribed' = subscribed,
           \/ /\ saved' = saved
              /\ Working' => Working
              /\ ~Working' => ~Working \/ stage' = "ended"
              /\ stage = "ended" => stage' = "ended"
           \/ /\ Working /\ Working'
              /\ saved' \subseteq saved \cup Normalised(VendorKeys)
    PROVE  Planned'
<1>1. ResolverIsBound' = ResolverIsBound /\ Listed' = Listed
  BY DEF ResolverIsBound, Listed
<1> QED
  BY <1>1 DEF Planned, Normalised, Unbound

LEMMA StepPlans == ProcessInv /\ [ProcessNext]_processVars => Planned'
<1> SUFFICES ASSUME ProcessInv, [ProcessNext]_processVars
             PROVE  Planned'
  OBVIOUS
<1>0. Planned /\ Judged
  BY DEF ProcessInv
<1>1. ASSUME NEW line \in CommandLines, NEW environment \in Environments, Launch(line, environment)
      PROVE  Planned'
  BY <1>0, <1>1, StaysPlanned DEF Launch, Working
<1>2. ASSUME NEW exit, NEW named, End(exit, named)
      PROVE  Planned'
  BY <1>0, <1>2, StaysPlanned DEF End, Working
<1>3. ASSUME NEW next \in Launched, MoveTo(next), universe' = universe, next \notin {"anchoring", "collecting"},
             ~Working, stage # "ended"
      PROVE  Planned'
  BY <1>0, <1>3, StaysPlanned DEF MoveTo, Working, Launched
<1>4. CASE RefuseSettings \/ CheckOnly \/ NoRuntime \/ RefusePreflight \/ RefuseCapacity \/ LeaveLoop
  BY <1>2, <1>4 DEF RefuseSettings, CheckOnly, NoRuntime, RefusePreflight, RefuseCapacity, LeaveLoop
<1>5. ASSUME NEW document, RefuseUniverse(document)
      PROVE  Planned'
  BY <1>2, <1>5 DEF RefuseUniverse
<1>6. ASSUME NEW missing, RefuseWiring(missing)
      PROVE  Planned'
  BY <1>2, <1>6 DEF RefuseWiring
<1>7. ASSUME NEW keys, AnchorStoreFails(keys)
      PROVE  Planned'
  BY <1>2, <1>7 DEF AnchorStoreFails
<1>8. CASE Dispatch
  BY <1>3, <1>8 DEF Dispatch, Working, Launched
<1>9. CASE Wire \/ AskReady
  BY <1>3, <1>9 DEF Wire, AskReady, Working, Launched
<1>10. ASSUME NEW ok, Probe(ok)
       PROVE  Planned'
  BY <1>3, <1>10 DEF Probe, Working, Launched
<1>11. ASSUME NEW document, ReadUniverse(document)
       PROVE  Planned'
  <2>1. /\ stage = "reading" /\ stage' = "wiring" /\ resolver' = resolver /\ saved' = saved
    BY <1>11 DEF ReadUniverse, MoveTo
  <2>2. ~Working /\ ~Working'
    BY <2>1 DEF Working
  <2> QED
    BY <1>0, <2>1, <2>2 DEF Planned, Unbound
<1>12. CASE AnswerReady
  BY <1>0, <1>12, StaysPlanned DEF AnswerReady, Probed, Working
<1>13. CASE StartIngestor
  <2>1. /\ stage = "probing" /\ stage' = "anchoring" /\ resolver' = Bound /\ subscribed' = Listed
        /\ universe' = universe /\ saved' = saved
    BY <1>13 DEF StartIngestor, Probed
  <2>2. resolver = Unbound /\ saved = {} /\ Working'
    BY <1>0, <2>1 DEF Planned, Working
  <2>3. universe.entries \in Seq(VendorKeys \X Nat)
    BY <1>0, EntriesAreTyped
  <2>4. ResolverIsBound'
    BY <2>1, <2>2, <2>3, BoundIs DEF ResolverIsBound
  <2>5. Listed' = Listed
    BY <2>1 DEF Listed
  <2> QED
    BY <2>1, <2>2, <2>4, <2>5 DEF Planned
<1>14. CASE AnchorFetchFails \/ StartCollecting \/ SignalArrives \/ UNCHANGED processVars
  BY <1>0, <1>14, StaysPlanned DEF AnchorFetchFails, StartCollecting, SignalArrives, processVars, Working
<1>15. ASSUME NEW keys \in SUBSET VendorKeys, AnchorChain(keys) \/ RecoverChain(keys)
       PROVE  Planned'
  <2>1. Normalised(keys) \subseteq Normalised(VendorKeys)
    BY DEF Normalised
  <2> QED
    BY <1>0, <1>15, <2>1, StaysPlanned DEF AnchorChain, RecoverChain, Working
<1>16. ASSUME NEW key \in VendorKeys, Collect(key)
       PROVE  Planned'
  <2>1. Normalised({key}) \subseteq Normalised(VendorKeys)
    BY DEF Normalised
  <2> QED
    BY <1>0, <1>16, <2>1, StaysPlanned DEF Collect, Working
<1> QED
  BY <1>1, <1>4, <1>5, <1>6, <1>7, <1>8, <1>9, <1>10, <1>11, <1>12, <1>13, <1>14, <1>15, <1>16
  DEF ProcessNext

(* An end keeps the session and what was said as they were.                *)
LEMMA EndEnds ==
    ASSUME Ends, NEW exit, NEW named, End(exit, named), stage # "ended",
           session = "open" => exit = 1 /\ told # "anchoring",
           exit = 0 /\ session # "none" => session = "closed" /\ told = "collecting"
    PROVE  Ends'
BY DEF Ends, End, SessionsAreClosed, Working

LEMMA EarlyEnds ==
    ASSUME Ends, stage' \in {"booting", "serving", "reading", "wiring", "probing"},
           stage \in {"down", "booting", "serving", "reading", "wiring", "probing"},
           session' = session, told' = told
    PROVE  Ends'
BY DEF Ends, SessionsAreClosed, Working

LEMMA StepEnds == ProcessInv /\ [ProcessNext]_processVars => Ends'
<1> SUFFICES ASSUME ProcessInv, [ProcessNext]_processVars
             PROVE  Ends'
  OBVIOUS
<1>0. Ends
  BY DEF ProcessInv
<1>1. ASSUME NEW line, NEW environment, Launch(line, environment)
      PROVE  Ends'
  BY <1>0, <1>1, EarlyEnds DEF Launch
<1>2. CASE RefuseSettings \/ CheckOnly \/ NoRuntime \/ RefusePreflight \/ RefuseCapacity
  <2>1. stage \in {"booting", "probing"}
    BY <1>2 DEF RefuseSettings, CheckOnly, NoRuntime, RefusePreflight, RefuseCapacity, Probed
  <2>2. session = "none"
    BY <1>0, <2>1 DEF Ends
  <2> QED
    BY <1>0, <1>2, <2>1, <2>2, EndEnds
    DEF RefuseSettings, CheckOnly, NoRuntime, RefusePreflight, RefuseCapacity
<1>3. CASE LeaveLoop
  <2>1. stage = "collecting" /\ ~collecting /\ End(0, {}) /\ Working
    BY <1>3 DEF LeaveLoop, Working
  <2>2. told = "collecting" /\ session = "closed"
    BY <1>0, <2>1 DEF Ends
  <2> QED
    BY <1>0, <2>1, <2>2, EndEnds
<1>4. ASSUME NEW document, RefuseUniverse(document)
      PROVE  Ends'
  <2>1. stage = "reading" /\ session = "none"
    BY <1>0, <1>4 DEF RefuseUniverse, Ends
  <2> QED
    BY <1>0, <1>4, <2>1, EndEnds DEF RefuseUniverse
<1>5. ASSUME NEW missing, RefuseWiring(missing)
      PROVE  Ends'
  <2>1. stage = "wiring" /\ session = "none"
    BY <1>0, <1>5 DEF RefuseWiring, Ends
  <2> QED
    BY <1>0, <1>5, <2>1, EndEnds DEF RefuseWiring
<1>6. ASSUME NEW keys, AnchorStoreFails(keys)
      PROVE  Ends'
  <2>1. stage = "anchoring" /\ Working /\ End(1, {"store"})
    BY <1>6 DEF AnchorStoreFails, Working
  <2>2. session = "open" => told # "anchoring"
    BY <1>0, <2>1 DEF Ends
  <2> QED
    BY <1>0, <2>1, <2>2, EndEnds
<1>7. CASE Dispatch \/ Wire \/ AskReady \/ AnswerReady
  BY <1>0, <1>7, EarlyEnds DEF Dispatch, Wire, AskReady, AnswerReady, MoveTo, Probed
<1>8. ASSUME NEW ok, Probe(ok)
      PROVE  Ends'
  BY <1>0, <1>8, EarlyEnds DEF Probe, MoveTo
<1>9. ASSUME NEW document, ReadUniverse(document)
      PROVE  Ends'
  BY <1>0, <1>9, EarlyEnds DEF ReadUniverse, MoveTo
<1>10. CASE StartIngestor
  BY <1>0, <1>10 DEF StartIngestor, Probed, Ends, Working, SessionsAreClosed
<1>11. CASE StartCollecting
  BY <1>0, <1>11 DEF StartCollecting, Ends, Working, SessionsAreClosed
<1>12. CASE SignalArrives
  BY <1>0, <1>12 DEF SignalArrives, Ends, Working, SessionsAreClosed
<1>13. ASSUME stage' = stage, session' = session, told' = told, collecting' = collecting, code' = code
       PROVE  Ends'
  BY <1>0, <1>13 DEF Ends, Working, SessionsAreClosed
<1>14. CASE AnchorFetchFails \/ UNCHANGED processVars
  BY <1>13, <1>14 DEF AnchorFetchFails, processVars
<1>15. ASSUME NEW keys, AnchorChain(keys) \/ RecoverChain(keys) \/ Collect(keys)
       PROVE  Ends'
  BY <1>13, <1>15 DEF AnchorChain, RecoverChain, Collect
<1> QED
  BY <1>1, <1>2, <1>3, <1>4, <1>5, <1>6, <1>7, <1>8, <1>9, <1>10, <1>11, <1>12, <1>14, <1>15
  DEF ProcessNext

LEMMA ProcessInitially == ProcessInit => ProcessInv
<1> SUFFICES ASSUME ProcessInit
             PROVE  ProcessInv
  OBVIOUS
<1>1. Judged
  <2>1. universe.entries = <<>> /\ results = <<>> /\ results \in Seq(BOOLEAN) /\ Len(results) = 0
    BY DEF ProcessInit, Document
  <2> QED
    BY <2>1 DEF ProcessInit, Judged, Working, Launched
<1>2. Planned
  BY DEF ProcessInit, Planned, Working, Unbound
<1>3. Ends
  BY DEF ProcessInit, Ends, Working, SessionsAreClosed
<1> QED
  BY <1>1, <1>2, <1>3 DEF ProcessInv

(* What a key resolves to is the instrument of its last entry.             *)
LEMMA KeyResolves ==
    ASSUME universe.entries \in Seq(VendorKeys \X Nat), ResolverIsBound, NEW key \in VendorKeys
    PROVE  Resolve(resolver[key], Now) =
             {universe.entries[n][2] : n \in {m \in DOMAIN universe.entries :
                 /\ universe.entries[m][1] = key
                 /\ \A k \in DOMAIN universe.entries : universe.entries[k][1] = key => k <= m}}
<1> DEFINE entries == universe.entries
           windows == resolver[key]
           final == {m \in DOMAIN entries : entries[m][1] = key
                       /\ \A k \in DOMAIN entries : entries[k][1] = key => k <= m}
<1>1. DOMAIN entries = 1 .. Len(entries) /\ Len(entries) \in Nat
  OBVIOUS
<1>2. LastNamed(entries, Len(entries), key, windows)
  BY DEF ResolverIsBound
<1>3. windows \in Seq(Windows)
  BY <1>2 DEF LastNamed
<1>4. CASE \E m \in DOMAIN entries : entries[m][1] = key
  <2>1. windows # <<>>
    BY <1>1, <1>2, <1>4 DEF LastNamed
  <2>2. PICK m \in DOMAIN entries :
            /\ entries[m][1] = key /\ windows[Len(windows)].id = entries[m][2]
            /\ \A k \in DOMAIN entries : entries[k][1] = key => k <= m
    BY <1>1, <1>2, <1>4 DEF LastNamed
  <2>3. final = {m}
    BY <1>1, <2>2
  <2>4. Resolve(windows, Now) = {entries[m][2]}
    BY <1>3, <2>1, <2>2, Resolves
  <2> QED
    BY <2>3, <2>4
<1>5. CASE ~\E m \in DOMAIN entries : entries[m][1] = key
  <2>1. windows = <<>>
    BY <1>1, <1>2, <1>5 DEF LastNamed
  <2>2. Resolve(windows, Now) = {}
    BY <1>3, <2>1, Resolves
  <2>3. final = {}
    BY <1>5
  <2> QED
    BY <2>2, <2>3
<1> QED
  BY <1>4, <1>5

LEMMA Distinct ==
    ASSUME NEW entries \in Seq(VendorKeys \X Nat),
           Cardinality({entries[n][1] : n \in DOMAIN entries}) = Len(entries)
    PROVE  \A m, n \in DOMAIN entries : entries[m][1] = entries[n][1] => m = n
<1> DEFINE T == {entries[n][1] : n \in DOMAIN entries}
           f == [n \in DOMAIN entries |-> entries[n][1]]
<1>1. DOMAIN entries = 1 .. Len(entries) /\ Len(entries) \in Nat
  OBVIOUS
<1>2. IsFiniteSet(DOMAIN entries) /\ Cardinality(DOMAIN entries) = Len(entries)
  <2>1. 1 \in Int /\ Len(entries) \in Int
    BY ONLY <1>1
  <2>2. /\ IsFiniteSet(1 .. Len(entries))
        /\ Cardinality(1 .. Len(entries)) = IF 1 > Len(entries) THEN 0 ELSE Len(entries) - 1 + 1
    BY ONLY <2>1, FS_Interval
  <2>3. Cardinality(1 .. Len(entries)) = Len(entries)
    BY ONLY <1>1, <2>2
  <2> QED
    BY <1>1, <2>2, <2>3
<1>3. f \in Surjection(DOMAIN entries, T)
  BY DEF Surjection
<1>4. f \in Injection(DOMAIN entries, T)
  <2> HIDE DEF f
  <2> QED
    BY <1>2, <1>3, FS_Surjection
<1>5. \A m, n \in DOMAIN entries : f[m] = f[n] => m = n
  <2> HIDE DEF f
  <2> QED
    BY <1>4 DEF Injection, IsInjective
<1> QED
  BY <1>5

LEMMA InvStores == ProcessInv => StoresWhatItPlanned
<1> SUFFICES ASSUME ProcessInv
             PROVE  StoresWhatItPlanned
  OBVIOUS
<1> DEFINE entries == universe.entries
           last == {entries[n][2] : n \in {m \in DOMAIN entries :
                       \A k \in DOMAIN entries : entries[k][1] = entries[m][1] => k <= m}}
<1>1. Judged /\ Planned
  BY DEF ProcessInv
<1>2. entries \in Seq(VendorKeys \X Nat)
  BY <1>1, EntriesAreTyped
<1>3. ASSUME ResolverIsBound, NEW key \in VendorKeys, NEW x \in Resolve(resolver[key], Now)
      PROVE  x \in last /\ x \in Listed
  <2>1. PICK m \in DOMAIN entries : /\ entries[m][1] = key /\ x = entries[m][2]
                                    /\ \A k \in DOMAIN entries : entries[k][1] = key => k <= m
    BY <1>2, <1>3, KeyResolves
  <2> QED
    BY <2>1 DEF Listed
<1>4. saved \subseteq last \cap subscribed
  <2> SUFFICES ASSUME NEW x \in saved
               PROVE  x \in last /\ x \in subscribed
    OBVIOUS
  <2>1. ResolverIsBound /\ subscribed = Listed
    BY <1>1 DEF Planned
  <2>2. PICK key \in VendorKeys : x \in Resolve(resolver[key], Now)
    BY <1>1 DEF Planned
  <2> QED
    BY <1>3, <2>1, <2>2
<1>5. ASSUME Working, Cardinality({entries[n][1] : n \in DOMAIN entries}) = Len(entries)
      PROVE  Normalised(VendorKeys) = subscribed
  <2>1. ResolverIsBound /\ subscribed = Listed
    BY <1>1, <1>5 DEF Planned
  <2>2. \A m, n \in DOMAIN entries : entries[m][1] = entries[n][1] => m = n
    BY <1>2, <1>5, Distinct
  <2>3. ASSUME NEW x \in Normalised(VendorKeys)
        PROVE  x \in Listed
    BY <1>3, <2>1, <2>3 DEF Normalised
  <2>4. ASSUME NEW x \in Listed
        PROVE  x \in Normalised(VendorKeys)
    <3>1. PICK n \in DOMAIN entries : x = entries[n][2]
      BY <2>4 DEF Listed
    <3>2. entries[n] \in VendorKeys \X Nat /\ entries[n][1] \in VendorKeys /\ n <= n
      <4>1. entries[n] \in VendorKeys \X Nat /\ n \in Nat
        BY <1>2
      <4> QED
        BY <4>1
    <3>3. \A k \in DOMAIN entries : entries[k][1] = entries[n][1] => k <= n
      BY <2>2, <3>2
    <3>4. x \in Resolve(resolver[entries[n][1]], Now)
      BY <1>2, <2>1, <3>1, <3>2, <3>3, KeyResolves
    <3> QED
      BY <3>2, <3>4 DEF Normalised
  <2> QED
    BY <2>1, <2>3, <2>4
<1> QED
  BY <1>4, <1>5 DEF StoresWhatItPlanned

LEMMA InvEarns == ProcessInv => StartsAreEarned
<1> SUFFICES ASSUME ProcessInv
             PROVE  StartsAreEarned
  OBVIOUS
<1>1. Judged
  BY DEF ProcessInv
<1>2. (Working \/ answer # "none") => Problems(settings) = {}
  BY <1>1 DEF Judged, Working, Launched
<1>3. ASSUME stage = "ended", code = 2, Problems(settings) # {}
      PROVE  /\ (settings.session_key # "real" <=> "SESSION_SECRET_KEY" \in reported)
             /\ (settings.token_key = "none" <=> "TOKEN_ENCRYPTION_KEY" \in reported)
             /\ (settings.app_env = "production" /\ settings.debug) <=> "DEBUG" \in reported
  <2>1. reported = Problems(settings) /\ settings \in Environments
    BY <1>1, <1>3 DEF Judged
  <2>2. settings.token_key \in {"none", "real"}
    BY <2>1 DEF Environments
  <2>3. "SESSION_SECRET_KEY" \in Problems(settings) <=> settings.session_key # "real"
    BY Zenon DEF Problems, Unfit
  <2>4. "TOKEN_ENCRYPTION_KEY" \in Problems(settings) <=> settings.token_key # "real"
    BY Zenon DEF Problems, Unfit
  <2>5. "DEBUG" \in Problems(settings) <=> settings.app_env = "production" /\ settings.debug
    BY Zenon DEF Problems, Unfit
  <2> QED
    BY <2>1, <2>2, <2>3, <2>4, <2>5
<1> QED
  BY <1>1, <1>2, <1>3 DEF Judged, StartsAreEarned

(* Every process is accountable from its entry point to its exit, whatever *)
(* shard, environment and probes it meets: it starts only with settings,   *)
(* probes and a universe it judged fit, stores what it planned for, and    *)
(* ends with its session closed (StartsAndStops; run.py,                   *)
(* marketdata/runtime.py).                                                 *)
THEOREM ProcessesStartAndStop == ProcessSpec => []StartsAndStops
<1>1. ProcessInv /\ [ProcessNext]_processVars => ProcessInv'
  BY StepJudges, StepPlans, StepEnds DEF ProcessInv
<1>2. ProcessInv => StartsAndStops
  BY InvEarns, InvStores DEF ProcessInv, Ends, StartsAndStops
<1> QED
  BY <1>1, <1>2, ProcessInitially, PTL DEF ProcessSpec
=============================================================================
