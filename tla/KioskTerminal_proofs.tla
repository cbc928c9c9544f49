------------------------- MODULE KioskTerminal_proofs -------------------------
(*************************************************************************)
(* Proofs about the kiosk terminal: for any number of terminals, threads *)
(* and repeated requests, one number stands for one screen, and an event *)
(* does what the screen it was made on promised.                         *)
(*************************************************************************)
EXTENDS KioskTerminal, TLAPS

-----------------------------------------------------------------------------
(* The invariant *)

\* A copy that shows a session shows its employee, and one that asks for a
\* quantity shows a session.
Fit(c) ==
  /\ c.session # NoSession =>
       session[c.session].status # "UNUSED" /\ session[c.session].employee = c.employee
  /\ c.state = "QUANTITY_INPUT" => c.session # NoSession /\ c.employee # Nobody

Good(d, c) == Current(d, c) /\ Fit(c)

\* What an event that opens or closes a session has to show for it.
Done(p) ==
  /\ press[p].kind = "OP" => started[p] # {}
  /\ press[p].kind = "QUANTITY" => finished[p] # {}

\* The interrupted session is on record, or is open no more.
Noted(t) == Interrupts(t) => Seen(t).session \in flagged \/ session[Seen(t).session].status # "OPEN"

ScreensOK == \A d \in Device : Good(d, proj[d]) /\ Good(d, screen[d])

PressesOK == \A p \in Press :
  /\ press[p] # NoPress =>
       /\ Good(press[p].device, press[p].shown)
       /\ answer[p].verdict # "none" => Good(press[p].device, answer[p].shows)
       /\ answer[p].verdict = "accepted" => Done(p)
  /\ press[p] = NoPress => answer[p].verdict = "none" /\ started[p] = {} /\ finished[p] = {}

\* What a thread knows at each of its steps.
Working(t) ==
  /\ hand[t].at \in {"apply", "find", "project", "store"} => Good(Pressed(t).device, Seen(t))
  /\ hand[t].at \in {"apply", "find", "project"} => Seen(t) = Pressed(t).shown
  /\ hand[t].at = "find" => Pressed(t).kind = "EMP" /\ Pressed(t).card # Nobody /\ Noted(t)
  /\ hand[t].at = "project" =>
       /\ hand[t].next.version = Seen(t).version + 1
       /\ Fit(hand[t].next)
       /\ Done(hand[t].press)
       /\ hand[t].next.employee # Nobody => hand[t].next.employee = Pressed(t).card /\ Noted(t)
  /\ hand[t].at \in {"store", "reply"} =>
       /\ hand[t].answer.verdict # "none"
       /\ Good(Pressed(t).device, hand[t].answer.shows)
       /\ hand[t].answer.verdict = "accepted" => Done(hand[t].press)

EffectsOK ==
  /\ EffectAsShown /\ OpensOnce
  /\ \A p \in Press : \A s \in started[p] \cup finished[p] : session[s].status # "UNUSED"

Inv == TypeOK /\ ScreensOK /\ PressesOK /\ EffectsOK /\ \A t \in Thread : Working(t)

-----------------------------------------------------------------------------
(* What never goes back *)

Grows ==
  /\ \A s \in Session : session[s].status # "UNUSED" =>
       /\ session'[s].status # "UNUSED" /\ session'[s].employee = session[s].employee
       /\ session[s].status # "OPEN" => session'[s].status # "OPEN"
  /\ \A p \in Press : press[p] # NoPress => press'[p] = press[p]
  /\ \A p \in Press : started[p] \subseteq started'[p] /\ finished[p] \subseteq finished'[p]
  /\ flagged \subseteq flagged'
  /\ \A d \in Device : proj'[d] = proj[d] \/ proj[d].version < proj'[d].version

LEMMA SessionGrows ==
  ASSUME TypeOK, [Next]_vars, NEW s \in Session, session[s].status # "UNUSED"
  PROVE  /\ session'[s].status # "UNUSED" /\ session'[s].employee = session[s].employee
         /\ session[s].status # "OPEN" => session'[s].status # "OPEN"
<1>0. session \in [Session -> Row]
  BY DEF TypeOK
<1>1. CASE UNCHANGED session
  BY <1>1
<1>2. ASSUME NEW r \in Unused, NEW row, session' = [session EXCEPT ![r] = row]
      PROVE  session'[s] = session[s]
  BY <1>0, <1>2 DEF Unused
<1>3. ASSUME NEW r, session[r].status = "OPEN", session' = [session EXCEPT ![r].status = "CLOSED"]
      PROVE  /\ session'[s].status # "UNUSED" /\ session'[s].employee = session[s].employee
             /\ session[s].status # "OPEN" => session'[s].status # "OPEN"
  BY <1>0, <1>3 DEF Row
<1>4. ASSUME NEW t \in Thread, ScanOperation(t)
      PROVE  UNCHANGED session \/ \E r \in Unused : \E row : session' = [session EXCEPT ![r] = row]
  BY <1>4 DEF ScanOperation
<1>5. ASSUME NEW t \in Thread, SubmitQuantity(t)
      PROVE  \/ UNCHANGED session
             \/ \E r : session[r].status = "OPEN" /\ session' = [session EXCEPT ![r].status = "CLOSED"]
  BY <1>5 DEF SubmitQuantity
<1>6. ASSUME NEW e \in Employee, OpenElsewhere(e)
      PROVE  \E r \in Unused : \E row : session' = [session EXCEPT ![r] = row]
  BY <1>6 DEF OpenElsewhere
<1>7. ASSUME NEW r \in Session, CloseElsewhere(r)
      PROVE  session[r].status = "OPEN" /\ session' = [session EXCEPT ![r].status = "CLOSED"]
  BY <1>7 DEF CloseElsewhere
<1> QED
  BY <1>1, <1>2, <1>3, <1>4, <1>5, <1>6, <1>7
     DEF Next, Handle, Push, Resync, Receive, Look, Report, FindSession, Cancel, Reject,
         Project, Store, Reply, Break, vars

LEMMA NextGrows ==
  ASSUME Inv, [Next]_vars
  PROVE  Grows
<1>1. TypeOK
  BY DEF Inv
<1>2. \A p \in Press : press[p] # NoPress => press'[p] = press[p]
  <2>1. press \in [Press -> Pushed \cup {NoPress}]
    BY <1>1 DEF TypeOK
  <2>2. CASE UNCHANGED press
    BY <2>2
  <2>3. ASSUME NEW d \in Device, NEW p \in Press, NEW kind \in Kind, NEW card \in Employee \cup {Nobody},
               Push(d, p, kind, card)
        PROVE  \A q \in Press : press[q] # NoPress => press'[q] = press[q]
    BY <2>1, <2>3 DEF Push
  <2> QED
    BY <2>2, <2>3 DEF Next, Handle, Resync, Receive, Look, Report, FindSession, ScanOperation,
         SubmitQuantity, Cancel, Reject, Project, Store, Reply, Break, OpenElsewhere, CloseElsewhere, vars
<1>3. \A p \in Press : started[p] \subseteq started'[p] /\ finished[p] \subseteq finished'[p]
  <2>1. started \in [Press -> SUBSET Session] /\ finished \in [Press -> SUBSET Session]
    BY <1>1 DEF TypeOK
  <2>2. CASE UNCHANGED <<started, finished>>
    BY <2>2
  <2>3. ASSUME NEW t \in Thread, ScanOperation(t) \/ SubmitQuantity(t)
        PROVE  \A p \in Press : started[p] \subseteq started'[p] /\ finished[p] \subseteq finished'[p]
    BY <2>1, <2>3 DEF ScanOperation, SubmitQuantity
  <2> QED
    BY <2>2, <2>3 DEF Next, Handle, Push, Resync, Receive, Look, Report, FindSession,
         Cancel, Reject, Project, Store, Reply, Break, OpenElsewhere, CloseElsewhere, vars
<1>4. flagged \subseteq flagged'
  BY DEF Next, Handle, Push, Resync, Receive, Look, Report, FindSession, ScanOperation,
         SubmitQuantity, Cancel, Reject, Project, Store, Reply, Break, OpenElsewhere, CloseElsewhere, vars
<1>5. \A d \in Device : proj'[d] = proj[d] \/ proj[d].version < proj'[d].version
  <2>1. proj \in [Device -> Screen] /\ hand \in [Thread -> Hand]
    BY <1>1 DEF TypeOK
  <2>2. CASE UNCHANGED proj
    BY <2>2
  <2>3. ASSUME NEW t \in Thread, Project(t), NEW d \in Device
        PROVE  proj'[d] = proj[d] \/ proj[d].version < proj'[d].version
    <3>1. hand[t].next.version = Seen(t).version + 1 /\ Seen(t).version \in Nat
      BY <2>1, <2>3 DEF Inv, Working, Project, Seen, Hand, Screen
    <3>2. \/ UNCHANGED proj
          \/ /\ proj[Pressed(t).device].version = Seen(t).version
             /\ proj' = [proj EXCEPT ![Pressed(t).device] = hand[t].next]
      BY <2>3 DEF Project
    <3> QED
      BY <2>1, <3>1, <3>2
  <2> QED
    BY <2>2, <2>3 DEF Next, Handle, Push, Resync, Receive, Look, Report, FindSession, ScanOperation,
         SubmitQuantity, Cancel, Reject, Store, Reply, Break, OpenElsewhere, CloseElsewhere, vars
<1> QED
  BY <1>1, <1>2, <1>3, <1>4, <1>5, SessionGrows DEF Grows

-----------------------------------------------------------------------------
(* Types *)

LEMMA IdleType == Blank \in Screen /\ Unanswered \in Answer /\ Idle \in Hand
<1>1. Blank \in Screen
  BY DEF Blank, Screen
<1>2. Unanswered \in Answer
  BY <1>1 DEF Unanswered, Answer, Verdict
<1> QED
  BY <1>1, <1>2 DEF Idle, Hand, Step

LEMMA HandType ==
  ASSUME TypeOK, NEW t \in Thread
  PROVE  /\ hand[t] \in Hand /\ hand[t].at \in Step /\ hand[t].press \in Press \cup {NoPress}
         /\ Seen(t) \in Screen /\ hand[t].next \in Screen /\ hand[t].answer \in Answer
         /\ Seen(t).version \in Nat
         /\ hand[t].at # "idle" => /\ hand[t].press \in Press /\ Pressed(t) \in Pushed
                                   /\ Pressed(t).device \in Device /\ Pressed(t).shown \in Screen
                                   /\ Pressed(t).card \in Employee \cup {Nobody}
                                   /\ press[hand[t].press] # NoPress
<1>1. hand[t] \in Hand
  BY DEF TypeOK
<1>2. /\ hand[t].at \in Step /\ hand[t].press \in Press \cup {NoPress}
      /\ Seen(t) \in Screen /\ hand[t].next \in Screen /\ hand[t].answer \in Answer
  BY <1>1 DEF Hand, Seen
<1>3. Seen(t).version \in Nat
  BY <1>2 DEF Screen
<1>4. hand[t].at # "idle" => hand[t].press \in Press /\ Pressed(t) \in Pushed /\ press[hand[t].press] # NoPress
  BY DEF TypeOK, Pressed
<1>5. Pressed(t) \in Pushed => /\ Pressed(t).device \in Device /\ Pressed(t).shown \in Screen
                               /\ Pressed(t).card \in Employee \cup {Nobody}
  BY DEF Pushed
<1> QED
  BY <1>1, <1>2, <1>3, <1>4, <1>5

\* What the hands and the terminals hold stays well formed when one hand changes.
LEMMA PutHand ==
  ASSUME TypeOK, NEW t \in Thread, NEW h \in Hand, hand' = [hand EXCEPT ![t] = h],
         h.at # "idle" => h.press \in Press /\ press[h.press] # NoPress,
         UNCHANGED press
  PROVE  /\ hand' \in [Thread -> Hand]
         /\ \A u \in Thread : hand'[u].at # "idle" =>
              hand'[u].press \in Press /\ press'[hand'[u].press] # NoPress
  BY DEF TypeOK

\* The hand of a thread after each step.
LEMMA Decided ==
  ASSUME TypeOK, NEW t \in Thread, hand[t].at # "idle",
         NEW verdict \in {"rejected", "conflict"}, Decides(t, verdict)
  PROVE  \E h \in Hand :
           /\ hand' = [hand EXCEPT ![t] = h]
           /\ h.at = "store" /\ h.press = hand[t].press /\ h.seen = Seen(t)
           /\ h.answer.verdict = verdict /\ h.answer.shows = Seen(t)
<1> DEFINE a == [verdict |-> verdict, shows |-> Seen(t)]
           h == [hand[t] EXCEPT !.at = "store", !.answer = a]
<1>1. a \in Answer /\ a.verdict = verdict /\ a.shows = Seen(t)
  BY HandType DEF Answer, Verdict
<1>2. hand' = [hand EXCEPT ![t] = h]
  BY DEF Decides
<1> HIDE DEF a
<1>3. h \in Hand /\ h.at = "store" /\ h.press = hand[t].press /\ h.seen = Seen(t) /\ h.answer = a
  BY <1>1, HandType DEF Hand, Step, Seen
<1> HIDE DEF h
<1> QED
  BY <1>1, <1>2, <1>3

LEMMA Planned ==
  ASSUME TypeOK, NEW t \in Thread, hand[t].at # "idle",
         NEW state \in {"WAIT_EMPLOYEE", "WAIT_OPERATION", "QUANTITY_INPUT"},
         NEW e \in Employee \cup {Nobody}, NEW s \in Session \cup {NoSession},
         Plans(t, state, e, s)
  PROVE  \E h \in Hand :
           /\ hand' = [hand EXCEPT ![t] = h]
           /\ h.at = "project" /\ h.press = hand[t].press /\ h.seen = Seen(t)
           /\ h.next.state = state /\ h.next.version = Seen(t).version + 1
           /\ h.next.employee = e /\ h.next.session = s
<1> DEFINE n == [state |-> state, version |-> Seen(t).version + 1, employee |-> e, session |-> s]
           h == [hand[t] EXCEPT !.at = "project", !.next = n]
<1>1. /\ n \in Screen /\ n.state = state /\ n.version = Seen(t).version + 1
      /\ n.employee = e /\ n.session = s
  <2>1. Seen(t).version + 1 \in Nat
    BY HandType
  <2> QED
    BY <2>1 DEF Screen
<1>2. hand' = [hand EXCEPT ![t] = h]
  BY DEF Plans
<1> HIDE DEF n
<1>3. h \in Hand /\ h.at = "project" /\ h.press = hand[t].press /\ h.seen = Seen(t) /\ h.next = n
  BY <1>1, HandType DEF Hand, Step, Seen
<1> HIDE DEF h
<1> QED
  BY <1>1, <1>2, <1>3

-----------------------------------------------------------------------------
(* What stays true of a copy, and of what a hand holds, after a step *)

FitNext(c) ==
  /\ c.session # NoSession =>
       session'[c.session].status # "UNUSED" /\ session'[c.session].employee = c.employee
  /\ c.state = "QUANTITY_INPUT" => c.session # NoSession /\ c.employee # Nobody

GoodNext(d, c) == (c = proj'[d] \/ c.version < proj'[d].version) /\ FitNext(c)

DoneNext(p) ==
  /\ press'[p].kind = "OP" => started'[p] # {}
  /\ press'[p].kind = "QUANTITY" => finished'[p] # {}

NotedNext(h) ==
  /\ h.seen.state = "QUANTITY_INPUT"
  /\ h.seen.employee \notin {Nobody, press'[h.press].card}
  /\ h.seen.session # NoSession
  => h.seen.session \in flagged' \/ session'[h.seen.session].status # "OPEN"

\* Working, of a hand after the step.
WorksNext(h) ==
  /\ h.at \in {"apply", "find", "project", "store"} => GoodNext(press'[h.press].device, h.seen)
  /\ h.at \in {"apply", "find", "project"} => h.seen = press'[h.press].shown
  /\ h.at = "find" => press'[h.press].kind = "EMP" /\ press'[h.press].card # Nobody /\ NotedNext(h)
  /\ h.at = "project" =>
       /\ h.next.version = h.seen.version + 1
       /\ FitNext(h.next)
       /\ DoneNext(h.press)
       /\ h.next.employee # Nobody => h.next.employee = press'[h.press].card /\ NotedNext(h)
  /\ h.at \in {"store", "reply"} =>
       /\ h.answer.verdict # "none"
       /\ GoodNext(press'[h.press].device, h.answer.shows)
       /\ h.answer.verdict = "accepted" => DoneNext(h.press)

LEMMA FitStays ==
  ASSUME Grows, NEW c \in Screen, Fit(c)
  PROVE  FitNext(c)
<1>1. c.session \in Session \cup {NoSession}
  BY DEF Screen
<1> QED
  BY <1>1 DEF Grows, Fit, FitNext

LEMMA GoodStays ==
  ASSUME TypeOK, TypeOK', Grows, NEW d \in Device, NEW c \in Screen, Good(d, c)
  PROVE  GoodNext(d, c)
<1>1. c.version \in Nat /\ proj[d].version \in Nat /\ proj'[d].version \in Nat
  <2>1. proj[d] \in Screen /\ proj'[d] \in Screen
    BY DEF TypeOK
  <2> QED
    BY <2>1 DEF Screen
<1>2. c = proj'[d] \/ c.version < proj'[d].version
  BY <1>1 DEF Good, Current, Grows
<1> QED
  BY <1>2, FitStays DEF Good, GoodNext

LEMMA DoneStays ==
  ASSUME Grows, NEW p \in Press, press[p] # NoPress, Done(p)
  PROVE  DoneNext(p)
  BY DEF Grows, Done, DoneNext

LEMMA NotedStays ==
  ASSUME TypeOK, Grows, NEW t \in Thread, hand[t].at # "idle", Noted(t), Fit(Seen(t))
  PROVE  NotedNext(hand[t])
<1>1. Pressed(t) = press'[hand[t].press] /\ Seen(t) = hand[t].seen
  BY HandType DEF Pressed, Seen, Grows
<1>2. SUFFICES ASSUME Interrupts(t)
               PROVE  \/ Seen(t).session \in flagged'
                      \/ session'[Seen(t).session].status # "OPEN"
  BY <1>1 DEF NotedNext, Interrupts
<1>3. Seen(t).session \in Session /\ session[Seen(t).session].status # "UNUSED"
  BY <1>2, HandType DEF Interrupts, Fit, Screen
<1> QED
  BY <1>2, <1>3 DEF Noted, Grows

\* A thread that does nothing keeps what it knows.
LEMMA WorkingStays ==
  ASSUME Inv, TypeOK', Grows, NEW t \in Thread
  PROVE  WorksNext(hand[t])
<1>0. TypeOK /\ Working(t)
  BY DEF Inv
<1>1. CASE hand[t].at = "idle"
  BY <1>1 DEF WorksNext
<1>2. CASE hand[t].at # "idle"
  <2> DEFINE p == hand[t].press
             d == Pressed(t).device
  <2>1. /\ p \in Press /\ press[p] # NoPress /\ d \in Device /\ Pressed(t) = press'[p]
        /\ Seen(t) \in Screen /\ hand[t].next \in Screen /\ hand[t].answer \in Answer
    BY <1>0, <1>2, HandType DEF Grows, Pressed
  <2>2. hand[t].answer.shows \in Screen
    BY <2>1 DEF Answer
  <2>3. hand[t].at \in {"apply", "find", "project", "store"} => GoodNext(d, Seen(t)) /\ Fit(Seen(t))
    BY <1>0, <2>1, GoodStays DEF Working, Good
  <2>4. hand[t].at \in {"find", "project"} => (Noted(t) => NotedNext(hand[t]))
    BY <1>0, <1>2, <2>3, NotedStays
  <2>5. Done(p) => DoneNext(p)
    BY <2>1, DoneStays
  <2>6. hand[t].at = "project" => FitNext(hand[t].next)
    BY <1>0, <2>1, FitStays DEF Working
  <2>7. hand[t].at \in {"store", "reply"} => GoodNext(d, hand[t].answer.shows)
    BY <1>0, <2>1, <2>2, GoodStays DEF Working
  <2> QED
    BY <1>0, <2>1, <2>3, <2>4, <2>5, <2>6, <2>7 DEF Working, WorksNext, Seen
<1> QED
  BY <1>1, <1>2

LEMMA WorkingNext ==
  ASSUME NEW t \in Thread, WorksNext(hand'[t])
  PROVE  Working(t)'
  BY DEF WorksNext, Working, GoodNext, Good, Current, FitNext, Fit, DoneNext, Done, NotedNext, Noted,
         Interrupts, Pressed, Seen

\* One thread acts, the others stay as they are.
LEMMA AllWork ==
  ASSUME Inv, TypeOK', Grows, NEW t \in Thread, NEW h, hand' = [hand EXCEPT ![t] = h], WorksNext(h)
  PROVE  \A u \in Thread : Working(u)'
<1>1. hand \in [Thread -> Hand]
  BY DEF Inv, TypeOK
<1>2. \A u \in Thread : WorksNext(hand'[u])
  <2> TAKE u \in Thread
  <2>1. CASE u = t
    BY <1>1, <2>1
  <2>2. CASE u # t
    <3>1. hand'[u] = hand[u]
      BY <1>1, <2>2
    <3> QED
      BY <3>1, WorkingStays
  <2> QED
    BY <2>1, <2>2
<1> QED
  BY <1>2, WorkingNext

LEMMA NoneWorks ==
  ASSUME Inv, TypeOK', Grows, UNCHANGED hand
  PROVE  \A u \in Thread : Working(u)'
<1>1. \A u \in Thread : WorksNext(hand'[u])
  BY WorkingStays
<1> QED
  BY <1>1, WorkingNext

LEMMA IdleWorks == \A h : h = Idle \/ h.at = "look" => WorksNext(h)
  BY DEF Idle, WorksNext

LEMMA ScreensNext ==
  ASSUME \A d \in Device : FitNext(proj'[d]) /\ GoodNext(d, screen'[d])
  PROVE  ScreensOK'
  BY DEF ScreensOK, FitNext, Fit, GoodNext, Good, Current

LEMMA ScreensStay ==
  ASSUME Inv, TypeOK', Grows, UNCHANGED <<proj, screen>>
  PROVE  ScreensOK'
<1>1. \A d \in Device : proj[d] \in Screen /\ screen[d] \in Screen
  BY DEF Inv, TypeOK
<1>2. \A d \in Device : FitNext(proj[d]) /\ GoodNext(d, screen[d])
  BY <1>1, FitStays, GoodStays DEF Inv, ScreensOK, Good
<1> QED
  BY <1>2, ScreensNext

\* PressesOK, of an event after the step, with its answer.
PressNext(p, a) ==
  /\ press'[p] # NoPress =>
       /\ GoodNext(press'[p].device, press'[p].shown)
       /\ a.verdict # "none" => GoodNext(press'[p].device, a.shows)
       /\ a.verdict = "accepted" => DoneNext(p)
  /\ press'[p] = NoPress => a.verdict = "none" /\ started'[p] = {} /\ finished'[p] = {}

LEMMA PressesNext ==
  ASSUME \A p \in Press : PressNext(p, answer'[p])
  PROVE  PressesOK'
  BY DEF PressesOK, PressNext, FitNext, Fit, GoodNext, Good, Current, DoneNext, Done

LEMMA PressStays ==
  ASSUME Inv, TypeOK', Grows, NEW p \in Press,
         press[p] = NoPress => started'[p] = started[p] /\ finished'[p] = finished[p],
         press'[p] = press[p]
  PROVE  PressNext(p, answer[p])
<1>1. press[p] \in Pushed \cup {NoPress} /\ answer[p] \in Answer
  BY DEF Inv, TypeOK
<1>2. CASE press[p] = NoPress
  BY <1>2 DEF Inv, PressesOK, PressNext
<1>3. CASE press[p] # NoPress
  <2>1. press[p].device \in Device /\ press[p].shown \in Screen /\ answer[p].shows \in Screen
    BY <1>1, <1>3 DEF Pushed, Answer
  <2>2. GoodNext(press[p].device, press[p].shown)
    BY <1>3, <2>1, GoodStays DEF Inv, PressesOK
  <2>3. answer[p].verdict # "none" => GoodNext(press[p].device, answer[p].shows)
    BY <1>3, <2>1, GoodStays DEF Inv, PressesOK
  <2>4. answer[p].verdict = "accepted" => DoneNext(p)
    BY <1>3, DoneStays DEF Inv, PressesOK
  <2> QED
    BY <1>3, <2>2, <2>3, <2>4 DEF PressNext
<1> QED
  BY <1>2, <1>3

LEMMA PressesStay ==
  ASSUME Inv, TypeOK', Grows, UNCHANGED <<press, answer>>,
         \A p \in Press : press[p] = NoPress => started'[p] = started[p] /\ finished'[p] = finished[p]
  PROVE  PressesOK'
<1>1. \A p \in Press : PressNext(p, answer'[p])
  BY PressStays
<1> QED
  BY <1>1, PressesNext

\* EffectsOK, of an event after the step.
EffectNext(p) ==
  /\ \A s \in finished'[p] : /\ press'[p].shown.session = s
                             /\ session'[s].employee = press'[p].shown.employee
  /\ \A s \in started'[p] : session'[s].employee = press'[p].shown.employee
  /\ \A r, s \in started'[p] : r = s
  /\ \A s \in started'[p] \cup finished'[p] : session'[s].status # "UNUSED"

LEMMA EffectsNext ==
  ASSUME \A p \in Press : EffectNext(p)
  PROVE  EffectsOK'
  BY DEF EffectNext, EffectsOK, EffectAsShown, OpensOnce

LEMMA EffectStays ==
  ASSUME Inv, Grows, NEW p \in Press, started'[p] = started[p], finished'[p] = finished[p]
  PROVE  EffectNext(p)
<1>1. started[p] \subseteq Session /\ finished[p] \subseteq Session
  BY DEF Inv, TypeOK
<1>2. started[p] \cup finished[p] # {} => press[p] # NoPress /\ press'[p] = press[p]
  BY DEF Inv, PressesOK, Grows
<1>3. \A s \in started[p] \cup finished[p] :
        /\ session[s].status # "UNUSED" /\ session'[s].status # "UNUSED"
        /\ session'[s].employee = session[s].employee
  BY <1>1 DEF Inv, EffectsOK, Grows
<1> QED
  BY <1>2, <1>3 DEF Inv, EffectsOK, EffectAsShown, OpensOnce, EffectNext

LEMMA EffectsStay ==
  ASSUME Inv, Grows, UNCHANGED <<started, finished>>
  PROVE  EffectsOK'
  BY EffectStays, EffectsNext

-----------------------------------------------------------------------------
(* The hand of a thread after each of its steps *)

LEMMA Received ==
  ASSUME TypeOK, NEW t \in Thread, NEW p \in Press, Receive(t, p)
  PROVE  \E h \in Hand :
           /\ hand' = [hand EXCEPT ![t] = h] /\ h.press = p
           /\ \/ h.at = "look"
              \/ h.at = "reply" /\ h.answer = answer[p] /\ answer[p].verdict # "none"
<1> DEFINE l == [Idle EXCEPT !.at = "look", !.press = p]
           r == [Idle EXCEPT !.at = "reply", !.press = p, !.answer = answer[p]]
<1>1. Idle \in Hand /\ answer[p] \in Answer
  BY IdleType DEF TypeOK
<1>2. l \in Hand /\ l.press = p /\ l.at = "look"
  BY <1>1 DEF Hand, Step, Idle
<1>3. r \in Hand /\ r.press = p /\ r.at = "reply" /\ r.answer = answer[p]
  BY <1>1 DEF Hand, Step, Idle
<1>4. hand' = [hand EXCEPT ![t] = IF answer[p].verdict = "none" THEN l ELSE r]
  BY DEF Receive
<1> HIDE DEF l, r
<1> QED
  BY <1>2, <1>3, <1>4

LEMMA Looked ==
  ASSUME TypeOK, NEW t \in Thread, Look(t)
  PROVE  \E h \in Hand :
           /\ hand' = [hand EXCEPT ![t] = h] /\ h.press = hand[t].press
           /\ h.seen = proj[Pressed(t).device]
           /\ h.answer.verdict = "conflict" /\ h.answer.shows = proj[Pressed(t).device]
           /\ \/ h.at = "store"
              \/ h.at = "apply" /\ ~(Pressed(t).shown.version < proj[Pressed(t).device].version)
<1> DEFINE row == proj[Pressed(t).device]
           a == [verdict |-> "conflict", shows |-> row]
           next == IF Pressed(t).shown.version < row.version THEN "store" ELSE "apply"
           h == [hand[t] EXCEPT !.seen = row, !.at = next, !.answer = a]
<1>1. hand[t] \in Hand /\ row \in Screen
  BY HandType DEF TypeOK, Look
<1>2. a \in Answer /\ a.verdict = "conflict" /\ a.shows = row
  BY <1>1 DEF Answer, Verdict
<1>3. hand' = [hand EXCEPT ![t] = h]
  BY DEF Look
<1>4. next \in {"store", "apply"}
      /\ (next = "apply" => ~(Pressed(t).shown.version < row.version))
  OBVIOUS
<1> HIDE DEF row, a, next
<1>5. h \in Hand /\ h.at = next /\ h.press = hand[t].press /\ h.seen = row /\ h.answer = a
  BY <1>1, <1>2, <1>4 DEF Hand, Step
<1> HIDE DEF h
<1> QED
  BY <1>2, <1>3, <1>4, <1>5 DEF row

LEMMA Reported ==
  ASSUME TypeOK, NEW t \in Thread, Report(t)
  PROVE  \E h \in Hand :
           /\ hand' = [hand EXCEPT ![t] = h]
           /\ h.at = "find" /\ h.press = hand[t].press /\ h.seen = Seen(t)
<1> DEFINE h == [hand[t] EXCEPT !.at = "find"]
<1>1. h \in Hand /\ h.at = "find" /\ h.press = hand[t].press /\ h.seen = Seen(t)
  BY HandType DEF Hand, Step, Seen
<1>2. hand' = [hand EXCEPT ![t] = h]
  BY DEF Report
<1> QED
  BY <1>1, <1>2

LEMMA Projected ==
  ASSUME TypeOK, NEW t \in Thread, Project(t)
  PROVE  \/ UNCHANGED proj /\ hand' = [hand EXCEPT ![t] = Idle]
         \/ /\ proj[Pressed(t).device].version = Seen(t).version
            /\ proj' = [proj EXCEPT ![Pressed(t).device] = hand[t].next]
            /\ \E h \in Hand :
                 /\ hand' = [hand EXCEPT ![t] = h]
                 /\ h.at = "store" /\ h.press = hand[t].press /\ h.seen = Seen(t)
                 /\ h.answer.verdict = "accepted" /\ h.answer.shows = hand[t].next
<1> DEFINE a == [verdict |-> "accepted", shows |-> hand[t].next]
           h == [hand[t] EXCEPT !.at = "store", !.answer = a]
<1>1. a \in Answer /\ a.verdict = "accepted" /\ a.shows = hand[t].next
  BY HandType DEF Answer, Verdict
<1>2. \/ UNCHANGED proj /\ hand' = [hand EXCEPT ![t] = Idle]
      \/ /\ proj[Pressed(t).device].version = Seen(t).version
         /\ proj' = [proj EXCEPT ![Pressed(t).device] = hand[t].next]
         /\ hand' = [hand EXCEPT ![t] = h]
  BY DEF Project
<1> HIDE DEF a
<1>3. h \in Hand /\ h.at = "store" /\ h.press = hand[t].press /\ h.seen = Seen(t) /\ h.answer = a
  BY <1>1, HandType DEF Hand, Step, Seen
<1> HIDE DEF h
<1> QED
  BY <1>1, <1>2, <1>3

LEMMA Stored ==
  ASSUME TypeOK, NEW t \in Thread, Store(t)
  PROVE  \E h \in Hand :
           /\ hand' = [hand EXCEPT ![t] = h]
           /\ h = Idle \/ (h.at = "reply" /\ h.press = hand[t].press /\ h.answer = hand[t].answer)
<1> DEFINE h == [Idle EXCEPT !.at = "reply", !.press = hand[t].press, !.answer = hand[t].answer]
<1>1. h \in Hand /\ h.at = "reply" /\ h.press = hand[t].press /\ h.answer = hand[t].answer
  BY IdleType, HandType DEF Hand, Step, Idle
<1>2. \/ hand' = [hand EXCEPT ![t] = h]
      \/ hand' = [hand EXCEPT ![t] = Idle]
  BY DEF Store
<1> HIDE DEF h
<1> QED
  BY <1>1, <1>2, IdleType

\* A thread that ends, or goes on with the event it has.
HandKept == \E t \in Thread, h \in Hand :
  /\ hand' = [hand EXCEPT ![t] = h]
  /\ h.at # "idle" => h.press \in Press /\ press[h.press] # NoPress

LEMMA FoundPlan ==
  ASSUME TypeOK, NEW t \in Thread, FindSession(t)
  PROVE  \E state \in {"WAIT_OPERATION", "QUANTITY_INPUT"}, s \in Session \cup {NoSession} :
           /\ Plans(t, state, Pressed(t).card, s)
           /\ s # NoSession => s \in OpenOf(Pressed(t).card)
           /\ state = "QUANTITY_INPUT" => s # NoSession
<1>1. \A s \in OpenOf(Pressed(t).card) : s \in Session /\ s # NoSession
  BY NullAssumption DEF OpenOf
<1> QED
  BY <1>1 DEF FindSession

LEMMA NextHand ==
  ASSUME TypeOK, [Next]_vars
  PROVE  UNCHANGED hand \/ (HandKept /\ UNCHANGED press)
<1>1. ASSUME NEW t \in Thread, hand' = [hand EXCEPT ![t] = Idle] PROVE HandKept
  <2>1. Idle \in Hand /\ Idle.at = "idle"
    BY IdleType DEF Idle
  <2> QED
    BY <1>1, <2>1 DEF HandKept
<1>2. ASSUME NEW t \in Thread, hand[t].at # "idle", NEW h \in Hand,
             hand' = [hand EXCEPT ![t] = h], h.press = hand[t].press
      PROVE  HandKept
  BY <1>2, HandType DEF HandKept
<1>3. ASSUME NEW t \in Thread, hand[t].at # "idle",
             NEW state \in {"WAIT_EMPLOYEE", "WAIT_OPERATION", "QUANTITY_INPUT"},
             NEW e \in Employee \cup {Nobody}, NEW s \in Session \cup {NoSession},
             Plans(t, state, e, s)
      PROVE  HandKept
  BY <1>2, <1>3, Planned
<1>4. ASSUME NEW t \in Thread, NEW p \in Press, Receive(t, p) PROVE HandKept /\ UNCHANGED press
  <2>1. press[p] # NoPress /\ UNCHANGED press
    BY <1>4 DEF Receive
  <2>2. PICK h \in Hand : hand' = [hand EXCEPT ![t] = h] /\ h.press = p
    BY <1>4, Received
  <2> QED
    BY <2>1, <2>2 DEF HandKept
<1>5. ASSUME NEW t \in Thread, Look(t) \/ Report(t) PROVE HandKept /\ UNCHANGED press
  <2>1. hand[t].at # "idle" /\ UNCHANGED press
    BY <1>5 DEF Look, Report, Applies
  <2> QED
    BY <1>2, <1>5, <2>1, Looked, Reported
<1>6. ASSUME NEW t \in Thread, FindSession(t) PROVE HandKept /\ UNCHANGED press
  <2>1. hand[t].at # "idle" /\ UNCHANGED press
    BY <1>6 DEF FindSession, Applies
  <2>2. Pressed(t).card \in Employee \cup {Nobody}
    BY <2>1, HandType
  <2> QED
    BY <1>3, <1>6, <2>1, <2>2, FoundPlan
<1>7. ASSUME NEW t \in Thread, ScanOperation(t) \/ SubmitQuantity(t) \/ Cancel(t)
      PROVE  HandKept /\ UNCHANGED press
  <2>1. hand[t].at # "idle" /\ UNCHANGED press /\ Plans(t, "WAIT_EMPLOYEE", Nobody, NoSession)
    BY <1>7 DEF ScanOperation, SubmitQuantity, Cancel, Applies
  <2> QED
    BY <1>3, <2>1
<1>8. ASSUME NEW t \in Thread, Reject(t) PROVE HandKept /\ UNCHANGED press
  <2>1. hand[t].at # "idle" /\ UNCHANGED press /\ Decides(t, "rejected")
    BY <1>8 DEF Reject
  <2> QED
    BY <1>2, <2>1, Decided
<1>9. ASSUME NEW t \in Thread, Project(t) \/ Store(t) PROVE HandKept /\ UNCHANGED press
  <2>1. hand[t].at # "idle" /\ UNCHANGED press
    BY <1>9 DEF Project, Store
  <2> QED
    BY <1>1, <1>2, <1>9, <2>1, Projected, Stored
<1>10. ASSUME NEW t \in Thread, Reply(t) \/ Break(t) PROVE HandKept /\ UNCHANGED press
  BY <1>1, <1>10 DEF Reply, Break
<1> QED
  BY <1>4, <1>5, <1>6, <1>7, <1>8, <1>9, <1>10
     DEF Next, Handle, Push, Resync, OpenElsewhere, CloseElsewhere, vars

LEMMA NextType ==
  ASSUME Inv, [Next]_vars
  PROVE  TypeOK'
<1>0. TypeOK /\ ScreensOK /\ PressesOK /\ \A t \in Thread : Working(t)
  BY DEF Inv
<1>1. hand' \in [Thread -> Hand]
  BY <1>0, NextHand DEF TypeOK, HandKept
<1>2. press' \in [Press -> Pushed \cup {NoPress}]
  <2>1. press \in [Press -> Pushed \cup {NoPress}]
    BY <1>0 DEF TypeOK
  <2>2. ASSUME NEW d \in Device, NEW p \in Press, NEW kind \in Kind, NEW card \in Employee \cup {Nobody},
               Push(d, p, kind, card)
        PROVE  press' \in [Press -> Pushed \cup {NoPress}]
    <3>1. [device |-> d, kind |-> kind, card |-> card, shown |-> screen[d]] \in Pushed
      BY <1>0 DEF TypeOK, Pushed
    <3> QED
      BY <2>1, <2>2, <3>1 DEF Push
  <2> QED
    BY <2>1, <2>2 DEF Next, Handle, Resync, Receive, Look, Report, FindSession, ScanOperation,
         SubmitQuantity, Cancel, Reject, Project, Store, Reply, Break, OpenElsewhere, CloseElsewhere, vars
<1>3. \A p \in Press : press[p] # NoPress => press'[p] # NoPress
  BY NextGrows DEF Grows
<1>4. \A t \in Thread : hand'[t].at # "idle" => hand'[t].press \in Press /\ press'[hand'[t].press] # NoPress
  <2>1. CASE UNCHANGED hand
    BY <1>0, <1>3, <2>1 DEF TypeOK
  <2>2. CASE HandKept /\ UNCHANGED press
    BY <1>0, <2>2 DEF TypeOK, HandKept
  <2> QED
    BY <1>0, <2>1, <2>2, NextHand
<1>5. waiting' \in [Device -> Press \cup {NoPress}]
  BY <1>0 DEF TypeOK, Next, Handle, Push, Resync, Receive, Look, Report, FindSession, ScanOperation,
       SubmitQuantity, Cancel, Reject, Project, Store, Reply, Break, OpenElsewhere, CloseElsewhere, vars
<1>6. \A d \in Device : waiting'[d] # NoPress => press'[waiting'[d]] # NoPress
  <2>0. waiting \in [Device -> Press \cup {NoPress}] /\ press \in [Press -> Pushed \cup {NoPress}]
    BY <1>0 DEF TypeOK
  <2>1. ASSUME NEW d \in Device, NEW p \in Press, NEW kind \in Kind, NEW card \in Employee \cup {Nobody},
               Push(d, p, kind, card)
        PROVE  /\ press'[p] # NoPress
               /\ \A e \in Device : waiting'[e] = waiting[e] \/ waiting'[e] = p
    <3>1. [device |-> d, kind |-> kind, card |-> card, shown |-> screen[d]] \in Pushed
      BY <1>0 DEF TypeOK, Pushed
    <3>2. [device |-> d, kind |-> kind, card |-> card, shown |-> screen[d]] # NoPress
      BY <3>1, PressAssumption
    <3> QED
      BY <2>0, <2>1, <3>2 DEF Push
  <2>2. \A e \in Device : \/ waiting'[e] = waiting[e] \/ waiting'[e] = NoPress
                          \/ waiting'[e] \in Press /\ press'[waiting'[e]] # NoPress
    BY <2>0, <2>1 DEF Next, Handle, Resync, Receive, Look, Report, FindSession, ScanOperation,
         SubmitQuantity, Cancel, Reject, Project, Store, Reply, Break, OpenElsewhere, CloseElsewhere, vars
  <2>3. \A e \in Device : waiting[e] # NoPress => waiting[e] \in Press /\ press[waiting[e]] # NoPress
    BY <1>0, <2>0 DEF TypeOK
  <2> QED
    BY <1>3, <2>2, <2>3
<1>7. proj' \in [Device -> Screen] /\ screen' \in [Device -> Screen]
  <2>0. proj \in [Device -> Screen] /\ screen \in [Device -> Screen]
    BY <1>0 DEF TypeOK
  <2>1. ASSUME NEW t \in Thread, Project(t) PROVE proj' \in [Device -> Screen] /\ UNCHANGED screen
    <3>1. hand[t].next \in Screen
      BY <1>0, HandType
    <3> QED
      BY <2>0, <2>1, <3>1 DEF Project
  <2>2. ASSUME NEW t \in Thread, Reply(t) PROVE screen' \in [Device -> Screen] /\ UNCHANGED proj
    <3>1. hand[t].at # "idle" /\ hand[t].answer \in Answer /\ Pressed(t).device \in Device
      BY <1>0, <2>2, HandType DEF Reply
    <3>2. hand[t].answer.shows \in Screen /\ proj[Pressed(t).device] \in Screen
      BY <2>0, <3>1 DEF Answer
    <3> QED
      BY <2>0, <2>2, <3>2 DEF Reply
  <2>3. ASSUME NEW d \in Device, Resync(d) PROVE screen' \in [Device -> Screen] /\ UNCHANGED proj
    BY <2>0, <2>3 DEF Resync
  <2> QED
    BY <2>0, <2>1, <2>2, <2>3 DEF Next, Handle, Push, Receive, Look, Report, FindSession, ScanOperation,
         SubmitQuantity, Cancel, Reject, Store, Break, OpenElsewhere, CloseElsewhere, vars
<1>8. answer' \in [Press -> Answer]
  <2>1. ASSUME NEW t \in Thread, Store(t) PROVE answer' \in [Press -> Answer]
    <3>1. hand[t].answer \in Answer /\ answer \in [Press -> Answer]
      BY <1>0, HandType DEF TypeOK
    <3> QED
      BY <2>1, <3>1 DEF Store
  <2> QED
    BY <1>0, <2>1 DEF TypeOK, Next, Handle, Push, Resync, Receive, Look, Report, FindSession, ScanOperation,
         SubmitQuantity, Cancel, Reject, Project, Reply, Break, OpenElsewhere, CloseElsewhere, vars
<1>9. flagged' \in SUBSET Session
  <2>1. ASSUME NEW t \in Thread, Report(t) PROVE flagged' \in SUBSET Session
    <3>1. Seen(t).session \in Session
      BY <1>0, <2>1, HandType DEF Report, Interrupts, Screen
    <3> QED
      BY <1>0, <2>1, <3>1 DEF Report, TypeOK
  <2> QED
    BY <1>0, <2>1 DEF TypeOK, Next, Handle, Push, Resync, Receive, Look, FindSession, ScanOperation,
         SubmitQuantity, Cancel, Reject, Project, Store, Reply, Break, OpenElsewhere, CloseElsewhere, vars
<1>10. /\ session' \in [Session -> Row]
       /\ started' \in [Press -> SUBSET Session] /\ finished' \in [Press -> SUBSET Session]
  <2>0. /\ session \in [Session -> Row]
        /\ started \in [Press -> SUBSET Session] /\ finished \in [Press -> SUBSET Session]
    BY <1>0 DEF TypeOK
  <2>a. \A e \in Employee \cup {Nobody} : [status |-> "OPEN", employee |-> e] \in Row
    BY DEF Row
  <2>b. \A s \in Session : [session[s] EXCEPT !.status = "CLOSED"] \in Row
    BY <2>0 DEF Row
  <2>1. ASSUME NEW t \in Thread, ScanOperation(t)
        PROVE  /\ session' \in [Session -> Row] /\ started' \in [Press -> SUBSET Session]
               /\ UNCHANGED finished
    <3>1. Seen(t).employee \in Employee \cup {Nobody}
      BY <1>0, HandType DEF Screen
    <3> QED
      BY <2>0, <2>a, <2>1, <3>1 DEF ScanOperation, Unused
  <2>2. ASSUME NEW t \in Thread, SubmitQuantity(t)
        PROVE  /\ session' \in [Session -> Row] /\ finished' \in [Press -> SUBSET Session]
               /\ UNCHANGED started
    <3>1. Seen(t).session \in Session
      BY <1>0, <2>2, HandType DEF SubmitQuantity, Applies, Working, Good, Fit, Screen
    <3> QED
      BY <2>0, <2>b, <2>2, <3>1 DEF SubmitQuantity
  <2>3. ASSUME NEW e \in Employee, OpenElsewhere(e)
        PROVE  session' \in [Session -> Row] /\ UNCHANGED <<started, finished>>
    BY <2>0, <2>a, <2>3 DEF OpenElsewhere, Unused
  <2>4. ASSUME NEW s \in Session, CloseElsewhere(s)
        PROVE  session' \in [Session -> Row] /\ UNCHANGED <<started, finished>>
    BY <2>0, <2>b, <2>4 DEF CloseElsewhere
  <2> QED
    BY <2>0, <2>1, <2>2, <2>3, <2>4 DEF Next, Handle, Push, Resync, Receive, Look, Report, FindSession,
         Cancel, Reject, Project, Store, Reply, Break, vars
<1> QED
  BY <1>1, <1>2, <1>4, <1>5, <1>6, <1>7, <1>8, <1>9, <1>10 DEF TypeOK

-----------------------------------------------------------------------------
(* Every step keeps the invariant *)

LEMMA InitInv == Init => Inv
<1> SUFFICES ASSUME Init PROVE Inv
  OBVIOUS
<1>1. /\ \A d \in Device : proj[d] = Blank /\ screen[d] = Blank /\ waiting[d] = NoPress
      /\ \A p \in Press : press[p] = NoPress /\ answer[p] = Unanswered /\ started[p] = {} /\ finished[p] = {}
      /\ \A t \in Thread : hand[t] = Idle
  BY DEF Init
<1>2. Blank.session = NoSession /\ Blank.state = "WAIT_EMPLOYEE" /\ Idle.at = "idle"
      /\ Unanswered.verdict = "none"
  BY DEF Blank, Idle, Unanswered
<1>3. [status |-> "UNUSED", employee |-> Nobody] \in Row
  BY DEF Row
<1>4. TypeOK
  BY <1>1, <1>2, <1>3, IdleType DEF Init, TypeOK
<1>5. ScreensOK
  BY <1>1, <1>2 DEF ScreensOK, Good, Current, Fit
<1>6. PressesOK /\ EffectsOK
  BY <1>1, <1>2 DEF PressesOK, EffectsOK, EffectAsShown, OpensOnce
<1>7. \A t \in Thread : Working(t)
  BY <1>1, <1>2 DEF Working
<1> QED
  BY <1>4, <1>5, <1>6, <1>7 DEF Inv

LEMMA PushKeeps ==
  ASSUME Inv, TypeOK', Grows, NEW d \in Device, NEW p \in Press, NEW kind \in Kind,
         NEW card \in Employee \cup {Nobody}, Push(d, p, kind, card)
  PROVE  Inv'
<1>0. TypeOK /\ press \in [Press -> Pushed \cup {NoPress}]
  BY DEF Inv, TypeOK
<1>1. ScreensOK' /\ EffectsOK' /\ \A t \in Thread : Working(t)'
  BY ScreensStay, EffectsStay, NoneWorks DEF Push
<1>2. \A q \in Press : PressNext(q, answer'[q])
  <2> TAKE q \in Press
  <2>1. CASE q # p
    BY <1>0, <2>1, PressStays DEF Push
  <2>2. CASE q = p
    <3>1. press'[q] = [device |-> d, kind |-> kind, card |-> card, shown |-> screen[d]]
      BY <1>0, <2>2 DEF Push
    <3>2. press'[q].device = d /\ press'[q].shown = screen[d] /\ screen[d] \in Screen
      BY <1>0, <3>1 DEF TypeOK
    <3>3. GoodNext(d, screen[d])
      BY <1>0, <3>2, GoodStays DEF Inv, ScreensOK
    <3>4. answer'[q].verdict = "none" /\ started'[q] = {} /\ finished'[q] = {}
      BY <2>2 DEF Push, Inv, PressesOK
    <3> QED
      BY <3>2, <3>3, <3>4 DEF PressNext
  <2> QED
    BY <2>1, <2>2
<1> QED
  BY <1>1, <1>2, PressesNext DEF Inv

LEMMA ResyncKeeps ==
  ASSUME Inv, TypeOK', Grows, NEW d \in Device, Resync(d)
  PROVE  Inv'
<1>0. TypeOK /\ screen \in [Device -> Screen] /\ proj \in [Device -> Screen]
  BY DEF Inv, TypeOK
<1>1. PressesOK' /\ EffectsOK' /\ \A t \in Thread : Working(t)'
  BY PressesStay, EffectsStay, NoneWorks DEF Resync
<1>2. \A e \in Device : FitNext(proj'[e]) /\ GoodNext(e, screen'[e])
  <2> TAKE e \in Device
  <2>1. screen'[e] \in {screen[e], proj[e]} /\ proj'[e] = proj[e]
    BY <1>0 DEF Resync
  <2>2. GoodNext(e, screen[e]) /\ GoodNext(e, proj[e])
    BY <1>0, GoodStays DEF Inv, ScreensOK
  <2> QED
    BY <2>1, <2>2 DEF GoodNext
<1> QED
  BY <1>1, <1>2, ScreensNext DEF Inv

LEMMA ElsewhereKeeps ==
  ASSUME Inv, TypeOK', Grows,
         UNCHANGED <<proj, started, finished, answer, screen, press, hand>>
  PROVE  Inv'
  BY ScreensStay, PressesStay, EffectsStay, NoneWorks DEF Inv

\* A step of a thread that touches only its own hand, sessions and reports.
LEMMA HandKeeps ==
  ASSUME Inv, TypeOK', Grows, NEW t \in Thread, NEW h, hand' = [hand EXCEPT ![t] = h], WorksNext(h),
         UNCHANGED <<proj, screen, press, answer, started, finished>>
  PROVE  Inv'
<1>1. \A u \in Thread : Working(u)'
  BY AllWork
<1> QED
  BY <1>1, ScreensStay, PressesStay, EffectsStay DEF Inv

LEMMA EndKeeps ==
  ASSUME Inv, TypeOK', Grows, NEW t \in Thread, hand' = [hand EXCEPT ![t] = Idle],
         UNCHANGED <<proj, screen, press, answer, started, finished>>
  PROVE  Inv'
  BY HandKeeps, IdleWorks

LEMMA ReceiveKeeps ==
  ASSUME Inv, TypeOK', Grows, NEW t \in Thread, NEW p \in Press, Receive(t, p)
  PROVE  Inv'
<1>0. TypeOK /\ press[p] # NoPress /\ press'[p] = press[p]
      /\ UNCHANGED <<proj, screen, press, answer, started, finished>>
  BY DEF Inv, Receive
<1>1. PICK h \in Hand : /\ hand' = [hand EXCEPT ![t] = h] /\ h.press = p
                        /\ \/ h.at = "look"
                           \/ h.at = "reply" /\ h.answer = answer[p] /\ answer[p].verdict # "none"
  BY <1>0, Received
<1>2. CASE h.at = "look"
  BY <1>0, <1>1, <1>2, HandKeeps, IdleWorks
<1>3. CASE h.at = "reply" /\ h.answer = answer[p] /\ answer[p].verdict # "none"
  <2>1. PressNext(p, answer[p])
    BY <1>0, PressStays
  <2>2. WorksNext(h)
    BY <1>0, <1>1, <1>3, <2>1 DEF WorksNext, PressNext
  <2> QED
    BY <1>0, <1>1, <2>2, HandKeeps
<1> QED
  BY <1>1, <1>2, <1>3

LEMMA LookKeeps ==
  ASSUME Inv, TypeOK', Grows, NEW t \in Thread, Look(t)
  PROVE  Inv'
<1> DEFINE d == Pressed(t).device
           p == hand[t].press
<1>0. /\ TypeOK /\ hand[t].at # "idle"
      /\ UNCHANGED <<proj, screen, press, answer, started, finished>>
  BY DEF Inv, Look
<1>1. /\ p \in Press /\ press[p] # NoPress /\ Pressed(t) = press'[p] /\ Pressed(t) = press[p]
      /\ d \in Device /\ Pressed(t).shown \in Screen /\ proj[d] \in Screen
  BY <1>0, HandType DEF TypeOK, Pressed
<1>2. PICK h \in Hand : /\ hand' = [hand EXCEPT ![t] = h] /\ h.press = p /\ h.seen = proj[d]
                        /\ h.answer.verdict = "conflict" /\ h.answer.shows = proj[d]
                        /\ \/ h.at = "store"
                           \/ h.at = "apply" /\ ~(Pressed(t).shown.version < proj[d].version)
  BY <1>0, Looked
<1>3. GoodNext(d, proj[d])
  BY <1>0, <1>1, GoodStays DEF Inv, ScreensOK
<1>4. h.at = "apply" => Pressed(t).shown = proj[d]
  BY <1>1, <1>2 DEF Inv, PressesOK, Good, Current
<1>5. WorksNext(h)
  BY <1>1, <1>2, <1>3, <1>4 DEF WorksNext
<1> QED
  BY <1>0, <1>2, <1>5, HandKeeps

LEMMA ReportKeeps ==
  ASSUME Inv, TypeOK', Grows, NEW t \in Thread, Report(t)
  PROVE  Inv'
<1> DEFINE d == Pressed(t).device
           p == hand[t].press
<1>0. /\ TypeOK /\ hand[t].at = "apply" /\ Working(t)
      /\ UNCHANGED <<proj, screen, press, answer, started, finished>>
  BY DEF Inv, Report, Applies
<1>1. /\ p \in Press /\ press[p] # NoPress /\ Pressed(t) = press'[p]
      /\ d \in Device /\ Seen(t) \in Screen
  BY <1>0, HandType DEF Pressed
<1>2. PICK h \in Hand : /\ hand' = [hand EXCEPT ![t] = h]
                        /\ h.at = "find" /\ h.press = hand[t].press /\ h.seen = Seen(t)
  BY <1>0, Reported
<1>3. GoodNext(d, Seen(t)) /\ Seen(t) = Pressed(t).shown
  BY <1>0, <1>1, GoodStays DEF Working
<1>4. Pressed(t).kind = "EMP" /\ Pressed(t).card # Nobody
  BY DEF Report, Applies
<1>5. NotedNext(h)
  <2>1. Seen(t).session \in flagged' \/ session[Seen(t).session].status # "OPEN"
    BY DEF Report
  <2>2. UNCHANGED session
    BY DEF Report
  <2> QED
    BY <1>2, <2>1, <2>2 DEF NotedNext
<1>6. WorksNext(h)
  BY <1>1, <1>2, <1>3, <1>4, <1>5 DEF WorksNext
<1> QED
  BY <1>0, <1>2, <1>6, HandKeeps

\* A plan that shows nobody and no session.
LEMMA ClearPlan ==
  ASSUME Inv, TypeOK', Grows, NEW t \in Thread, hand[t].at = "apply",
         Plans(t, "WAIT_EMPLOYEE", Nobody, NoSession), DoneNext(hand[t].press)
  PROVE  \E h \in Hand : hand' = [hand EXCEPT ![t] = h] /\ WorksNext(h)
<1> DEFINE d == Pressed(t).device
           p == hand[t].press
<1>0. TypeOK /\ Working(t)
  BY DEF Inv
<1>1. /\ p \in Press /\ press[p] # NoPress /\ Pressed(t) = press'[p]
      /\ d \in Device /\ Seen(t) \in Screen
  BY <1>0, HandType DEF Pressed, Grows
<1>2. PICK h \in Hand :
        /\ hand' = [hand EXCEPT ![t] = h]
        /\ h.at = "project" /\ h.press = hand[t].press /\ h.seen = Seen(t)
        /\ h.next.state = "WAIT_EMPLOYEE" /\ h.next.version = Seen(t).version + 1
        /\ h.next.employee = Nobody /\ h.next.session = NoSession
  BY <1>0, Planned
<1>3. GoodNext(d, Seen(t)) /\ Seen(t) = Pressed(t).shown
  BY <1>0, <1>1, GoodStays DEF Working
<1>4. FitNext(h.next)
  BY <1>2 DEF FitNext
<1>5. WorksNext(h)
  BY <1>1, <1>2, <1>3, <1>4 DEF WorksNext
<1> QED
  BY <1>2, <1>5

LEMMA FindKeeps ==
  ASSUME Inv, TypeOK', Grows, NEW t \in Thread, FindSession(t)
  PROVE  Inv'
<1> DEFINE d == Pressed(t).device
           p == hand[t].press
           e == Pressed(t).card
<1>0. /\ TypeOK /\ hand[t].at \in {"apply", "find"} /\ Working(t)
      /\ UNCHANGED <<proj, session, screen, press, answer, started, finished, flagged>>
  BY DEF Inv, FindSession, Applies
<1>1. /\ p \in Press /\ press[p] # NoPress /\ Pressed(t) = press'[p] /\ Pressed(t) = press[p]
      /\ d \in Device /\ Seen(t) \in Screen /\ e \in Employee \cup {Nobody}
  BY <1>0, HandType DEF Pressed
<1>2. Pressed(t).kind = "EMP" /\ e # Nobody /\ Noted(t)
  BY DEF FindSession, Applies, Inv, Working, Noted
<1>3. PICK state \in {"WAIT_OPERATION", "QUANTITY_INPUT"}, s \in Session \cup {NoSession} :
        /\ Plans(t, state, e, s)
        /\ s # NoSession => s \in OpenOf(e)
        /\ state = "QUANTITY_INPUT" => s # NoSession
  BY <1>0, FoundPlan
<1>4. PICK h \in Hand :
        /\ hand' = [hand EXCEPT ![t] = h]
        /\ h.at = "project" /\ h.press = hand[t].press /\ h.seen = Seen(t)
        /\ h.next.state = state /\ h.next.version = Seen(t).version + 1
        /\ h.next.employee = e /\ h.next.session = s
  BY <1>0, <1>1, <1>3, Planned
<1>5. GoodNext(d, Seen(t)) /\ Seen(t) = Pressed(t).shown
  BY <1>0, <1>1, GoodStays DEF Working
<1>6. FitNext(h.next)
  BY <1>0, <1>2, <1>3, <1>4 DEF FitNext, OpenOf
<1>7. NotedNext(h)
  <2>1. Noted(t) => NotedNext(h)
    BY <1>0, <1>1, <1>4 DEF Noted, NotedNext, Interrupts
  <2> QED
    BY <1>2, <2>1
<1>8. DoneNext(p)
  BY <1>1, <1>2 DEF DoneNext
<1>9. WorksNext(h)
  BY <1>1, <1>4, <1>5, <1>6, <1>7, <1>8 DEF WorksNext
<1> QED
  BY <1>0, <1>4, <1>9, HandKeeps

LEMMA CancelKeeps ==
  ASSUME Inv, TypeOK', Grows, NEW t \in Thread, Cancel(t)
  PROVE  Inv'
<1>1. /\ hand[t].at = "apply" /\ Pressed(t).kind = "CANCEL" /\ UNCHANGED press
      /\ Plans(t, "WAIT_EMPLOYEE", Nobody, NoSession)
      /\ UNCHANGED <<proj, screen, press, answer, started, finished>>
  BY DEF Cancel, Applies
<1>2. DoneNext(hand[t].press)
  BY <1>1 DEF DoneNext, Pressed
<1>3. PICK h \in Hand : hand' = [hand EXCEPT ![t] = h] /\ WorksNext(h)
  BY <1>1, <1>2, ClearPlan
<1> QED
  BY <1>1, <1>3, HandKeeps

LEMMA RejectKeeps ==
  ASSUME Inv, TypeOK', Grows, NEW t \in Thread, Reject(t)
  PROVE  Inv'
<1> DEFINE d == Pressed(t).device
           p == hand[t].press
<1>0. /\ TypeOK /\ hand[t].at = "apply" /\ Working(t)
      /\ UNCHANGED <<proj, screen, press, answer, started, finished>>
  BY DEF Inv, Reject
<1>1. /\ p \in Press /\ Pressed(t) = press'[p] /\ d \in Device /\ Seen(t) \in Screen
  BY <1>0, HandType DEF Pressed
<1>2. PICK h \in Hand :
        /\ hand' = [hand EXCEPT ![t] = h]
        /\ h.at = "store" /\ h.press = hand[t].press /\ h.seen = Seen(t)
        /\ h.answer.verdict = "rejected" /\ h.answer.shows = Seen(t)
  BY <1>0, Decided DEF Reject
<1>3. GoodNext(d, Seen(t))
  BY <1>0, <1>1, GoodStays DEF Working
<1>4. WorksNext(h)
  BY <1>1, <1>2, <1>3 DEF WorksNext
<1> QED
  BY <1>0, <1>2, <1>4, HandKeeps

LEMMA ScanKeeps ==
  ASSUME Inv, TypeOK', Grows, NEW t \in Thread, ScanOperation(t)
  PROVE  Inv'
<1> DEFINE p == hand[t].press
<1>0. /\ TypeOK /\ hand[t].at = "apply" /\ Pressed(t).kind = "OP" /\ Working(t)
      /\ started \in [Press -> SUBSET Session] /\ session \in [Session -> Row]
      /\ Plans(t, "WAIT_EMPLOYEE", Nobody, NoSession)
      /\ UNCHANGED <<proj, finished, answer, flagged, screen, press>>
  BY DEF Inv, TypeOK, ScanOperation, Applies
<1>1. p \in Press /\ press[p] # NoPress /\ Pressed(t) = press'[p] /\ Seen(t) = press'[p].shown
  BY <1>0, HandType DEF Pressed, Working
<1>2. \/ UNCHANGED started /\ started[p] # {}
      \/ \E s \in Unused : /\ started[p] = {}
                           /\ session' = [session EXCEPT ![s] = [status |-> "OPEN", employee |-> Seen(t).employee]]
                           /\ started' = [started EXCEPT ![p] = {s}]
  BY <1>0, <1>1 DEF ScanOperation
<1>3. started'[p] # {} /\ \A q \in Press : q # p => started'[q] = started[q]
  BY <1>0, <1>1, <1>2
<1>4. PICK h \in Hand : hand' = [hand EXCEPT ![t] = h] /\ WorksNext(h)
  <2>1. DoneNext(p)
    BY <1>0, <1>1, <1>3 DEF DoneNext
  <2> QED
    BY <1>0, <2>1, ClearPlan
<1>5. EffectNext(p)
  <2>1. CASE UNCHANGED started
    BY <1>0, <1>1, <2>1, EffectStays
  <2>2. ASSUME NEW s \in Unused, started[p] = {}, started' = [started EXCEPT ![p] = {s}],
               session' = [session EXCEPT ![s] = [status |-> "OPEN", employee |-> Seen(t).employee]]
        PROVE  EffectNext(p)
    <3>1. s \in Session /\ started'[p] = {s}
          /\ session'[s].status = "OPEN" /\ session'[s].employee = press'[p].shown.employee
      BY <1>0, <1>1, <2>2 DEF Unused
    <3>2. \A r \in finished'[p] : /\ press'[p].shown.session = r
                                  /\ session'[r].employee = press'[p].shown.employee
                                  /\ session'[r].status # "UNUSED"
      <4>1. finished[p] \subseteq Session /\ press'[p] = press[p] /\ finished'[p] = finished[p]
        BY <1>0, <1>1 DEF TypeOK
      <4> QED
        BY <1>1, <4>1 DEF Inv, EffectsOK, EffectAsShown, Grows
    <3> QED
      BY <3>1, <3>2 DEF EffectNext
  <2> QED
    BY <1>2, <2>1, <2>2
<1>6. EffectsOK'
  <2>1. \A q \in Press : EffectNext(q)
    BY <1>0, <1>3, <1>5, EffectStays
  <2> QED
    BY <2>1, EffectsNext
<1>7. PressesOK'
  BY <1>0, <1>1, <1>3, PressesStay
<1>8. ScreensOK' /\ \A u \in Thread : Working(u)'
  BY <1>0, <1>4, ScreensStay, AllWork
<1> QED
  BY <1>6, <1>7, <1>8 DEF Inv

LEMMA SubmitKeeps ==
  ASSUME Inv, TypeOK', Grows, NEW t \in Thread, SubmitQuantity(t)
  PROVE  Inv'
<1> DEFINE p == hand[t].press
           s == Seen(t).session
<1>0. /\ TypeOK /\ hand[t].at = "apply" /\ Pressed(t).kind = "QUANTITY" /\ Working(t)
      /\ Seen(t).state = "QUANTITY_INPUT"
      /\ finished \in [Press -> SUBSET Session]
      /\ Plans(t, "WAIT_EMPLOYEE", Nobody, NoSession)
      /\ UNCHANGED <<proj, started, answer, flagged, screen, press>>
  BY DEF Inv, TypeOK, SubmitQuantity, Applies
<1>1. /\ p \in Press /\ press[p] # NoPress /\ Pressed(t) = press'[p] /\ Seen(t) = press'[p].shown
      /\ Seen(t) \in Screen
  BY <1>0, HandType DEF Pressed, Working
<1>2. \/ UNCHANGED finished /\ finished[p] # {}
      \/ finished[p] = {} /\ finished' = [finished EXCEPT ![p] = {s}]
  BY <1>0, <1>1 DEF SubmitQuantity
<1>3. finished'[p] # {} /\ \A q \in Press : q # p => finished'[q] = finished[q]
  BY <1>0, <1>1, <1>2
<1>4. PICK h \in Hand : hand' = [hand EXCEPT ![t] = h] /\ WorksNext(h)
  <2>1. DoneNext(p)
    BY <1>0, <1>1, <1>3 DEF DoneNext
  <2> QED
    BY <1>0, <2>1, ClearPlan
<1>5. EffectNext(p)
  <2>1. CASE UNCHANGED finished
    BY <1>0, <1>1, <2>1, EffectStays
  <2>2. CASE finished[p] = {} /\ finished' = [finished EXCEPT ![p] = {s}]
    <3>1. s \in Session /\ session'[s].status # "UNUSED" /\ session'[s].employee = Seen(t).employee
      BY <1>0, <1>1, FitStays DEF Working, Good, Fit, FitNext, Screen
    <3>2. finished'[p] = {s}
      BY <1>0, <1>1, <2>2
    <3>3. /\ \A r \in started'[p] : /\ session'[r].employee = press'[p].shown.employee
                                    /\ session'[r].status # "UNUSED"
          /\ \A q, r \in started'[p] : q = r
      <4>1. started[p] \subseteq Session /\ press'[p] = press[p] /\ started'[p] = started[p]
        BY <1>0, <1>1 DEF TypeOK
      <4> QED
        BY <1>1, <4>1 DEF Inv, EffectsOK, EffectAsShown, OpensOnce, Grows
    <3> QED
      BY <1>1, <3>1, <3>2, <3>3 DEF EffectNext
  <2> QED
    BY <1>2, <2>1, <2>2
<1>6. EffectsOK'
  <2>1. \A q \in Press : EffectNext(q)
    BY <1>0, <1>3, <1>5, EffectStays
  <2> QED
    BY <2>1, EffectsNext
<1>7. PressesOK'
  BY <1>0, <1>1, <1>3, PressesStay
<1>8. ScreensOK' /\ \A u \in Thread : Working(u)'
  BY <1>0, <1>4, ScreensStay, AllWork
<1> QED
  BY <1>6, <1>7, <1>8 DEF Inv

LEMMA ProjectKeeps ==
  ASSUME Inv, TypeOK', Grows, NEW t \in Thread, Project(t)
  PROVE  Inv'
<1> DEFINE d == Pressed(t).device
           p == hand[t].press
           n == hand[t].next
<1>0. /\ TypeOK /\ hand[t].at = "project" /\ Working(t)
      /\ proj \in [Device -> Screen] /\ screen \in [Device -> Screen]
      /\ UNCHANGED <<screen, press, answer, started, finished>>
  BY DEF Inv, TypeOK, Project
<1>1. p \in Press /\ press[p] # NoPress /\ Pressed(t) = press'[p] /\ d \in Device /\ n \in Screen
      /\ Seen(t) \in Screen
  BY <1>0, HandType DEF Pressed
<1>2. PressesOK' /\ EffectsOK'
  BY <1>0, PressesStay, EffectsStay
<1>3. CASE UNCHANGED proj /\ hand' = [hand EXCEPT ![t] = Idle]
  BY <1>0, <1>3, EndKeeps
<1>4. ASSUME proj' = [proj EXCEPT ![d] = n],
             NEW h \in Hand, hand' = [hand EXCEPT ![t] = h],
             h.at = "store", h.press = p, h.seen = Seen(t),
             h.answer.verdict = "accepted", h.answer.shows = n
      PROVE  Inv'
  <2>1. FitNext(n) /\ proj'[d] = n
    BY <1>0, <1>1, <1>4, FitStays DEF Working
  <2>2. \A e \in Device : FitNext(proj'[e]) /\ GoodNext(e, screen'[e])
    <3> TAKE e \in Device
    <3>1. proj'[e] = proj[e] \/ proj'[e] = n
      BY <1>0, <1>4
    <3>2. FitNext(proj[e])
      BY <1>0, FitStays DEF Inv, ScreensOK, Good
    <3>3. GoodNext(e, screen'[e])
      BY <1>0, GoodStays DEF Inv, ScreensOK
    <3> QED
      BY <2>1, <3>1, <3>2, <3>3
  <2>3. ScreensOK'
    BY <2>2, ScreensNext
  <2>4. WorksNext(h)
    <3>1. GoodNext(d, Seen(t))
      BY <1>0, <1>1, GoodStays DEF Working
    <3>2. DoneNext(p)
      BY <1>0, <1>1, DoneStays DEF Working
    <3>3. GoodNext(d, n)
      BY <2>1 DEF GoodNext
    <3> QED
      BY <1>1, <1>4, <3>1, <3>2, <3>3 DEF WorksNext
  <2> QED
    BY <1>2, <1>4, <2>3, <2>4, AllWork DEF Inv
<1> QED
  BY <1>0, <1>3, <1>4, Projected

LEMMA StoreKeeps ==
  ASSUME Inv, TypeOK', Grows, NEW t \in Thread, Store(t)
  PROVE  Inv'
<1> DEFINE d == Pressed(t).device
           p == hand[t].press
           a == hand[t].answer
<1>0. /\ TypeOK /\ hand[t].at = "store" /\ Working(t) /\ answer \in [Press -> Answer]
      /\ UNCHANGED <<proj, screen, press, started, finished>>
  BY DEF Inv, TypeOK, Store
<1>1. p \in Press /\ press[p] # NoPress /\ press'[p] # NoPress /\ Pressed(t) = press'[p] /\ d \in Device /\ a.shows \in Screen
  BY <1>0, HandType DEF Pressed, Answer
<1>2. GoodNext(d, a.shows) /\ a.verdict # "none" /\ (a.verdict = "accepted" => DoneNext(p))
  BY <1>0, <1>1, GoodStays, DoneStays DEF Working
<1>3. PressesOK'
  <2>1. \A q \in Press : answer'[q] = answer[q] \/ (q = p /\ answer'[q] = a)
    BY <1>0, <1>1 DEF Store
  <2>2. PressNext(p, a)
    <3>1. PressNext(p, answer[p])
      BY <1>0, <1>1, PressStays
    <3> QED
      BY <1>1, <1>2, <3>1 DEF PressNext
  <2>3. \A q \in Press : PressNext(q, answer[q])
    BY <1>0, PressStays
  <2>4. \A q \in Press : PressNext(q, answer'[q])
    BY <2>1, <2>2, <2>3
  <2> QED
    BY <2>4, PressesNext
<1>4. PICK h \in Hand : /\ hand' = [hand EXCEPT ![t] = h]
                        /\ h = Idle \/ (h.at = "reply" /\ h.press = p /\ h.answer = a)
  BY <1>0, Stored
<1>5. WorksNext(h)
  <2>1. CASE h = Idle
    BY <2>1, IdleWorks
  <2>2. CASE h.at = "reply" /\ h.press = p /\ h.answer = a
    BY <1>1, <1>2, <2>2 DEF WorksNext
  <2> QED
    BY <1>4, <2>1, <2>2
<1> QED
  BY <1>0, <1>3, <1>4, <1>5, AllWork, ScreensStay, EffectsStay DEF Inv

LEMMA ReplyKeeps ==
  ASSUME Inv, TypeOK', Grows, NEW t \in Thread, Reply(t)
  PROVE  Inv'
<1> DEFINE d == Pressed(t).device
           a == hand[t].answer
<1>0. /\ TypeOK /\ hand[t].at = "reply" /\ Working(t) /\ hand' = [hand EXCEPT ![t] = Idle]
      /\ proj \in [Device -> Screen] /\ screen \in [Device -> Screen]
      /\ UNCHANGED <<proj, press, answer, started, finished>>
  BY DEF Inv, TypeOK, Reply
<1>1. d \in Device /\ a.shows \in Screen
  BY <1>0, HandType DEF Answer
<1>2. GoodNext(d, a.shows)
  BY <1>0, <1>1, GoodStays DEF Working
<1>3. \A e \in Device : FitNext(proj'[e]) /\ GoodNext(e, screen'[e])
  <2> TAKE e \in Device
  <2>1. screen'[e] \in {screen[e], proj[e]} \/ (e = d /\ screen'[e] = a.shows)
    BY <1>0, <1>1 DEF Reply
  <2>2. GoodNext(e, screen[e]) /\ GoodNext(e, proj[e]) /\ proj'[e] = proj[e]
    BY <1>0, GoodStays DEF Inv, ScreensOK
  <2> QED
    BY <1>2, <2>1, <2>2 DEF GoodNext
<1>4. \A u \in Thread : Working(u)'
  BY <1>0, IdleWorks, AllWork
<1> QED
  BY <1>0, <1>3, <1>4, ScreensNext, PressesStay, EffectsStay DEF Inv

LEMMA NextInv ==
  ASSUME Inv, [Next]_vars
  PROVE  Inv'
<1>1. Grows /\ TypeOK'
  BY NextGrows, NextType
<1>2. CASE UNCHANGED vars
  BY <1>1, <1>2, ElsewhereKeeps DEF vars
<1>3. ASSUME NEW d \in Device, NEW p \in Press, NEW kind \in Kind, NEW card \in Employee \cup {Nobody},
             Push(d, p, kind, card)
      PROVE  Inv'
  BY <1>1, <1>3, PushKeeps
<1>4. ASSUME NEW d \in Device, Resync(d) PROVE Inv'
  BY <1>1, <1>4, ResyncKeeps
<1>5. ASSUME NEW t \in Thread, Handle(t) PROVE Inv'
  <2>1. ASSUME NEW p \in Press, Receive(t, p) PROVE Inv'
    BY <1>1, <2>1, ReceiveKeeps
  <2>2. CASE Look(t)
    BY <1>1, <2>2, LookKeeps
  <2>3. CASE Report(t)
    BY <1>1, <2>3, ReportKeeps
  <2>4. CASE FindSession(t)
    BY <1>1, <2>4, FindKeeps
  <2>5. CASE ScanOperation(t)
    BY <1>1, <2>5, ScanKeeps
  <2>6. CASE SubmitQuantity(t)
    BY <1>1, <2>6, SubmitKeeps
  <2>7. CASE Cancel(t)
    BY <1>1, <2>7, CancelKeeps
  <2>8. CASE Reject(t)
    BY <1>1, <2>8, RejectKeeps
  <2>9. CASE Project(t)
    BY <1>1, <2>9, ProjectKeeps
  <2>10. CASE Store(t)
    BY <1>1, <2>10, StoreKeeps
  <2>11. CASE Reply(t)
    BY <1>1, <2>11, ReplyKeeps
  <2>12. CASE Break(t)
    BY <1>1, <2>12, EndKeeps DEF Break
  <2> QED
    BY <1>5, <2>1, <2>2, <2>3, <2>4, <2>5, <2>6, <2>7, <2>8, <2>9, <2>10, <2>11, <2>12 DEF Handle
<1>6. ASSUME NEW e \in Employee, OpenElsewhere(e) PROVE Inv'
  BY <1>1, <1>6, ElsewhereKeeps DEF OpenElsewhere
<1>7. ASSUME NEW s \in Session, CloseElsewhere(s) PROVE Inv'
  BY <1>1, <1>7, ElsewhereKeeps DEF CloseElsewhere
<1> QED
  BY <1>2, <1>3, <1>4, <1>5, <1>6, <1>7 DEF Next

LEMMA Invariance == Spec => []Inv
<1>1. Inv /\ [Next]_vars => Inv'
  BY NextInv
<1> QED
  BY <1>1, InitInv, PTL DEF Spec

-----------------------------------------------------------------------------
(* The results *)

\* Every value the server and the terminals keep is of its type; a thread at work
\* has an event, and a terminal waits only for an event it sent.
THEOREM TypeCorrect == Spec => []TypeOK
<1>1. Inv => TypeOK
  BY DEF Inv
<1> QED
  BY <1>1, Invariance, PTL

\* One number never stands for two screens: every copy of a terminal's state is
\* the one the server holds, or carries a lower number (_set_projection).
THEOREM OneScreenPerNumber == Spec => []CopiesAreCurrentOrOlder
<1>1. ASSUME Inv PROVE CopiesAreCurrentOrOlder
  <2>1. \A t \in Thread : hand[t].at \notin {"idle", "look", "reply"} =>
          hand[t].at \in {"apply", "find", "project", "store"}
    BY <1>1, HandType DEF Inv, Step
  <2>2. \A t \in Thread : hand[t].at \notin {"idle", "look", "reply"} => Current(Pressed(t).device, Seen(t))
    BY <1>1, <2>1 DEF Inv, Working, Good
  <2> QED
    BY <1>1, <2>2 DEF Inv, ScreensOK, PressesOK, Good, CopiesAreCurrentOrOlder
<1> QED
  BY <1>1, Invariance, PTL

\* What start() and finish() do for an event is what the screen it was pressed on
\* promised, however often and late it is handled.
THEOREM EffectsArePromised == Spec => []EffectAsShown
<1>1. Inv => EffectAsShown
  BY DEF Inv, EffectsOK
<1> QED
  BY <1>1, Invariance, PTL

\* An operation scan opens at most one session, through every retry and crash.
THEOREM OneSessionPerScan == Spec => []OpensOnce
<1>1. Inv => OpensOnce
  BY DEF Inv, EffectsOK
<1> QED
  BY <1>1, Invariance, PTL

\* An event stored as accepted did what it asked for.
THEOREM AcceptedMeansDone == Spec => []AcceptedIsDone
<1>1. ASSUME Inv PROVE AcceptedIsDone
  <2>1. \A p \in Press : answer[p].verdict = "accepted" => Done(p)
    BY <1>1 DEF Inv, PressesOK
  <2> QED
    BY <2>1 DEF AcceptedIsDone, Done
<1> QED
  BY <1>1, Invariance, PTL

\* No terminal passes from an unfinished quantity to another employee without a
\* record of it (report_interrupted_quantity_entry).
THEOREM TakeoverIsRecorded == Spec => InterruptedIsFlagged
<1> DEFINE A == \A d \in Device :
       (/\ proj[d].state = "QUANTITY_INPUT"
        /\ proj'[d].employee \notin {proj[d].employee, Nobody}
        /\ session[proj[d].session].status = "OPEN")
       => proj[d].session \in flagged
<1>1. ASSUME Inv, [Next]_vars PROVE [A]_vars
  <2>0. TypeOK /\ proj \in [Device -> Screen]
    BY <1>1 DEF Inv, TypeOK
  <2>1. CASE UNCHANGED proj
    BY <2>1
  <2>2. ASSUME NEW t \in Thread, Project(t) PROVE A
    <3>1. hand[t].at = "project" /\ Working(t)
      BY <1>1, <2>2 DEF Inv, Project
    <3>2. CASE UNCHANGED proj
      BY <3>2
    <3>3. ASSUME proj[Pressed(t).device].version = Seen(t).version,
                 proj' = [proj EXCEPT ![Pressed(t).device] = hand[t].next]
          PROVE  A
      <4> SUFFICES ASSUME NEW d \in Device, d = Pressed(t).device, proj[d].state = "QUANTITY_INPUT",
                          hand[t].next.employee \notin {proj[d].employee, Nobody},
                          session[proj[d].session].status = "OPEN"
                   PROVE  proj[d].session \in flagged
        BY <2>0, <3>3
      <4>1. proj[d] = Seen(t)
        <5>1. Current(d, Seen(t)) /\ Seen(t).version \in Nat
          BY <2>0, <3>1, HandType DEF Working, Good
        <5> QED
          BY <3>3, <5>1 DEF Current
      <4>2. Noted(t) /\ hand[t].next.employee = Pressed(t).card
        BY <3>1 DEF Working
      <4>3. Interrupts(t)
        <5>1. Fit(Seen(t))
          BY <3>1 DEF Working, Good
        <5> QED
          BY <4>1, <4>2, <5>1 DEF Fit, Interrupts
      <4> QED
        BY <4>1, <4>2, <4>3 DEF Noted
    <3> QED
      BY <2>0, <2>2, <3>2, <3>3, Projected
  <2> QED
    BY <1>1, <2>1, <2>2 DEF Next, Handle, Push, Resync, Receive, Look, Report, FindSession, ScanOperation,
         SubmitQuantity, Cancel, Reject, Store, Reply, Break, OpenElsewhere, CloseElsewhere, vars
<1>2. []Inv /\ [][Next]_vars => [][A]_vars
  BY <1>1, PTL
<1>3. InterruptedIsFlagged <=> [][A]_vars
  BY DEF InterruptedIsFlagged
<1> QED
  BY <1>2, <1>3, Invariance, PTL DEF Spec
=============================================================================
