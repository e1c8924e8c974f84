--------------------------- MODULE LiveFeedProofs ---------------------------
(***************************************************************************)
(* For any number of instances, tabs, announcements, audit entries and     *)
(* faults: no connection is written an event twice, nor an audit entry     *)
(* that is not for it.  An event is one thing that moves: a post, then the *)
(* delivery where it was posted, then one message for each of the other    *)
(* instances, each of which becomes one delivery there.                    *)
(*                                                                         *)
(* And the bell shows every announcement once: a tab that is connected all *)
(* the while has listed one that is in flight or is yet to be written it,  *)
(* and one that comes up while the tab is not is in flight meanwhile.      *)
(***************************************************************************)
EXTENDS LiveFeed, TLAPS

Message == [ev : Event, origin : Instance]
Deliver == [ev : Event, at : Instance, origin : Instance, left : SUBSET (Tab \X Nat)]

\* What of the state the argument is about has its type.
HubTyped ==
  /\ conns \subseteq Conn
  /\ started \subseteq Event
  /\ posting \subseteq Announcement \X Instance
  /\ delivering \subseteq Deliver
  /\ queue \in [Instance -> SUBSET Message]
  /\ gen \in [Tab -> Nat]

\* No two connections go by one name, and a tab's next name is new.
Named ==
  \A c \in conns :
    /\ c.gen <= gen[c.tab]
    /\ \A o \in conns : Name(c) = Name(o) => c = o

\* A delivery has only connections of its instance left, which may see what it
\* delivers: the lock keeps them there.
LeftHeld ==
  \A d \in delivering : \A x \in d.left :
    \E c \in conns : /\ Name(c) = x /\ c.at = d.at
                     /\ d.ev \in AuditEvent => c.canSeeAudit

\* What has not begun is nowhere.
Unbegun ==
  \A e \in Event \ started :
    /\ \A p \in posting : p[1] # e
    /\ \A d \in delivering : d.ev # e
    /\ \A i \in Instance : \A m \in queue[i] : m.ev # e
    /\ \A c \in conns : c.writes[e] = 0

\* A post is all there is of its announcement.
PostAlone ==
  \A p \in posting :
    /\ \A q \in posting : q[1] = p[1] => q = p
    /\ \A d \in delivering : d.ev # p[1]
    /\ \A i \in Instance : \A m \in queue[i] : m.ev # p[1]
    /\ \A c \in conns : c.writes[p[1]] = 0

\* The delivery of an event where it came from is the only one of it, no message
\* of it has gone out, and none of the other instances has written it.
FirstAlone ==
  \A d \in delivering : d.at = d.origin =>
    /\ \A o \in delivering : o.ev = d.ev => o = d
    /\ \A i \in Instance : \A m \in queue[i] : m.ev # d.ev
    /\ \A c \in conns : c.writes[d.ev] > 0 => c.at = d.at

\* Of an event an instance has one message or one delivery, and whoever it is still
\* to be delivered to has not got it.
OneChance ==
  /\ \A d, o \in delivering : d.ev = o.ev /\ d.at = o.at => d = o
  /\ \A d \in delivering : \A m \in queue[d.at] : m.ev # d.ev
  /\ \A d \in delivering : \A c \in conns : Name(c) \in d.left => c.writes[d.ev] = 0
  /\ \A i \in Instance : \A m, n \in queue[i] : m.ev = n.ev => m = n
  /\ \A i \in Instance : \A m \in queue[i] :
        m.origin # i => \A c \in conns : c.at = i => c.writes[m.ev] = 0

IInv == /\ HubTyped /\ Named /\ LeftHeld /\ Unbegun /\ PostAlone /\ FirstAlone
        /\ OneChance /\ DeliveryDiscipline

-----------------------------------------------------------------------------
\* Only these variables count; the rest of the state may do as it likes.
LEMMA OnlyTheHub ==
  ASSUME IInv, UNCHANGED <<conns, started, posting, delivering, queue, gen>>
  PROVE  IInv'
  BY DEF IInv, HubTyped, Named, LeftHeld, Unbegun, PostAlone, FirstAlone, OneChance,
         DeliveryDiscipline, Name

\* Nothing is under way initially.
LEMMA InitHolds == Init => IInv
  BY LiveFeedAssumption DEF Event, Init, IInv, HubTyped, Named, LeftHeld, Unbegun, PostAlone, FirstAlone,
         OneChance, DeliveryDiscipline

\* A post comes up for an announcement that was nowhere.
LEMMA CreateHolds ==
  ASSUME IInv, NEW a \in Announcement, NEW i \in Instance, Create(a, i)
  PROVE  IInv'
<1>0. /\ a \in Event \ started /\ started' = started \cup {a}
      /\ posting' = posting \cup {<<a, i>>}
      /\ delivering' = delivering /\ queue' = queue /\ conns' = conns /\ gen' = gen
  BY DEF Create, Event, tabVars
<1>1. HubTyped'
  BY <1>0 DEF IInv, HubTyped, Event
<1>2. Named' /\ LeftHeld' /\ FirstAlone' /\ OneChance' /\ DeliveryDiscipline'
  BY <1>0 DEF IInv, Named, LeftHeld, FirstAlone, OneChance, DeliveryDiscipline, Name
<1>3. Unbegun'
  BY <1>0 DEF IInv, Unbegun
<1>4. PostAlone'
  <2> SUFFICES ASSUME NEW p \in posting'
               PROVE  /\ \A q \in posting' : q[1] = p[1] => q = p
                      /\ \A d \in delivering : d.ev # p[1]
                      /\ \A k \in Instance : \A m \in queue[k] : m.ev # p[1]
                      /\ \A c \in conns : c.writes[p[1]] = 0
    BY <1>0 DEF PostAlone
  <2>1. CASE p \in posting
    BY <2>1, <1>0 DEF IInv, PostAlone, Unbegun
  <2>2. CASE p = <<a, i>>
    BY <2>2, <1>0 DEF IInv, Unbegun
  <2> QED BY <2>1, <2>2, <1>0
<1> QED BY <1>1, <1>2, <1>3, <1>4 DEF IInv

\* What deliverLocal adds is for connections of its instance that may see it.
LEMMA DeliverLocal ==
  ASSUME IInv, NEW e \in Event, NEW i \in Instance, NEW origin \in Instance,
         deliverLocal(e, i, e \in AuditEvent, origin)
  PROVE  \E r \in Deliver :
           /\ r.ev = e /\ r.at = i /\ r.origin = origin
           /\ delivering' = delivering \cup {r}
           /\ \A x \in r.left : \E c \in conns :
                /\ Name(c) = x /\ c.at = i /\ (e \in AuditEvent => c.canSeeAudit)
<1> DEFINE readers == {c \in conns : /\ c.at = i /\ c.stage = "added"
                                     /\ e \in AuditEvent => c.canSeeAudit}
           left == {Name(c) : c \in readers}
           r == [ev |-> e, at |-> i, origin |-> origin, left |-> left]
<1>1. left \subseteq Tab \X Nat
  BY DEF IInv, HubTyped, Conn, Name
<1>2. r \in Deliver
  BY <1>1 DEF Deliver
<1>3. delivering' = delivering \cup {r}
  BY DEF deliverLocal
<1>4. ASSUME NEW x \in left
      PROVE  \E c \in conns :
               Name(c) = x /\ c.at = i /\ (e \in AuditEvent => c.canSeeAudit)
  <2>1. PICK c \in readers : Name(c) = x
    OBVIOUS
  <2>2. c \in conns /\ c.at = i /\ (e \in AuditEvent => c.canSeeAudit)
    OBVIOUS
  <2> QED BY <2>1, <2>2
<1>5. r.ev = e /\ r.at = i /\ r.origin = origin /\ r.left = left
  OBVIOUS
<1> HIDE DEF r, left
<1> QED BY <1>2, <1>3, <1>4, <1>5

\* The delivery where an event was posted begins: nothing else of it is anywhere.
LEMMA FirstDelivery ==
  ASSUME IInv, NEW e \in Event, NEW r \in Deliver,
         r.ev = e, r.at = r.origin, delivering' = delivering \cup {r},
         \A x \in r.left : \E c \in conns :
            /\ Name(c) = x /\ c.at = r.at /\ (e \in AuditEvent => c.canSeeAudit),
         \A d \in delivering : d.ev # e,
         \A k \in Instance : \A m \in queue[k] : m.ev # e,
         \A c \in conns : c.writes[e] = 0,
         e \in started', started' \subseteq Event, started \subseteq started',
         posting' \subseteq posting, \A p \in posting' : p[1] # e,
         UNCHANGED <<conns, queue, gen>>
  PROVE  IInv'
<1>1. HubTyped' /\ Named' /\ DeliveryDiscipline'
  BY DEF IInv, HubTyped, Named, DeliveryDiscipline, Name
<1>2. LeftHeld'
  BY DEF IInv, LeftHeld, Name
<1>3. Unbegun'
  BY DEF IInv, Unbegun
<1>4. PostAlone'
  BY DEF IInv, PostAlone
<1>5. FirstAlone'
  BY DEF IInv, FirstAlone
<1>6. OneChance'
  <2>1. \A d, o \in delivering' : d.ev = o.ev /\ d.at = o.at => d = o
    BY DEF IInv, OneChance
  <2>2. \A d \in delivering' : \A m \in queue[d.at] : m.ev # d.ev
    BY DEF IInv, OneChance, Deliver
  <2>3. \A d \in delivering' : \A c \in conns : Name(c) \in d.left => c.writes[d.ev] = 0
    BY DEF IInv, OneChance
  <2> QED BY <2>1, <2>2, <2>3 DEF IInv, OneChance, Name
<1> QED BY <1>1, <1>2, <1>3, <1>4, <1>5, <1>6 DEF IInv

\* A post turns into the first delivery of its announcement.
LEMMA AnnouncementHolds ==
  ASSUME IInv, NEW a \in Announcement, NEW i \in Instance, onAnnouncement(a, i)
  PROVE  IInv'
<1>0. /\ <<a, i>> \in posting /\ posting' = posting \ {<<a, i>>}
      /\ deliverLocal(a, i, FALSE, i) /\ started' = started
      /\ UNCHANGED <<conns, queue, gen>>
  BY DEF onAnnouncement, tabVars
<1>a. a \in Event /\ a \notin AuditEvent
  BY LiveFeedAssumption DEF Event
<1>b. deliverLocal(a, i, a \in AuditEvent, i)
  BY <1>0, <1>a DEF deliverLocal
<1>1. PICK r \in Deliver :
        /\ r.ev = a /\ r.at = i /\ r.origin = i
        /\ delivering' = delivering \cup {r}
        /\ \A x \in r.left : \E c \in conns :
             /\ Name(c) = x /\ c.at = i /\ (a \in AuditEvent => c.canSeeAudit)
  BY <1>a, <1>b, DeliverLocal
<1>2. /\ \A d \in delivering : d.ev # a
      /\ \A k \in Instance : \A m \in queue[k] : m.ev # a
      /\ \A c \in conns : c.writes[a] = 0
      /\ \A p \in posting' : p[1] # a
  BY <1>0 DEF IInv, PostAlone
<1>3. a \in started /\ started \subseteq Event
  BY <1>0, <1>a DEF IInv, Unbegun, HubTyped
<1> QED BY <1>0, <1>a, <1>1, <1>2, <1>3, FirstDelivery

\* An audit entry begins with its first delivery.
LEMMA AuditLogHolds ==
  ASSUME IInv, NEW e \in AuditEvent, NEW i \in Instance, onAuditLog(e, i)
  PROVE  IInv'
<1>0. /\ e \in Event \ started /\ started' = started \cup {e}
      /\ deliverLocal(e, i, TRUE, i) /\ posting' = posting
      /\ UNCHANGED <<conns, queue, gen>>
  BY DEF onAuditLog, tabVars, Event
<1>b. deliverLocal(e, i, e \in AuditEvent, i)
  BY <1>0 DEF deliverLocal
<1>1. PICK r \in Deliver :
        /\ r.ev = e /\ r.at = i /\ r.origin = i
        /\ delivering' = delivering \cup {r}
        /\ \A x \in r.left : \E c \in conns :
             /\ Name(c) = x /\ c.at = i /\ (e \in AuditEvent => c.canSeeAudit)
  BY <1>0, <1>b, DeliverLocal
<1>2. /\ \A d \in delivering : d.ev # e
      /\ \A k \in Instance : \A m \in queue[k] : m.ev # e
      /\ \A c \in conns : c.writes[e] = 0
      /\ \A p \in posting : p[1] # e
  BY <1>0 DEF IInv, Unbegun
<1>3. started' \subseteq Event
  BY <1>0 DEF IInv, HubTyped
<1> QED BY <1>0, <1>1, <1>2, <1>3, FirstDelivery

\* A message becomes a delivery: the only one of its event at its instance.
LEMMA RelayHolds ==
  ASSUME IInv, NEW i \in Instance, NEW m \in queue[i], Relay(i, m)
  PROVE  IInv'
<1>0. /\ queue' = [queue EXCEPT ![i] = @ \ {m}]
      /\ IF m.origin = i THEN UNCHANGED delivering
                         ELSE deliverLocal(m.ev, i, m.ev \in AuditEvent, m.origin)
      /\ UNCHANGED <<conns, started, posting, gen>>
  BY DEF Relay, tabVars
<1>m. m \in Message /\ m.ev \in Event /\ m.origin \in Instance
  BY DEF IInv, HubTyped, Message
<1>q. /\ queue' \in [Instance -> SUBSET Message]
      /\ \A k \in Instance : queue'[k] \subseteq queue[k]
      /\ m \notin queue'[i]
  BY <1>0 DEF IInv, HubTyped
<1>1. CASE m.origin = i
  <2>1. HubTyped' /\ Named' /\ LeftHeld' /\ DeliveryDiscipline'
    BY <1>0, <1>1, <1>q DEF IInv, HubTyped, Named, LeftHeld, DeliveryDiscipline, Name
  <2>2. Unbegun' /\ PostAlone' /\ FirstAlone'
    BY <1>0, <1>1, <1>q DEF IInv, Unbegun, PostAlone, FirstAlone
  <2>3. OneChance'
    BY <1>0, <1>1, <1>q DEF IInv, OneChance, HubTyped, Deliver, Name
  <2> QED BY <2>1, <2>2, <2>3 DEF IInv
<1>2. CASE m.origin # i
  <2>1. PICK r \in Deliver :
          /\ r.ev = m.ev /\ r.at = i /\ r.origin = m.origin
          /\ delivering' = delivering \cup {r}
          /\ \A x \in r.left : \E c \in conns :
               /\ Name(c) = x /\ c.at = i /\ (m.ev \in AuditEvent => c.canSeeAudit)
    BY <1>0, <1>2, <1>m, DeliverLocal
  <2>a. /\ m.ev \in started
        /\ \A p \in posting : p[1] # m.ev
        /\ \A d \in delivering : d.at = d.origin => d.ev # m.ev
        /\ \A d \in delivering : d.at = i => d.ev # m.ev
        /\ \A c \in conns : c.at = i => c.writes[m.ev] = 0
        /\ \A n \in queue'[i] : n.ev # m.ev
    BY <1>m, <1>q, <1>2 DEF IInv, Unbegun, PostAlone, FirstAlone, OneChance
  <2>2. HubTyped' /\ Named' /\ DeliveryDiscipline'
    BY <1>0, <1>q, <2>1 DEF IInv, HubTyped, Named, DeliveryDiscipline, Name
  <2>3. LeftHeld'
    BY <1>0, <2>1 DEF IInv, LeftHeld, Name
  <2>4. Unbegun' /\ PostAlone' /\ FirstAlone'
    BY <1>0, <1>2, <1>q, <2>1, <2>a DEF IInv, Unbegun, PostAlone, FirstAlone
  <2>5. OneChance'
    <3>1. \A d, o \in delivering' : d.ev = o.ev /\ d.at = o.at => d = o
      BY <2>1, <2>a DEF IInv, OneChance
    <3>2. \A d \in delivering' : \A n \in queue'[d.at] : n.ev # d.ev
      BY <2>1, <2>a, <1>q DEF IInv, OneChance, HubTyped, Deliver
    <3>3. \A d \in delivering' : \A c \in conns : Name(c) \in d.left => c.writes[d.ev] = 0
      <4> SUFFICES ASSUME NEW c \in conns, Name(c) \in r.left
                   PROVE  c.writes[m.ev] = 0
        BY <2>1 DEF IInv, OneChance
      <4>1. c.at = i
        BY <2>1 DEF IInv, Named
      <4> QED BY <4>1, <2>a
    <3> QED BY <3>1, <3>2, <3>3, <1>0, <1>q DEF IInv, OneChance, Name
  <2> QED BY <2>2, <2>3, <2>4, <2>5 DEF IInv
<1> QED BY <1>1, <1>2

\* A delivery ends.  If it was the first, its event goes to every subscription,
\* and was nowhere else.
LEMMA FinishHolds ==
  ASSUME IInv, NEW d \in delivering, Finish(d)
  PROVE  IInv'
<1>0. /\ delivering' = delivering \ {d}
      /\ UNCHANGED <<conns, started, posting, gen>>
  BY DEF Finish, tabVars
<1>d. d \in Deliver /\ d.ev \in Event /\ d.at \in Instance /\ d.origin \in Instance
  BY DEF IInv, HubTyped, Deliver
<1>1. Named' /\ LeftHeld' /\ DeliveryDiscipline'
  BY <1>0 DEF IInv, Named, LeftHeld, DeliveryDiscipline, Name
<1>2. CASE d.origin # d.at
  <2>0. queue' = queue
    BY <1>2 DEF Finish
  <2>1. HubTyped' /\ Unbegun' /\ PostAlone' /\ FirstAlone'
    BY <1>0, <2>0 DEF IInv, HubTyped, Unbegun, PostAlone, FirstAlone
  <2>2. OneChance'
    BY <1>0, <2>0 DEF IInv, OneChance, Name
  <2> QED BY <1>1, <2>1, <2>2 DEF IInv
<1>3. CASE d.origin = d.at
  <2>n. PICK n \in Message : n = [ev |-> d.ev, origin |-> d.origin]
    BY <1>d DEF Message
  <2>m. n.ev = d.ev /\ n.origin = d.at
    BY <2>n, <1>3
  <2>0. \E reached \in SUBSET subscribed :
          queue' = [i \in Instance |-> IF i \in reached THEN queue[i] \cup {n} ELSE queue[i]]
    BY <1>3, <2>n DEF Finish
  <2>q. /\ queue' \in [Instance -> SUBSET Message]
        /\ \A i \in Instance : \A m \in queue'[i] : m \in queue[i] \/ m = n
    BY <2>0 DEF IInv, HubTyped
  <2>a. /\ d.ev \in started
        /\ \A p \in posting : p[1] # d.ev
        /\ \A o \in delivering' : o.ev # d.ev
        /\ \A i \in Instance : \A m \in queue[i] : m.ev # d.ev
        /\ \A c \in conns : c.writes[d.ev] > 0 => c.at = d.at
    BY <1>0, <1>d, <1>3 DEF IInv, Unbegun, PostAlone, FirstAlone
  <2>1. HubTyped'
    BY <1>0, <2>q DEF IInv, HubTyped
  <2>2. Unbegun' /\ PostAlone' /\ FirstAlone'
    <3>1. Unbegun'
      BY <1>0, <2>q, <2>m, <2>a DEF IInv, Unbegun
    <3>2. PostAlone'
      BY <1>0, <2>q, <2>m, <2>a DEF IInv, PostAlone
    <3>3. FirstAlone'
      BY <1>0, <2>q, <2>m, <2>a DEF IInv, FirstAlone
    <3> QED BY <3>1, <3>2, <3>3
  <2>3. OneChance'
    <3>1. \A o \in delivering' : \A m \in queue'[o.at] : m.ev # o.ev
      BY <1>0, <2>q, <2>m, <2>a DEF IInv, OneChance, HubTyped, Deliver
    <3>2. \A i \in Instance : \A m, k \in queue'[i] : m.ev = k.ev => m = k
      BY <2>q, <2>m, <2>a DEF IInv, OneChance
    <3>3. ASSUME NEW i \in Instance, NEW m \in queue'[i], m.origin # i,
                 NEW c \in conns, c.at = i
          PROVE  c.writes[m.ev] = 0
      <4>1. CASE m \in queue[i]
        BY <3>3, <4>1 DEF IInv, OneChance
      <4>2. CASE m = n
        <5>1. ~(c.writes[d.ev] > 0)
          BY <3>3, <4>2, <2>m, <2>a
        <5>2. c.writes[d.ev] \in Nat
          BY <1>d DEF IInv, HubTyped, Conn
        <5> QED BY <5>1, <5>2, <4>2, <2>m
      <4> QED BY <2>q, <4>1, <4>2
    <3> QED BY <3>1, <3>2, <3>3, <1>0 DEF IInv, OneChance, Name
  <2> QED BY <1>1, <2>1, <2>2, <2>3 DEF IInv
<1> QED BY <1>2, <1>3

\* Two deliveries that garble one another's frame: both are through with the
\* connection, which has read neither.
LEMMA GarbleHolds ==
  ASSUME IInv, NEW d \in delivering, NEW o \in delivering, NEW x, Garble(d, o, x)
  PROVE  IInv'
<1>0. /\ d # o /\ d.at = o.at
      /\ delivering' = (delivering \ {d, o})
                         \cup {[r EXCEPT !.left = @ \ {x}] : r \in {d, o}}
      /\ UNCHANGED <<conns, started, posting, queue, gen>>
  BY DEF Garble, Clash, tabVars
<1>d. d \in Deliver /\ o \in Deliver
  BY DEF IInv, HubTyped
<1>a. PICK e \in Deliver : e = [d EXCEPT !.left = @ \ {x}]
  BY <1>d DEF Deliver
<1>b. PICK f \in Deliver : f = [o EXCEPT !.left = @ \ {x}]
  BY <1>d DEF Deliver
<1>e. /\ e.ev = d.ev /\ e.at = d.at /\ e.origin = d.origin /\ e.left \subseteq d.left
      /\ f.ev = o.ev /\ f.at = o.at /\ f.origin = o.origin /\ f.left \subseteq o.left
  BY <1>a, <1>b, <1>d DEF Deliver
<1>f. delivering' = (delivering \ {d, o}) \cup {e, f}
  BY <1>0, <1>a, <1>b
<1>1. HubTyped' /\ Named' /\ DeliveryDiscipline'
  BY <1>0, <1>f DEF IInv, HubTyped, Named, DeliveryDiscipline, Name
<1>2. LeftHeld'
  BY <1>0, <1>e, <1>f DEF IInv, LeftHeld, Name
<1>3. Unbegun' /\ PostAlone'
  BY <1>0, <1>e, <1>f DEF IInv, Unbegun, PostAlone
<1>4. FirstAlone'
  BY <1>0, <1>e, <1>f DEF IInv, FirstAlone
<1>5. OneChance'
  <2>1. \A r, k \in delivering' : r.ev = k.ev /\ r.at = k.at => r = k
    BY <1>0, <1>e, <1>f DEF IInv, OneChance
  <2>2. \A r \in delivering' : \A m \in queue[r.at] : m.ev # r.ev
    BY <1>e, <1>f DEF IInv, OneChance
  <2>3. \A r \in delivering' : \A c \in conns : Name(c) \in r.left => c.writes[r.ev] = 0
    BY <1>e, <1>f DEF IInv, OneChance
  <2> QED BY <2>1, <2>2, <2>3, <1>0 DEF IInv, OneChance, Name
<1> QED BY <1>1, <1>2, <1>3, <1>4, <1>5 DEF IInv

\* A connection is as it was, for what the argument is about.
Same(b, c) == /\ b.tab = c.tab /\ b.gen = c.gen /\ b.at = c.at
              /\ b.canSeeAudit = c.canSeeAudit

\* A frame goes to one connection that has not had it, and none that is to have it
\* from somebody else.
LEMMA WriteHolds ==
  ASSUME IInv, NEW d \in delivering, NEW x, Write(d, x)
  PROVE  IInv'
<1>0. /\ x \in d.left
      /\ delivering' = (delivering \ {d}) \cup {[d EXCEPT !.left = @ \ {x}]}
      /\ conns' = {IF Name(c) = x /\ ~c.broken
                   THEN [c EXCEPT !.writes[d.ev] = @ + 1] ELSE c : c \in conns}
      /\ UNCHANGED <<started, posting, queue, gen>>
  BY DEF Write
<1>d. d \in Deliver /\ d.ev \in Event
  BY DEF IInv, HubTyped, Deliver
<1>a. PICK e \in Deliver : e = [d EXCEPT !.left = @ \ {x}]
  BY <1>d DEF Deliver
<1>e. /\ e.ev = d.ev /\ e.at = d.at /\ e.origin = d.origin /\ e.left = d.left \ {x}
      /\ delivering' = (delivering \ {d}) \cup {e}
  BY <1>0, <1>a, <1>d DEF Deliver
<1>c. ASSUME NEW c \in conns
      PROVE  LET w == [c EXCEPT !.writes[d.ev] = @ + 1]
             IN  /\ w \in Conn /\ Same(w, c)
                 /\ w.writes[d.ev] = c.writes[d.ev] + 1
                 /\ \A f \in Event \ {d.ev} : w.writes[f] = c.writes[f]
  <2>1. c \in Conn
    BY DEF IInv, HubTyped
  <2>2. [c EXCEPT !.writes[d.ev] = @ + 1]
          = [c EXCEPT !.writes = [c.writes EXCEPT ![d.ev] = c.writes[d.ev] + 1]]
    BY <2>1 DEF Conn
  <2>t. c.writes \in [Event -> Nat] /\ c.writes[d.ev] + 1 \in Nat
    BY <2>1, <1>d DEF Conn
  <2>3. PICK v \in [Event -> Nat] : v = [c.writes EXCEPT ![d.ev] = c.writes[d.ev] + 1]
    BY <2>t, <1>d
  <2>4. /\ v[d.ev] = c.writes[d.ev] + 1
        /\ \A f \in Event \ {d.ev} : v[f] = c.writes[f]
    BY <2>1, <2>3, <1>d DEF Conn
  <2>5. [c EXCEPT !.writes = v] \in Conn /\ Same([c EXCEPT !.writes = v], c)
        /\ [c EXCEPT !.writes = v].writes = v
    BY <2>1 DEF Conn, Same
  <2> QED BY <2>2, <2>3, <2>4, <2>5
<1>f. \A b \in conns' : \E c \in conns :
        /\ b \in Conn /\ Same(b, c)
        /\ b = c \/ (Name(c) = x /\ b.writes[d.ev] = c.writes[d.ev] + 1)
        /\ \A f \in Event \ {d.ev} : b.writes[f] = c.writes[f]
        /\ b = IF Name(c) = x /\ ~c.broken THEN [c EXCEPT !.writes[d.ev] = @ + 1] ELSE c
  <2> SUFFICES ASSUME NEW b \in conns'
               PROVE  \E c \in conns :
        /\ b \in Conn /\ Same(b, c)
        /\ b = c \/ (Name(c) = x /\ b.writes[d.ev] = c.writes[d.ev] + 1)
        /\ \A f \in Event \ {d.ev} : b.writes[f] = c.writes[f]
        /\ b = IF Name(c) = x /\ ~c.broken THEN [c EXCEPT !.writes[d.ev] = @ + 1] ELSE c
    OBVIOUS
  <2>1. PICK c \in conns :
          b = IF Name(c) = x /\ ~c.broken THEN [c EXCEPT !.writes[d.ev] = @ + 1] ELSE c
    BY <1>0
  <2>2. c \in Conn
    BY DEF IInv, HubTyped
  <2>3. CASE Name(c) = x /\ ~c.broken
    BY <2>1, <2>3, <1>c
  <2>4. CASE ~(Name(c) = x /\ ~c.broken)
    BY <2>1, <2>2, <2>4 DEF Same
  <2> QED BY <2>3, <2>4
<1>g. \A c \in conns : \E b \in conns' : Same(b, c)
  BY <1>0, <1>c DEF Same
<1>n. \A b, c : Same(b, c) => Name(b) = Name(c)
  BY DEF Same, Name
<1>x. \A c \in conns : Name(c) \in d.left =>
        /\ c.at = d.at /\ c.writes[d.ev] = 0
        /\ d.ev \in AuditEvent => c.canSeeAudit
  BY DEF IInv, LeftHeld, Named, OneChance
<1>1. HubTyped'
  BY <1>0, <1>e, <1>f DEF IInv, HubTyped
<1>2. Named'
  <2> SUFFICES ASSUME NEW b \in conns'
               PROVE  /\ b.gen <= gen[b.tab]
                      /\ \A o \in conns' : Name(b) = Name(o) => b = o
    BY <1>0 DEF Named, Name
  <2>1. b.gen <= gen[b.tab]
    BY <1>f DEF IInv, Named, Same
  <2>2. ASSUME NEW o \in conns', Name(b) = Name(o)
        PROVE  b = o
    <3>1. PICK c \in conns : /\ Same(b, c)
                             /\ b = IF Name(c) = x /\ ~c.broken
                                    THEN [c EXCEPT !.writes[d.ev] = @ + 1] ELSE c
      BY <1>f
    <3>2. PICK k \in conns : /\ Same(o, k)
                             /\ o = IF Name(k) = x /\ ~k.broken
                                    THEN [k EXCEPT !.writes[d.ev] = @ + 1] ELSE k
      BY <1>f
    <3>3. c = k
      BY <2>2, <3>1, <3>2, <1>n DEF IInv, Named
    <3> QED BY <3>1, <3>2, <3>3
  <2> QED BY <2>1, <2>2
<1>3. LeftHeld'
  <2> SUFFICES ASSUME NEW r \in delivering', NEW y \in r.left
               PROVE  \E b \in conns' : /\ Name(b) = y /\ b.at = r.at
                                        /\ r.ev \in AuditEvent => b.canSeeAudit
    BY DEF LeftHeld, Name
  <2>1. \E c \in conns : /\ Name(c) = y /\ c.at = r.at
                         /\ r.ev \in AuditEvent => c.canSeeAudit
    BY <1>e DEF IInv, LeftHeld
  <2> QED BY <2>1, <1>g, <1>n DEF Same
<1>4. d.ev \in started /\ \A p \in posting : p[1] # d.ev
  BY <1>d DEF IInv, Unbegun, PostAlone
<1>5. Unbegun'
  <2>1. \A f \in Event \ started : \A b \in conns' : b.writes[f] = 0
    BY <1>f, <1>4 DEF IInv, Unbegun
  <2> QED BY <2>1, <1>0, <1>e DEF IInv, Unbegun
<1>6. PostAlone'
  <2>1. \A p \in posting : \A b \in conns' : b.writes[p[1]] = 0
    <3> SUFFICES ASSUME NEW p \in posting, NEW b \in conns'
                 PROVE  b.writes[p[1]] = 0
      OBVIOUS
    <3>1. p[1] \in Event \ {d.ev}
      BY <1>4 DEF IInv, HubTyped, Event
    <3> QED BY <3>1, <1>f DEF IInv, PostAlone
  <2> QED BY <2>1, <1>0, <1>e DEF IInv, PostAlone
<1>7. FirstAlone'
  <2> SUFFICES ASSUME NEW r \in delivering', r.at = r.origin
               PROVE  /\ \A o \in delivering' : o.ev = r.ev => o = r
                      /\ \A i \in Instance : \A m \in queue[i] : m.ev # r.ev
                      /\ \A b \in conns' : b.writes[r.ev] > 0 => b.at = r.at
    BY <1>0 DEF FirstAlone
  <2>1. \A o \in delivering' : o.ev = r.ev => o = r
    BY <1>e DEF IInv, FirstAlone
  <2>2. \A i \in Instance : \A m \in queue[i] : m.ev # r.ev
    BY <1>e DEF IInv, FirstAlone
  <2>3. ASSUME NEW b \in conns', b.writes[r.ev] > 0
        PROVE  b.at = r.at
    <3>0. PICK c \in conns :
            /\ Same(b, c)
            /\ b = c \/ Name(c) = x
            /\ \A f \in Event \ {d.ev} : b.writes[f] = c.writes[f]
      BY <1>f
    <3>1. CASE r = e
      BY <2>3, <3>0, <3>1, <1>0, <1>e, <1>x DEF IInv, FirstAlone, Same
    <3>2. CASE r # e
      <4>1. r \in delivering /\ r.ev \in Event
        BY <3>2, <1>e DEF IInv, HubTyped, Deliver
      <4>2. r.ev # d.ev
        BY <4>1, <3>2, <1>e DEF IInv, FirstAlone
      <4> QED BY <4>1, <4>2, <2>3, <3>0 DEF IInv, FirstAlone, Same
    <3> QED BY <3>1, <3>2
  <2> QED BY <2>1, <2>2, <2>3
<1>8. OneChance'
  <2>1. \A r, k \in delivering' : r.ev = k.ev /\ r.at = k.at => r = k
    BY <1>e DEF IInv, OneChance
  <2>2. \A r \in delivering' : \A m \in queue[r.at] : m.ev # r.ev
    BY <1>e DEF IInv, OneChance
  <2>3. ASSUME NEW r \in delivering', NEW b \in conns', Name(b) \in r.left
        PROVE  b.writes[r.ev] = 0
    <3>0. PICK c \in conns :
            /\ Same(b, c)
            /\ b = c \/ Name(c) = x
            /\ \A f \in Event \ {d.ev} : b.writes[f] = c.writes[f]
      BY <1>f
    <3>1. CASE r = e
      <4>1. Name(c) # x /\ Name(c) \in d.left
        BY <2>3, <3>0, <3>1, <1>e, <1>n
      <4> QED BY <4>1, <3>0, <3>1, <1>e, <1>x
    <3>2. CASE r # e
      <4>1. r \in delivering /\ r.ev \in Event /\ Name(c) \in r.left /\ r # d
        BY <2>3, <3>0, <3>2, <1>e, <1>n DEF IInv, HubTyped, Deliver
      <4>2. c.writes[r.ev] = 0 /\ c.at = r.at
        BY <4>1 DEF IInv, OneChance, LeftHeld, Named
      <4>3. CASE Name(c) = x
        <5>1. c.at = d.at
          BY <4>3, <1>0, <1>x
        <5>2. r.ev # d.ev
          BY <5>1, <4>1, <4>2 DEF IInv, OneChance
        <5> QED BY <5>2, <4>1, <4>2, <3>0
      <4> QED BY <4>2, <4>3, <3>0
    <3> QED BY <3>1, <3>2
  <2>4. ASSUME NEW i \in Instance, NEW m \in queue[i], m.origin # i,
               NEW b \in conns', b.at = i
        PROVE  b.writes[m.ev] = 0
    <3>0. PICK c \in conns :
            /\ Same(b, c)
            /\ b = c \/ Name(c) = x
            /\ \A f \in Event \ {d.ev} : b.writes[f] = c.writes[f]
      BY <1>f
    <3>1. c.at = i /\ c.writes[m.ev] = 0 /\ m.ev \in Event
      BY <2>4, <3>0 DEF IInv, OneChance, Same, HubTyped, Message
    <3>2. CASE Name(c) = x
      <4>1. m.ev # d.ev
        BY <3>1, <3>2, <1>0, <1>x DEF IInv, OneChance
      <4> QED BY <4>1, <3>0, <3>1
    <3> QED BY <3>0, <3>1, <3>2
  <2> QED BY <2>1, <2>2, <2>3, <2>4, <1>0 DEF IInv, OneChance, Name
<1>9. DeliveryDiscipline'
  <2> SUFFICES ASSUME NEW b \in conns', NEW f \in Event
               PROVE  /\ b.writes[f] <= 1
                      /\ f \in AuditEvent /\ b.writes[f] > 0 => b.canSeeAudit
    BY DEF DeliveryDiscipline
  <2>0. PICK c \in conns :
          /\ Same(b, c)
          /\ b = c \/ (Name(c) = x /\ b.writes[d.ev] = c.writes[d.ev] + 1)
          /\ \A g \in Event \ {d.ev} : b.writes[g] = c.writes[g]
    BY <1>f
  <2>1. CASE b # c /\ f = d.ev
    BY <2>0, <2>1, <1>0, <1>x DEF Same
  <2>2. CASE b = c \/ f # d.ev
    BY <2>0, <2>2 DEF IInv, DeliveryDiscipline, Same
  <2> QED BY <2>1, <2>2
<1> QED BY <1>1, <1>2, <1>3, <1>5, <1>6, <1>7, <1>8, <1>9 DEF IInv

\* Connections change hands within the server, or go while nothing is delivered
\* where they are.
LEMMA Touched ==
  ASSUME IInv, UNCHANGED <<started, posting, delivering, queue, gen>>,
         conns' \subseteq Conn,
         \A b \in conns' : \E c \in conns : Same(b, c) /\ b.writes = c.writes,
         \A b, o \in conns' : Name(b) = Name(o) => b = o,
         \A c \in conns : (\E b \in conns' : Same(b, c)) \/ Unlocked(c.at)
  PROVE  IInv'
<1>n. \A b, c : Same(b, c) => Name(b) = Name(c)
  BY DEF Same, Name
<1>1. HubTyped'
  BY DEF IInv, HubTyped
<1>2. Named'
  BY DEF IInv, Named, Same, Name
<1>3. LeftHeld'
  <2> SUFFICES ASSUME NEW d \in delivering, NEW x \in d.left
               PROVE  \E b \in conns' : /\ Name(b) = x /\ b.at = d.at
                                        /\ d.ev \in AuditEvent => b.canSeeAudit
    BY DEF LeftHeld, Name
  <2>1. PICK c \in conns : /\ Name(c) = x /\ c.at = d.at
                           /\ d.ev \in AuditEvent => c.canSeeAudit
    BY DEF IInv, LeftHeld
  <2>2. PICK b \in conns' : Same(b, c)
    BY <2>1 DEF Unlocked
  <2> QED BY <2>1, <2>2, <1>n DEF Same
<1>4. Unbegun' /\ PostAlone' /\ FirstAlone'
  BY DEF IInv, Unbegun, PostAlone, FirstAlone, Same
<1>5. OneChance'
  <2>1. \A d \in delivering : \A b \in conns' : Name(b) \in d.left => b.writes[d.ev] = 0
    BY <1>n DEF IInv, OneChance
  <2>2. \A i \in Instance : \A m \in queue[i] :
          m.origin # i => \A b \in conns' : b.at = i => b.writes[m.ev] = 0
    BY DEF IInv, OneChance, Same
  <2> QED BY <2>1, <2>2 DEF IInv, OneChance, Name
<1>6. DeliveryDiscipline'
  BY DEF IInv, DeliveryDiscipline, Same
<1> QED BY <1>1, <1>2, <1>3, <1>4, <1>5, <1>6 DEF IInv

\* One connection changes its stage, or breaks.
LEMMA OneTouched ==
  ASSUME IInv, NEW c \in conns, NEW w \in Conn, Same(w, c), w.writes = c.writes,
         conns' = (conns \ {c}) \cup {w},
         UNCHANGED <<started, posting, delivering, queue, gen>>
  PROVE  IInv'
<1>1. conns' \subseteq Conn
  BY DEF IInv, HubTyped
<1>2. \A b \in conns' : \E k \in conns : Same(b, k) /\ b.writes = k.writes
  BY DEF Same
<1>3. \A b, o \in conns' : Name(b) = Name(o) => b = o
  <2>1. Name(w) = Name(c)
    BY DEF Same, Name
  <2> QED BY <2>1 DEF IInv, Named
<1>4. \A k \in conns : \E b \in conns' : Same(b, k)
  BY DEF Same
<1> QED BY <1>1, <1>2, <1>3, <1>4, Touched

\* A connection that is added keeps its name and what it has been written.
LEMMA AddHolds ==
  ASSUME IInv, NEW c \in conns, add(c)
  PROVE  IInv'
<1>1. c \in Conn
  BY DEF IInv, HubTyped
<1>2. PICK w \in Conn : w = [c EXCEPT !.stage = "added"]
  BY <1>1 DEF Conn
<1>3. Same(w, c) /\ w.writes = c.writes
  BY <1>1, <1>2 DEF Conn, Same
<1>4. /\ conns' = (conns \ {c}) \cup {w}
      /\ UNCHANGED <<started, posting, delivering, queue, gen>>
  BY <1>2 DEF add, serverVars, tabVars
<1> QED BY <1>3, <1>4, OneTouched

\* So does one that breaks.
LEMMA BreakHolds ==
  ASSUME IInv, NEW c \in conns, Break(c)
  PROVE  IInv'
<1>1. c \in Conn
  BY DEF IInv, HubTyped
<1>2. PICK w \in Conn : w = [c EXCEPT !.broken = TRUE]
  BY <1>1 DEF Conn
<1>3. Same(w, c) /\ w.writes = c.writes
  BY <1>1, <1>2 DEF Conn, Same
<1>4. /\ conns' = (conns \ {c}) \cup {w}
      /\ UNCHANGED <<started, posting, delivering, queue, gen>>
  BY <1>2 DEF Break, serverVars, tabVars
<1> QED BY <1>3, <1>4, OneTouched

\* remove waits for the deliveries of its instance: that is what keeps their
\* connections in place.
LEMMA RemoveHolds ==
  ASSUME IInv, NEW c \in conns, remove(c)
  PROVE  IInv'
<1>1. /\ conns' = conns \ {c} /\ Unlocked(c.at)
      /\ UNCHANGED <<started, posting, delivering, queue, gen>>
  BY DEF remove, serverVars, tabVars
<1>2. conns' \subseteq Conn
  BY <1>1 DEF IInv, HubTyped
<1>3. \A b \in conns' : \E k \in conns : Same(b, k) /\ b.writes = k.writes
  BY <1>1 DEF Same
<1>4. \A b, o \in conns' : Name(b) = Name(o) => b = o
  BY <1>1 DEF IInv, Named
<1>5. \A k \in conns : (\E b \in conns' : Same(b, k)) \/ Unlocked(k.at)
  BY <1>1 DEF Same
<1> QED BY <1>1, <1>2, <1>3, <1>4, <1>5, Touched

\* So do those of a tab that goes.
LEMMA UnmountHolds ==
  ASSUME IInv, NEW t \in Tab, Unmount(t)
  PROVE  IInv'
<1>1. /\ conns' = {IF c \in Own(t) THEN [c EXCEPT !.broken = TRUE] ELSE c : c \in conns}
      /\ UNCHANGED <<started, posting, delivering, queue, gen>>
  BY DEF Unmount, serverVars
<1>2. ASSUME NEW c \in conns
      PROVE  LET w == [c EXCEPT !.broken = TRUE]
             IN  w \in Conn /\ c \in Conn /\ Same(w, c) /\ w.writes = c.writes
  <2>1. c \in Conn
    BY DEF IInv, HubTyped
  <2> QED BY <2>1 DEF Conn, Same
<1>3. conns' \subseteq Conn
  BY <1>1, <1>2
<1>4. \A b \in conns' : \E c \in conns : Same(b, c) /\ b.writes = c.writes
  BY <1>1, <1>2 DEF Same
<1>5. \A c \in conns : \E b \in conns' : Same(b, c)
  BY <1>1, <1>2 DEF Same
<1>6. ASSUME NEW b \in conns', NEW o \in conns', Name(b) = Name(o)
      PROVE  b = o
  <2>1. PICK c \in conns : b = IF c \in Own(t) THEN [c EXCEPT !.broken = TRUE] ELSE c
    BY <1>1
  <2>2. PICK k \in conns : o = IF k \in Own(t) THEN [k EXCEPT !.broken = TRUE] ELSE k
    BY <1>1
  <2>3. Same(b, c) /\ Same(o, k)
    BY <2>1, <2>2, <1>2 DEF Same
  <2>4. c = k
    BY <2>3, <1>6 DEF Same, Name, IInv, Named
  <2> QED BY <2>1, <2>2, <2>4
<1> QED BY <1>1, <1>3, <1>4, <1>5, <1>6, Touched

\* A new connection has a name that nothing is left to be delivered to, and has got
\* nothing.
LEMMA UpgradeHolds ==
  ASSUME IInv, NEW t \in Tab, NEW i \in Instance, Upgrade(t, i)
  PROVE  IInv'
<1>0. /\ gen' = [gen EXCEPT ![t] = @ + 1]
      /\ UNCHANGED <<started, posting, delivering, queue>>
  BY DEF Upgrade, serverVars
<1>t. gen \in [Tab -> Nat] /\ gen[t] \in Nat
  BY DEF IInv, HubTyped
<1>1. PICK allowed \in BOOLEAN :
        conns' = conns \cup {[tab |-> t, gen |-> gen[t] + 1, at |-> i, stage |-> "upgraded",
                              canSeeAudit |-> allowed, broken |-> FALSE,
                              writes |-> [e \in Event |-> 0]]}
  BY DEF Upgrade
<1>w. PICK none \in [Event -> Nat] : none = [e \in Event |-> 0]
  OBVIOUS
<1>2. PICK w \in Conn :
        w = [tab |-> t, gen |-> gen[t] + 1, at |-> i, stage |-> "upgraded",
             canSeeAudit |-> allowed, broken |-> FALSE, writes |-> none]
  <2>1. gen[t] + 1 \in Nat
    BY <1>t
  <2>2. CASE allowed = TRUE
    BY <2>1, <2>2 DEF Conn
  <2>3. CASE allowed = FALSE
    BY <2>1, <2>3 DEF Conn
  <2> QED BY <2>2, <2>3
<1>3. /\ w.tab = t /\ w.gen = gen[t] + 1 /\ w.at = i
      /\ \A e \in Event : w.writes[e] = 0
      /\ conns' = conns \cup {w}
  BY <1>1, <1>2, <1>w
<1>g. gen' \in [Tab -> Nat] /\ gen'[t] = gen[t] + 1 /\ \A s \in Tab : gen[s] <= gen'[s]
  BY <1>0, <1>t
<1>n. \A c \in conns : Name(c) # Name(w)
  BY <1>3, <1>t DEF IInv, Named, Name
<1>4. HubTyped'
  BY <1>0, <1>3, <1>g DEF IInv, HubTyped
<1>5. Named'
  <2>1. \A c \in conns : c.tab \in Tab /\ c.gen \in Nat /\ c.gen <= gen[c.tab]
    BY DEF IInv, HubTyped, Named, Conn
  <2>2. \A c \in conns : c.gen <= gen'[c.tab]
    BY <2>1, <1>g, <1>t
  <2>3. w.gen <= gen'[w.tab]
    BY <1>3, <1>g, <1>t
  <2>4. \A c, o \in conns' : Name(c) = Name(o) => c = o
    BY <1>3, <1>n DEF IInv, Named
  <2> QED BY <2>2, <2>3, <2>4, <1>3 DEF Named, Name
<1>6. LeftHeld'
  BY <1>0, <1>3 DEF IInv, LeftHeld, Name
<1>7. Unbegun'
  BY <1>0, <1>3 DEF IInv, Unbegun
<1>8. PostAlone'
  <2>1. \A p \in posting : p[1] \in Event
    BY DEF IInv, HubTyped, Event
  <2> QED BY <2>1, <1>0, <1>3 DEF IInv, PostAlone
<1>9. FirstAlone'
  <2>1. \A d \in delivering : d.ev \in Event
    BY DEF IInv, HubTyped, Deliver
  <2> QED BY <2>1, <1>0, <1>3 DEF IInv, FirstAlone
<1>10. OneChance'
  <2>1. \A d \in delivering : Name(w) \notin d.left /\ d.ev \in Event
    BY <1>n DEF IInv, LeftHeld, HubTyped, Deliver
  <2>2. \A d \in delivering : \A c \in conns' : Name(c) \in d.left => c.writes[d.ev] = 0
    BY <2>1, <1>3 DEF IInv, OneChance
  <2>3. \A k \in Instance : \A m \in queue[k] : m.ev \in Event
    BY DEF IInv, HubTyped, Message
  <2>4. \A k \in Instance : \A m \in queue[k] :
          m.origin # k => \A c \in conns' : c.at = k => c.writes[m.ev] = 0
    BY <2>3, <1>3 DEF IInv, OneChance
  <2> QED BY <2>2, <2>4, <1>0 DEF IInv, OneChance, Name
<1>11. DeliveryDiscipline'
  BY <1>3 DEF IInv, DeliveryDiscipline
<1> QED BY <1>4, <1>5, <1>6, <1>7, <1>8, <1>9, <1>10, <1>11 DEF IInv

\* What a process takes with it is whole: its posts, its deliveries, its messages
\* and its connections.
LEMMA CrashHolds ==
  ASSUME IInv, NEW i \in Instance, Crash(i)
  PROVE  IInv'
<1>0. /\ posting' = {p \in posting : p[2] # i}
      /\ delivering' = {d \in delivering : d.at # i}
      /\ queue' = [queue EXCEPT ![i] = {}]
      /\ conns' = {c \in conns : c.at # i}
      /\ UNCHANGED <<started, gen>>
  BY DEF Crash, tabVars
<1>q. /\ queue' \in [Instance -> SUBSET Message]
      /\ \A k \in Instance : queue'[k] \subseteq queue[k]
  BY <1>0 DEF IInv, HubTyped
<1>1. HubTyped' /\ Named' /\ DeliveryDiscipline'
  BY <1>0, <1>q DEF IInv, HubTyped, Named, DeliveryDiscipline, Name
<1>2. LeftHeld'
  BY <1>0 DEF IInv, LeftHeld, Name
<1>3. Unbegun' /\ PostAlone' /\ FirstAlone'
  BY <1>0, <1>q DEF IInv, Unbegun, PostAlone, FirstAlone
<1>4. OneChance'
  <2>1. \A d \in delivering' : d.at \in Instance
    BY <1>0 DEF IInv, HubTyped, Deliver
  <2> QED BY <2>1, <1>0, <1>q DEF IInv, OneChance, Name
<1> QED BY <1>1, <1>2, <1>3, <1>4 DEF IInv

-----------------------------------------------------------------------------
\* Every step keeps the invariant.
LEMMA StepHolds ==
  ASSUME IInv, [Next]_vars
  PROVE  IInv'
<1>1. ASSUME NEW i \in Instance, NEW a \in Announcement, Create(a, i)
      PROVE  IInv'
  BY <1>1, CreateHolds
<1>2. ASSUME NEW i \in Instance, NEW a \in Announcement, onAnnouncement(a, i)
      PROVE  IInv'
  BY <1>2, AnnouncementHolds
<1>3. ASSUME NEW i \in Instance, NEW e \in AuditEvent, onAuditLog(e, i)
      PROVE  IInv'
  BY <1>3, AuditLogHolds
<1>4. CASE Delivery
  <2>1. PICK d \in delivering :
          \/ \E x \in d.left : Write(d, x) \/ \E o \in delivering : Garble(d, o, x)
          \/ Finish(d)
    BY <1>4 DEF Delivery
  <2> QED BY <2>1, WriteHolds, GarbleHolds, FinishHolds
<1>5. ASSUME NEW i \in Instance, NEW m \in queue[i], Relay(i, m)
      PROVE  IInv'
  BY <1>5, RelayHolds
<1>6. ASSUME NEW i \in Instance, Crash(i)
      PROVE  IInv'
  BY <1>6, CrashHolds
<1>7. ASSUME NEW i \in Instance, Restart(i) \/ Subscribe(i)
      PROVE  IInv'
  BY <1>7, OnlyTheHub DEF Restart, Subscribe, tabVars
<1>8. ASSUME NEW t \in Tab, NEW i \in Instance, Upgrade(t, i)
      PROVE  IInv'
  BY <1>8, UpgradeHolds
<1>9. ASSUME NEW c \in conns, add(c) \/ remove(c) \/ Break(c)
      PROVE  IInv'
  BY <1>9, AddHolds, RemoveHolds, BreakHolds
<1>10. ASSUME NEW t \in Tab,
              \/ Refuse(t) \/ connect(t) \/ onclose(t) \/ Mount(t)
              \/ ReadList(t) \/ Loaded(t)
       PROVE  IInv'
  BY <1>10, OnlyTheHub DEF Refuse, connect, onclose, Mount, ReadList, Loaded, serverVars
<1>11. ASSUME NEW t \in Tab, Unmount(t)
       PROVE  IInv'
  BY <1>11, UnmountHolds
<1>12. CASE UNCHANGED vars
  BY <1>12, OnlyTheHub DEF vars, serverVars, tabVars
<1>13. CASE Step
  BY <1>13, <1>1, <1>2, <1>3, <1>4, <1>5, <1>6, <1>7, <1>8, <1>9, <1>10, <1>11 DEF Step
<1> QED BY <1>12, <1>13 DEF Next

\* No connection is written an event twice, nor an audit entry that is not for it,
\* on however many instances, whatever is delivered by whom at the same time, and
\* whichever of them end in between (ws.go:26-34, 43-46, 84-134).
THEOREM WrittenOnce == Spec => []DeliveryDiscipline
<1>1. IInv => DeliveryDiscipline
  BY DEF IInv
<1> QED BY InitHolds, StepHolds, <1>1, PTL DEF Spec

-----------------------------------------------------------------------------
\* The other variables, and what only happens where a process runs.
RestTyped ==
  /\ up \subseteq Instance /\ subscribed \subseteq up
  /\ \A p \in posting : p[2] \in up
  /\ \A d \in delivering : d.at \in up
  /\ life \in [Tab -> {"away", "mounted", "gone"}]
  /\ sock \in [Tab -> {"none", "waiting", "connecting", "open"}]
  /\ load \in [Tab -> {"none", "sent", "read", "done"}]
  /\ list \in [Tab -> [Announcement -> Nat]]
  /\ snapshot \in [Tab -> SUBSET Announcement]
  /\ pushed \subseteq Tab \X Announcement
  /\ cut \subseteq Announcement

\* What an instance does leaves the tabs as they are typed, but for Write.
LEMMA ServerTyped ==
  ASSUME IInv, RestTyped, NEW i \in Instance,
         \/ \E a \in Announcement : Create(a, i) \/ onAnnouncement(a, i)
         \/ \E e \in AuditEvent : onAuditLog(e, i)
         \/ \E m \in queue[i] : Relay(i, m)
         \/ Crash(i) \/ Restart(i) \/ Subscribe(i)
  PROVE  RestTyped'
<1>1. CASE \E a \in Announcement : Create(a, i)
  BY <1>1 DEF Create, RestTyped, tabVars
<1>2. ASSUME NEW e, NEW origin, deliverLocal(e, i, e \in AuditEvent, origin), i \in up, up' = up
      PROVE  \A d \in delivering' : d.at \in up'
  BY <1>2 DEF deliverLocal, RestTyped
<1>3. CASE \E a \in Announcement : onAnnouncement(a, i)
  <2>1. PICK a \in Announcement : onAnnouncement(a, i)
    BY <1>3
  <2>2. deliverLocal(a, i, a \in AuditEvent, i)
    BY <2>1, LiveFeedAssumption DEF onAnnouncement, deliverLocal
  <2>3. i \in up
    BY <2>1 DEF onAnnouncement, RestTyped
  <2> QED BY <2>1, <2>2, <2>3, <1>2 DEF onAnnouncement, RestTyped, tabVars
<1>4. CASE \E e \in AuditEvent : onAuditLog(e, i)
  <2>1. PICK e \in AuditEvent : onAuditLog(e, i)
    BY <1>4
  <2>2. deliverLocal(e, i, e \in AuditEvent, i)
    BY <2>1 DEF onAuditLog, deliverLocal
  <2> QED BY <2>1, <2>2, <1>2 DEF onAuditLog, RestTyped, tabVars
<1>5. CASE \E m \in queue[i] : Relay(i, m)
  <2>1. PICK m \in queue[i] : Relay(i, m)
    BY <1>5
  <2>2. i \in up /\ up' = up
    BY <2>1 DEF Relay, RestTyped
  <2>3. \A d \in delivering' : d.at \in up'
    <3>1. CASE m.origin = i
      BY <2>1, <2>2, <3>1 DEF Relay, RestTyped
    <3>2. CASE m.origin # i
      BY <2>1, <2>2, <3>2, <1>2 DEF Relay
    <3> QED BY <3>1, <3>2
  <2> QED BY <2>1, <2>3 DEF Relay, RestTyped, tabVars
<1>6. CASE Crash(i)
  BY <1>6 DEF Crash, RestTyped, tabVars
<1>7. CASE Restart(i) \/ Subscribe(i)
  BY <1>7 DEF Restart, Subscribe, RestTyped, tabVars
<1> QED BY <1>1, <1>3, <1>4, <1>5, <1>6, <1>7

\* An announcement is added to the list of the tab that receives it, and whatever is
\* not pushed off its end stays listed.
LEMMA ReceiveLists ==
  ASSUME RestTyped, NEW t \in Tab, NEW e, Receive(t, e)
  PROVE  /\ list' \in [Tab -> [Announcement -> Nat]]
         /\ pushed \subseteq pushed' /\ pushed' \subseteq Tab \X Announcement
         /\ \A u \in Tab : \A a \in Announcement : <<u, a>> \notin pushed' =>
              list'[u][a] = IF u = t /\ a = e THEN list[u][a] + 1 ELSE list[u][a]
<1>1. CASE e \notin Announcement
  BY <1>1 DEF Receive, RestTyped
<1>2. CASE e \in Announcement
  <2> DEFINE longer == [list[t] EXCEPT ![e] = list[t][e] + 1]
  <2>0. list \in [Tab -> [Announcement -> Nat]] /\ list[t] \in [Announcement -> Nat]
    BY DEF RestTyped
  <2>1. /\ longer \in [Announcement -> Nat]
        /\ \A a \in Announcement : longer[a] = IF a = e THEN list[t][a] + 1 ELSE list[t][a]
    BY <1>2, <2>0
  <2>2. \/ list' = [list EXCEPT ![t] = longer] /\ UNCHANGED pushed
        \/ \E old \in Announcement :
             /\ list[t][old] > 0
             /\ list' = [list EXCEPT ![t] = [longer EXCEPT ![old] = longer[old] - 1]]
             /\ pushed' = pushed \cup {<<t, old>>}
    BY <1>2 DEF Receive
  <2> HIDE DEF longer
  <2>3. CASE list' = [list EXCEPT ![t] = longer] /\ UNCHANGED pushed
    BY <2>0, <2>1, <2>3 DEF RestTyped
  <2>4. ASSUME NEW old \in Announcement, list[t][old] > 0,
               list' = [list EXCEPT ![t] = [longer EXCEPT ![old] = longer[old] - 1]],
               pushed' = pushed \cup {<<t, old>>}
        PROVE  /\ list' \in [Tab -> [Announcement -> Nat]]
               /\ pushed \subseteq pushed' /\ pushed' \subseteq Tab \X Announcement
               /\ \A u \in Tab : \A a \in Announcement : <<u, a>> \notin pushed' =>
                    list'[u][a] = IF u = t /\ a = e THEN list[u][a] + 1 ELSE list[u][a]
    <3>1. longer[old] - 1 \in Nat
      BY <1>2, <2>0, <2>1, <2>4
    <3>2. [longer EXCEPT ![old] = longer[old] - 1] \in [Announcement -> Nat]
      BY <2>1, <3>1
    <3>3. ASSUME NEW u \in Tab, NEW a \in Announcement, <<u, a>> \notin pushed'
          PROVE  list'[u][a] = IF u = t /\ a = e THEN list[u][a] + 1 ELSE list[u][a]
      <4>1. CASE u # t
        BY <2>0, <2>4, <4>1
      <4>2. CASE u = t
        <5>1. a # old
          BY <2>4, <3>3, <4>2
        <5>2. list'[u][a] = longer[a]
          BY <2>0, <2>1, <2>4, <4>2, <5>1
        <5> QED BY <2>1, <4>2, <5>2
      <4> QED BY <4>1, <4>2
    <3> QED BY <2>0, <2>4, <3>2, <3>3 DEF RestTyped
  <2> QED BY <2>2, <2>3, <2>4
<1> QED BY <1>1, <1>2

\* So does a step of a delivery, which may add to a list.
LEMMA DeliveryTyped ==
  ASSUME IInv, RestTyped, Delivery
  PROVE  RestTyped'
<1>1. PICK d \in delivering :
        \/ \E x \in d.left : Write(d, x) \/ \E o \in delivering : Garble(d, o, x)
        \/ Finish(d)
  BY DEF Delivery
<1>d. d \in Deliver /\ d.at \in up /\ d.ev \in Event
  BY DEF IInv, HubTyped, Deliver, RestTyped
<1>2. ASSUME NEW x \in d.left, Write(d, x)
      PROVE  RestTyped'
  <2>1. \A r \in delivering' : r.at \in up
    BY <1>2, <1>d DEF Write, RestTyped, Deliver
  <2>2. list' \in [Tab -> [Announcement -> Nat]] /\ pushed' \subseteq Tab \X Announcement
    <3>1. x[1] \in Tab
      BY <1>d DEF Deliver
    <3>2. CASE Receive(x[1], d.ev)
      BY <3>1, <3>2, ReceiveLists
    <3>3. CASE UNCHANGED <<list, pushed>>
      BY <3>3 DEF RestTyped
    <3> QED BY <1>2, <3>2, <3>3 DEF Write
  <2> QED BY <1>2, <2>1, <2>2 DEF Write, RestTyped
<1>3. ASSUME NEW x \in d.left, NEW o \in delivering, Garble(d, o, x)
      PROVE  RestTyped'
  <2>1. o \in Deliver /\ o.at \in up
    BY DEF IInv, HubTyped, RestTyped
  <2>2. \A r \in {d, o} : [r EXCEPT !.left = @ \ {x}].at = r.at
    BY <1>d, <2>1 DEF Deliver
  <2>3. \A r \in delivering' : r.at \in up
    BY <1>3, <1>d, <2>1, <2>2 DEF Garble, RestTyped
  <2> QED BY <1>3, <2>3 DEF Garble, RestTyped, tabVars
<1>4. CASE Finish(d)
  <2>1. cut' \subseteq Announcement
    BY <1>4 DEF Finish, RestTyped
  <2> QED BY <1>4, <2>1 DEF Finish, RestTyped, tabVars
<1> QED BY <1>1, <1>2, <1>3, <1>4

\* The other variables keep their types at every step.
LEMMA RestHolds ==
  ASSUME IInv, RestTyped, [Next]_vars
  PROVE  RestTyped'
<1>1. ASSUME NEW t \in Tab, NEW i \in Instance, Upgrade(t, i)
      PROVE  RestTyped'
  BY <1>1 DEF Upgrade, RestTyped, serverVars
<1>2. ASSUME NEW c \in conns, add(c) \/ remove(c) \/ Break(c)
      PROVE  RestTyped'
  BY <1>2 DEF add, remove, Break, RestTyped, serverVars, tabVars
<1>3. ASSUME NEW t \in Tab, Refuse(t) \/ connect(t) \/ onclose(t) \/ Mount(t) \/ ReadList(t)
      PROVE  RestTyped'
  <2>1. CASE ReadList(t)
    <3>1. PICK latest \in SUBSET (started \cap Announcement) :
            /\ snapshot' = [snapshot EXCEPT ![t] = latest]
            /\ pushed' = pushed \cup ({t} \X ((started \cap Announcement) \ latest))
      BY <2>1 DEF ReadList
    <3> QED BY <2>1, <3>1 DEF ReadList, RestTyped, serverVars
  <2>2. CASE ~ReadList(t)
    BY <1>3, <2>2 DEF Refuse, connect, onclose, Mount, RestTyped, serverVars
  <2> QED BY <2>1, <2>2
<1>4. ASSUME NEW t \in Tab, Unmount(t) \/ Loaded(t)
      PROVE  RestTyped'
  <2>1. \A S \in SUBSET Announcement :
          [a \in Announcement |-> IF a \in S THEN 1 ELSE 0] \in [Announcement -> Nat]
    OBVIOUS
  <2>2. [a \in Announcement |-> 0] \in [Announcement -> Nat]
    OBVIOUS
  <2>3. list' \in [Tab -> [Announcement -> Nat]]
    <3>1. CASE Unmount(t)
      BY <2>2, <3>1 DEF Unmount, RestTyped
    <3>2. CASE Loaded(t)
      BY <2>1, <3>2 DEF Loaded, RestTyped
    <3> QED BY <1>4, <3>1, <3>2
  <2> QED BY <1>4, <2>3 DEF Unmount, Loaded, RestTyped, serverVars
<1>5. CASE UNCHANGED vars
  BY <1>5 DEF vars, serverVars, tabVars, RestTyped
<1>6. CASE Step
  BY <1>6, <1>1, <1>2, <1>3, <1>4, ServerTyped, DeliveryTyped DEF Step
<1> QED BY <1>5, <1>6 DEF Next

\* The variables keep their types, for any number of instances, tabs, events and
\* faults; subscriptions and deliveries are only those of processes that run
\* (ws.go:36-41, 56-82; ws.ts:26-32).
THEOREM TypeCorrect == Spec => []TypeOK
<1> DEFINE Typed == IInv /\ RestTyped /\ exposed \subseteq Tab \X Announcement
<1>1. Init => Typed
  BY InitHolds DEF Init, RestTyped
<1>2. ASSUME Typed, [Next]_vars
      PROVE  Typed'
  <2>1. IInv'
    BY <1>2, StepHolds
  <2>2. exposed' \subseteq Tab \X Announcement
    BY <1>2 DEF Next, Expose, vars
  <2>3. RestTyped'
    BY <1>2, RestHolds
  <2> QED BY <2>1, <2>2, <2>3
<1>3. Typed => TypeOK
  BY DEF TypeOK, IInv, HubTyped, RestTyped, Deliver, Message
<1> HIDE DEF Typed
<1> QED BY <1>1, <1>2, <1>3, PTL DEF Spec

-----------------------------------------------------------------------------
(* The bell.                                                               *)

\* A connection is held by a process that runs.
AtUp == \A c \in conns : c.at \in up

\* Announcement a is still on its way to connection c.
Due(a, c) ==
  \/ \E p \in posting : p[1] = a
  \/ \E d \in delivering : /\ d.ev = a
                           /\ IF d.at = c.at THEN Name(c) \in d.left ELSE d.at = d.origin
  \/ \E m \in queue[c.at] : m.ev = a /\ m.origin # c.at

\* The bell of t has a right to a whole broadcast of a and has room for it.
Entitled(t, a) == life[t] = "mounted" /\ <<t, a>> \notin exposed \cup pushed

\* What the list of t says of a: nothing before a is posted, once it has come to rest
\* that it was, and while it is under way whether it has come to t's connection, which it
\* otherwise is yet to.
Told(t, a) ==
  /\ a \notin started => list[t][a] = 0
  /\ a \in started /\ a \notin InFlight => list[t][a] = 1
  /\ a \in InFlight => \A c \in Own(t) : /\ list[t][a] = c.writes[a]
                                         /\ c.writes[a] = 0 => Due(a, c)

\* Of what is in flight only a steady tab is told in full.
Settled == \A t \in Tab : \A a \in Announcement : Entitled(t, a) /\ a \in InFlight => Steady(t)

\* An answer not yet handled has what was posted, or what was posted since is exposed.
SnapshotRight ==
  \A t \in Tab : \A a \in Announcement :
    Entitled(t, a) /\ load[t] = "read" => (a \in snapshot[t] <=> a \in started)

\* A list that was loaded says the right thing.
ListRight ==
  \A t \in Tab : \A a \in Announcement :
    Entitled(t, a) /\ load[t] = "done" /\ a \notin cut => Told(t, a)

BellInv == AtUp /\ Settled /\ SnapshotRight /\ ListRight

\* A tab has one connection that is its own.
LEMMA OwnIsOne ==
  ASSUME IInv, NEW t \in Tab, NEW b \in Own(t), NEW c \in Own(t)
  PROVE  b = c
  BY DEF IInv, Named, Own, Name

\* What is due is in flight.
LEMMA DueIsInFlight ==
  ASSUME IInv, NEW a \in Announcement, NEW c \in conns, Due(a, c)
  PROVE  a \in InFlight
<1>1. c.at \in Instance
  BY DEF IInv, HubTyped, Conn
<1> QED BY <1>1 DEF Due, InFlight

\* A step that does nothing with a leaves what the list says of it as right as it was.
LEMMA NothingOfIt ==
  ASSUME IInv, IInv', NEW t \in Tab, NEW a \in Announcement, Told(t, a),
         list'[t][a] = list[t][a], a \in started' <=> a \in started,
         (\E p \in posting' : p[1] = a) <=> (\E p \in posting : p[1] = a),
         \A d : d.ev = a => (d \in delivering' <=> d \in delivering),
         \A k \in Instance : \A m : m.ev = a => (m \in queue'[k] <=> m \in queue[k]),
         a \in InFlight => \A c \in Own(t)' : \E b \in Own(t) :
                              b.at = c.at /\ b.writes[a] = c.writes[a] /\ Name(b) = Name(c)
  PROVE  Told(t, a)'
<1>1. a \in InFlight' <=> a \in InFlight
  BY DEF InFlight
<1>2. ASSUME a \in InFlight, NEW c \in Own(t)'
      PROVE  list'[t][a] = c.writes[a] /\ (c.writes[a] = 0 => Due(a, c)')
  <2>1. PICK b \in Own(t) : b.at = c.at /\ b.writes[a] = c.writes[a] /\ Name(b) = Name(c)
    BY <1>2
  <2>2. list[t][a] = b.writes[a] /\ (b.writes[a] = 0 => Due(a, b))
    BY <1>2 DEF Told
  <2>3. b.at \in Instance
    BY DEF Own, IInv, HubTyped, Conn
  <2>4. Due(a, b) => Due(a, c)'
    <3> SUFFICES ASSUME Due(a, b) PROVE Due(a, c)'
      OBVIOUS
    <3>1. CASE \E p \in posting : p[1] = a
      BY <3>1 DEF Due
    <3>2. CASE \E d \in delivering :
                 /\ d.ev = a
                 /\ IF d.at = b.at THEN Name(b) \in d.left ELSE d.at = d.origin
      BY <2>1, <3>2 DEF Due, Name
    <3>3. CASE \E m \in queue[b.at] : m.ev = a /\ m.origin # b.at
      BY <2>1, <2>3, <3>3 DEF Due
    <3> QED BY <3>1, <3>2, <3>3 DEF Due
  <2> QED BY <2>1, <2>2, <2>4
<1> QED BY <1>1, <1>2 DEF Told

\* So does one that takes a on its way, if whoever has not got it is still to get it.
LEMMA StillTold ==
  ASSUME IInv, IInv', NEW t \in Tab, NEW a \in Announcement, a \in started',
         Own(t)' # {},
         \A c \in Own(t)' : list'[t][a] = c.writes[a] /\ (c.writes[a] = 0 => Due(a, c)')
  PROVE  Told(t, a)'
<1>1. ASSUME a \notin InFlight'
      PROVE  list'[t][a] = 1
  <2>1. PICK c \in Own(t)' : list'[t][a] = c.writes[a] /\ (c.writes[a] = 0 => Due(a, c)')
    OBVIOUS
  <2>2. c \in conns' /\ c.at \in Instance /\ c.writes[a] \in Nat /\ c.writes[a] <= 1
    BY DEF Own, IInv, HubTyped, Conn, DeliveryDiscipline, Event
  <2>3. ~Due(a, c)'
    BY <1>1, <2>2 DEF Due, InFlight
  <2> QED BY <2>1, <2>2, <2>3
<1> QED BY <1>1 DEF Told

\* A post is due to everybody.
LEMMA CreateTells ==
  ASSUME IInv, IInv', NEW t \in Tab, NEW a \in Announcement, Told(t, a),
         NEW b \in Announcement, NEW i \in Instance, Create(b, i)
  PROVE  Told(t, a)'
<1>0. /\ b \notin started /\ started' = started \cup {b} /\ posting' = posting \cup {<<b, i>>}
      /\ UNCHANGED <<delivering, queue, conns, gen, list>>
  BY DEF Create, tabVars
<1>1. CASE b # a
  <2>1. \A c \in Own(t)' : c \in Own(t)
    BY <1>0 DEF Own
  <2>2. (\E p \in posting' : p[1] = a) <=> (\E p \in posting : p[1] = a)
    BY <1>0, <1>1
  <2> QED BY <1>0, <1>1, <2>1, <2>2, NothingOfIt
<1>2. CASE b = a
  <2>0. \E p \in posting' : p[1] = a
    <3>1. <<a, i>> \in posting' /\ <<a, i>>[1] = a
      BY <1>0, <1>2
    <3> QED BY <3>1
  <2>1. a \in started' /\ a \in InFlight'
    BY <1>0, <1>2, <2>0 DEF InFlight
  <2>2. \A c \in Own(t)' : c.writes[a] = 0 /\ Due(a, c)'
    BY <1>0, <1>2, <2>0 DEF IInv, Unbegun, Own, Due, Event
  <2>3. list'[t][a] = 0
    BY <1>0, <1>2 DEF Told
  <2> QED BY <2>1, <2>2, <2>3 DEF Told
<1> QED BY <1>1, <1>2

\* What deliverLocal is to deliver of an announcement is for every connection of its
\* instance the hub knows.
LEMMA DeliverAll ==
  ASSUME NEW a \in Announcement, NEW i, NEW origin, deliverLocal(a, i, a \in AuditEvent, origin)
  PROVE  \E r : /\ delivering' = delivering \cup {r}
                /\ r.ev = a /\ r.at = i /\ r.origin = origin
                /\ \A c \in conns : c.at = i /\ c.stage = "added" => Name(c) \in r.left
<1>1. a \notin AuditEvent
  BY LiveFeedAssumption
<1> DEFINE readers == {c \in conns : c.at = i /\ c.stage = "added"}
           r == [ev |-> a, at |-> i, origin |-> origin, left |-> {Name(c) : c \in readers}]
<1>2. delivering' = delivering \cup {r}
  BY <1>1 DEF deliverLocal
<1>3. r.ev = a /\ r.at = i /\ r.origin = origin /\ r.left = {Name(c) : c \in readers}
  OBVIOUS
<1>4. \A c \in conns : c.at = i /\ c.stage = "added" => Name(c) \in r.left
  BY <1>3
<1> HIDE DEF r
<1> QED BY <1>2, <1>3, <1>4

\* The tab a broadcast is right for has a connection the hub knows, and only that.
LEMMA SteadyOwn ==
  ASSUME IInv, NEW t \in Tab, Steady(t)
  PROVE  /\ \E c \in conns : Own(t) = {c}
         /\ \A c \in Own(t) : c.stage = "added" /\ ~c.broken
         /\ sock[t] = "open" /\ load[t] = "done"
  BY OwnIsOne DEF Steady, Own

\* A broadcast begins: to all who are connected here.
LEMMA AnnouncementTells ==
  ASSUME IInv, IInv', NEW t \in Tab, NEW a \in Announcement, Told(t, a),
         a \in InFlight => Steady(t),
         NEW b \in Announcement, NEW i \in Instance, onAnnouncement(b, i)
  PROVE  Told(t, a)'
<1>0. /\ <<b, i>> \in posting /\ posting' = posting \ {<<b, i>>}
      /\ deliverLocal(b, i, FALSE, i)
      /\ UNCHANGED <<started, queue, conns, gen, list>>
  BY DEF onAnnouncement, tabVars
<1>a. deliverLocal(b, i, b \in AuditEvent, i)
  <2>1. deliverLocal(b, i, FALSE, i)
    BY <1>0
  <2> QED BY <2>1, LiveFeedAssumption DEF deliverLocal
<1>1. PICK r : /\ delivering' = delivering \cup {r}
               /\ r.ev = b /\ r.at = i /\ r.origin = i
               /\ \A c \in conns : c.at = i /\ c.stage = "added" => Name(c) \in r.left
  BY <1>a, DeliverAll
<1>2. CASE b # a
  <2>1. \A c \in Own(t)' : c \in Own(t)
    BY <1>0 DEF Own
  <2>2. (\E p \in posting' : p[1] = a) <=> (\E p \in posting : p[1] = a)
    BY <1>0, <1>2
  <2>3. \A d : d.ev = a => (d \in delivering' <=> d \in delivering)
    BY <1>1, <1>2
  <2> QED BY <1>0, <1>2, <2>1, <2>2, <2>3, NothingOfIt
<1>3. CASE b = a
  <2>0. \E p \in posting : p[1] = a
    <3>1. <<a, i>> \in posting /\ <<a, i>>[1] = a
      BY <1>0, <1>3
    <3> QED BY <3>1
  <2>1. a \in InFlight /\ a \in started'
    BY <1>0, <2>0 DEF InFlight, IInv, Unbegun, Event
  <2>2. /\ Own(t) # {} /\ Own(t)' = Own(t)
        /\ \A c \in Own(t) : c \in conns /\ c.stage = "added"
    BY <1>0, <2>1, SteadyOwn DEF Own
  <2>3. ASSUME NEW c \in Own(t)
        PROVE  list'[t][a] = c.writes[a] /\ Due(a, c)'
    <3>1. list'[t][a] = c.writes[a]
      BY <1>0, <2>1 DEF Told
    <3>2. IF r.at = c.at THEN Name(c) \in r.left ELSE r.at = r.origin
      BY <1>1, <2>2
    <3> QED BY <1>1, <1>3, <3>1, <3>2 DEF Due, Name
  <2> QED BY <2>1, <2>2, <2>3, StillTold
<1> QED BY <1>2, <1>3

\* Audit entries are not listed.
LEMMA AuditLogTells ==
  ASSUME IInv, IInv', NEW t \in Tab, NEW a \in Announcement, Told(t, a),
         NEW e \in AuditEvent, NEW i \in Instance, onAuditLog(e, i)
  PROVE  Told(t, a)'
<1>0. /\ started' = started \cup {e} /\ deliverLocal(e, i, TRUE, i)
      /\ UNCHANGED <<posting, queue, conns, gen, list>>
  BY DEF onAuditLog, tabVars
<1>1. e # a
  BY LiveFeedAssumption
<1>2. \A d : d.ev = a => (d \in delivering' <=> d \in delivering)
  BY <1>0, <1>1 DEF deliverLocal
<1>3. \A c \in Own(t)' : c \in Own(t)
  BY <1>0 DEF Own
<1> QED BY <1>0, <1>1, <1>2, <1>3, NothingOfIt

\* An announcement is listed when it is written to the connection of a steady tab.
LEMMA WriteTells ==
  ASSUME IInv, IInv', RestTyped, NEW t \in Tab, NEW a \in Announcement, Told(t, a),
         a \in InFlight => Steady(t), <<t, a>> \notin pushed',
         NEW d \in delivering, NEW x \in d.left, Write(d, x)
  PROVE  Told(t, a)'
<1> DEFINE r == [d EXCEPT !.left = @ \ {x}]
           New(c) == IF Name(c) = x /\ ~c.broken THEN [c EXCEPT !.writes[d.ev] = @ + 1] ELSE c
<1>0. /\ delivering' = (delivering \ {d}) \cup {r}
      /\ conns' = {New(c) : c \in conns}
      /\ UNCHANGED <<started, posting, queue, gen>>
  BY DEF Write
<1>l. IF sock[x[1]] = "open" /\ \E c \in Own(x[1]) : Name(c) = x /\ ~c.broken
      THEN Receive(x[1], d.ev) ELSE UNCHANGED <<list, pushed>>
  BY DEF Write
<1>d. d \in Deliver /\ x[1] \in Tab /\ d.ev \in Event
  BY DEF IInv, HubTyped, Deliver
<1>r. r.ev = d.ev /\ r.at = d.at /\ r.origin = d.origin /\ r.left = d.left \ {x}
  BY <1>d DEF Deliver
<1>c. ASSUME NEW c \in conns
      PROVE  /\ New(c).at = c.at /\ Name(New(c)) = Name(c)
             /\ New(c).tab = c.tab /\ New(c).gen = c.gen
             /\ \A e \in Event : New(c).writes[e] =
                   IF Name(c) = x /\ ~c.broken /\ e = d.ev THEN c.writes[e] + 1 ELSE c.writes[e]
  BY <1>d DEF IInv, HubTyped, Conn, Name
<1> HIDE DEF r, New
<1>o. \A c \in Own(t)' : \E b \in Own(t) : c = New(b)
  BY <1>0, <1>c DEF Own
<1>1. CASE d.ev # a
  <2>1. list'[t][a] = list[t][a]
    BY <1>l, <1>1, <1>d, ReceiveLists
  <2>2. \A s : s.ev = a => (s \in delivering' <=> s \in delivering)
    BY <1>0, <1>1, <1>r
  <2>3. \A c \in Own(t)' : \E b \in Own(t) :
          b.at = c.at /\ b.writes[a] = c.writes[a] /\ Name(b) = Name(c)
    <3>1. Own(t) \subseteq conns /\ a \in Event
      BY DEF Own, Event
    <3> QED BY <1>o, <1>c, <1>1, <3>1
  <2> QED BY <1>0, <2>1, <2>2, <2>3, NothingOfIt
<1>2. CASE d.ev = a
  <2>1. a \in InFlight /\ a \in started' /\ a \in Event
    BY <1>0, <1>2, <1>d DEF InFlight, IInv, Unbegun
  <2>2. PICK b \in conns : Own(t) = {b}
    BY <2>1, SteadyOwn
  <2>3. ~b.broken /\ sock[t] = "open"
    BY <2>1, <2>2, SteadyOwn
  <2>4. list[t][a] = b.writes[a] /\ (b.writes[a] = 0 => Due(a, b)) /\ b.writes[a] \in Nat
    BY <2>1, <2>2 DEF Told, IInv, HubTyped, Conn
  <2>5. New(b) \in Own(t)'
    BY <1>0, <1>c, <2>2 DEF Own
  <2>6. list'[t][a] = New(b).writes[a] /\ (New(b).writes[a] = 0 => Due(a, New(b))')
    <3>1. CASE Name(b) = x
      <4>1. x[1] = t
        BY <2>2, <3>1 DEF Own, Name
      <4>2. list'[t][a] = list[t][a] + 1
        BY <1>l, <1>2, <2>2, <2>3, <3>1, <4>1, ReceiveLists
      <4>3. New(b).writes[a] = b.writes[a] + 1
        BY <1>c, <1>2, <2>1, <2>3, <3>1
      <4> QED BY <2>4, <4>2, <4>3
    <3>2. CASE Name(b) # x
      <4>1. list'[t][a] = list[t][a]
        <5>1. CASE x[1] = t
          BY <1>l, <2>2, <3>2, <5>1
        <5>2. CASE x[1] # t
          BY <1>l, <1>d, <5>2, ReceiveLists
        <5> QED BY <5>1, <5>2
      <4>2. New(b) = b
        BY <3>2 DEF New
      <4>3. Due(a, b) => Due(a, b)'
        BY <1>0, <1>r, <3>2 DEF Due, Name
      <4> QED BY <2>4, <4>1, <4>2, <4>3
    <3> QED BY <3>1, <3>2
  <2>7. \A c \in Own(t)' : c = New(b)
    BY <1>o, <2>2
  <2> QED BY <2>1, <2>5, <2>6, <2>7, StillTold
<1> QED BY <1>1, <1>2

\* Mixed frames cut both broadcasts.
LEMMA GarbleTells ==
  ASSUME IInv, IInv', NEW t \in Tab, NEW a \in Announcement, Told(t, a), a \notin cut',
         NEW d \in delivering, NEW o \in delivering, NEW x \in d.left, Garble(d, o, x)
  PROVE  Told(t, a)'
<1>0. /\ delivering' = (delivering \ {d, o}) \cup {[r EXCEPT !.left = @ \ {x}] : r \in {d, o}}
      /\ d.ev # a /\ o.ev # a
      /\ UNCHANGED <<started, posting, queue, conns, gen, list>>
  BY DEF Garble, tabVars
<1>1. \A r \in {d, o} : [r EXCEPT !.left = @ \ {x}].ev # a
  <2>1. d \in Deliver /\ o \in Deliver
    BY DEF IInv, HubTyped
  <2> QED BY <1>0, <2>1 DEF Deliver
<1>2. \A s : s.ev = a => (s \in delivering' <=> s \in delivering)
  BY <1>0, <1>1
<1>3. \A c \in Own(t)' : c \in Own(t)
  BY <1>0 DEF Own
<1> QED BY <1>0, <1>2, <1>3, NothingOfIt

\* Who has not got it when a delivery ends gets it another way: when the first one
\* ends without being cut short, a message is on its way to every process that runs.
LEMMA FinishTells ==
  ASSUME IInv, IInv', RestTyped, AtUp, NEW t \in Tab, NEW a \in Announcement, Told(t, a),
         a \notin cut', a \in InFlight => Steady(t), NEW d \in delivering, Finish(d)
  PROVE  Told(t, a)'
<1>0. /\ d.left = {} /\ delivering' = delivering \ {d}
      /\ UNCHANGED <<started, posting, conns, gen, list>>
  BY DEF Finish, tabVars
<1>o. Own(t)' = Own(t)
  BY <1>0 DEF Own
<1>1. CASE d.ev # a
  <2>1. \A s : s.ev = a => (s \in delivering' <=> s \in delivering)
    BY <1>0, <1>1
  <2>2. ASSUME NEW k \in Instance, NEW m, m.ev = a
        PROVE  m \in queue'[k] <=> m \in queue[k]
    <3>1. CASE d.origin # d.at
      BY <3>1 DEF Finish
    <3>2. CASE d.origin = d.at
      <4>1. PICK n : n = [ev |-> d.ev, origin |-> d.origin]
        OBVIOUS
      <4>2. n # m
        BY <4>1, <2>2, <1>1
      <4>3. \E reached \in SUBSET subscribed : queue' =
              [i \in Instance |-> IF i \in reached THEN queue[i] \cup {n} ELSE queue[i]]
        BY <3>2, <4>1 DEF Finish
      <4> QED BY <4>2, <4>3
    <3> QED BY <3>1, <3>2
  <2> QED BY <1>0, <1>o, <2>1, <2>2, NothingOfIt
<1>2. CASE d.ev = a
  <2>1. a \in InFlight /\ a \in started'
    <3>1. a \in Event
      BY DEF Event
    <3> QED BY <3>1, <1>0, <1>2 DEF InFlight, IInv, Unbegun
  <2>2. Own(t) # {}
    BY <2>1, SteadyOwn
  <2>3. ASSUME NEW c \in Own(t)
        PROVE  list'[t][a] = c.writes[a] /\ (c.writes[a] = 0 => Due(a, c)')
    <3>1. c \in conns /\ c.at \in Instance /\ c.at \in up
      BY DEF Own, IInv, HubTyped, Conn, AtUp
    <3>2. list[t][a] = c.writes[a] /\ (c.writes[a] = 0 => Due(a, c))
      BY <2>1 DEF Told
    <3>3. ASSUME Due(a, c)
          PROVE  Due(a, c)'
      <4>1. CASE d.origin # d.at
        <5>1. queue' = queue
          BY <4>1 DEF Finish
        <5> QED BY <1>0, <3>3, <4>1, <5>1 DEF Due, Name
      <4>2. CASE d.origin = d.at
        <5>1. /\ \A p \in posting : p[1] # a
              /\ \A s \in delivering : s.ev = a => s = d
              /\ \A m \in queue[c.at] : m.ev # a
          BY <1>2, <3>1, <4>2 DEF IInv, PostAlone, FirstAlone
        <5>2. c.at # d.at
          BY <1>0, <3>3, <5>1 DEF Due
        <5>3. PICK n : n = [ev |-> a, origin |-> d.origin]
          OBVIOUS
        <5>4. PICK reached \in SUBSET subscribed :
                /\ queue' = [i \in Instance |->
                      IF i \in reached THEN queue[i] \cup {n} ELSE queue[i]]
                /\ cut' = IF up \subseteq reached \cup {d.at} THEN cut
                           ELSE cut \cup ({d.ev} \cap Announcement)
          BY <1>2, <4>2, <5>3 DEF Finish
        <5>5. c.at \in reached
          BY <1>2, <3>1, <5>2, <5>4
        <5>6. n \in queue'[c.at]
          BY <3>1, <5>4, <5>5
        <5>7. n.ev = a /\ n.origin # c.at
          BY <4>2, <5>2, <5>3
        <5> QED BY <1>0, <5>6, <5>7 DEF Due
      <4> QED BY <4>1, <4>2
    <3> QED BY <1>0, <3>2, <3>3
  <2> QED BY <1>o, <2>1, <2>2, <2>3, StillTold
<1> QED BY <1>1, <1>2

\* A message becomes a delivery to all who are connected where it arrives.
LEMMA RelayTells ==
  ASSUME IInv, IInv', NEW t \in Tab, NEW a \in Announcement, Told(t, a),
         a \in InFlight => Steady(t), NEW i \in Instance, NEW m \in queue[i], Relay(i, m)
  PROVE  Told(t, a)'
<1>0. /\ queue' = [queue EXCEPT ![i] = @ \ {m}]
      /\ IF m.origin = i THEN UNCHANGED delivering
                         ELSE deliverLocal(m.ev, i, m.ev \in AuditEvent, m.origin)
      /\ UNCHANGED <<conns, started, posting, gen, list>>
  BY DEF Relay, tabVars
<1>q. /\ \A k \in Instance : k # i => queue'[k] = queue[k]
      /\ queue'[i] = queue[i] \ {m}
  BY <1>0 DEF IInv, HubTyped
<1>o. Own(t)' = Own(t)
  BY <1>0 DEF Own
<1>1. CASE m.ev # a
  <2>1. \A s : s.ev = a => (s \in delivering' <=> s \in delivering)
    BY <1>0, <1>1 DEF deliverLocal
  <2>2. \A k \in Instance : \A n : n.ev = a => (n \in queue'[k] <=> n \in queue[k])
    BY <1>1, <1>q
  <2> QED BY <1>0, <1>o, <2>1, <2>2, NothingOfIt
<1>2. CASE m.ev = a
  <2>1. a \in InFlight /\ a \in started'
    <3>1. a \in Event
      BY DEF Event
    <3> QED BY <3>1, <1>0, <1>2 DEF InFlight, IInv, Unbegun
  <2>2. Own(t) # {}
    BY <2>1, SteadyOwn
  <2>3. ASSUME NEW c \in Own(t)
        PROVE  list'[t][a] = c.writes[a] /\ (c.writes[a] = 0 => Due(a, c)')
    <3>1. c \in conns /\ c.at \in Instance /\ c.stage = "added"
      BY <2>1, SteadyOwn DEF Own, IInv, HubTyped, Conn
    <3>2. list[t][a] = c.writes[a] /\ (c.writes[a] = 0 => Due(a, c))
      BY <2>1 DEF Told
    <3>3. ASSUME Due(a, c)
          PROVE  Due(a, c)'
      <4>1. CASE m.origin = i
        BY <1>0, <1>q, <3>1, <3>3, <4>1 DEF Due, Name
      <4>2. CASE m.origin # i
        <5>1. deliverLocal(a, i, a \in AuditEvent, m.origin)
          BY <1>0, <1>2, <4>2
        <5>2. PICK r : /\ delivering' = delivering \cup {r}
                       /\ r.ev = a /\ r.at = i /\ r.origin = m.origin
                       /\ \A b \in conns : b.at = i /\ b.stage = "added" => Name(b) \in r.left
          BY <5>1, DeliverAll
        <5>3. CASE c.at = i
          BY <3>1, <5>2, <5>3 DEF Due, Name
        <5>4. CASE c.at # i
          BY <1>0, <1>q, <3>1, <3>3, <5>2, <5>4 DEF Due, Name
        <5> QED BY <5>3, <5>4
      <4> QED BY <4>1, <4>2
    <3> QED BY <1>0, <3>2, <3>3
  <2> QED BY <1>o, <2>1, <2>2, <2>3, StillTold
<1> QED BY <1>1, <1>2

\* What a process takes with it is cut short.
LEMMA CrashTells ==
  ASSUME IInv, IInv', NEW t \in Tab, NEW a \in Announcement, Told(t, a), a \notin cut',
         NEW i \in Instance, Crash(i)
  PROVE  Told(t, a)'
<1>0. /\ posting' = {p \in posting : p[2] # i}
      /\ delivering' = {d \in delivering : d.at # i}
      /\ queue' = [queue EXCEPT ![i] = {}]
      /\ conns' = {c \in conns : c.at # i}
      /\ UNCHANGED <<started, gen, list>>
  BY DEF Crash, tabVars
<1>1. /\ <<a, i>> \notin posting
      /\ \A d \in delivering : d.at = i => d.ev # a
      /\ \A m \in queue[i] : m.ev # a
  BY DEF Crash
<1>2. (\E p \in posting' : p[1] = a) <=> (\E p \in posting : p[1] = a)
  <2>1. \A p \in posting : p = <<p[1], p[2]>>
    BY DEF IInv, HubTyped
  <2> QED BY <1>0, <1>1, <2>1
<1>3. \A d : d.ev = a => (d \in delivering' <=> d \in delivering)
  BY <1>0, <1>1
<1>4. \A k \in Instance : \A m : m.ev = a => (m \in queue'[k] <=> m \in queue[k])
  BY <1>0, <1>1 DEF IInv, HubTyped
<1>5. \A c \in Own(t)' : c \in Own(t)
  BY <1>0 DEF Own
<1> QED BY <1>0, <1>2, <1>3, <1>4, <1>5, NothingOfIt

\* What happens to the connections alone changes neither what was written to them
\* nor where they are.
LEMMA LinkTells ==
  ASSUME IInv, IInv', NEW t \in Tab, NEW a \in Announcement, Told(t, a),
         a \in InFlight => Steady(t), list'[t][a] = list[t][a],
         UNCHANGED <<started, posting, delivering, queue>>,
         Steady(t) => \A c \in Own(t)' : \E b \in Own(t) :
                         b.at = c.at /\ b.writes = c.writes /\ Name(b) = Name(c)
  PROVE  Told(t, a)'
<1>1. a \in InFlight => \A c \in Own(t)' : \E b \in Own(t) :
        b.at = c.at /\ b.writes[a] = c.writes[a] /\ Name(b) = Name(c)
  OBVIOUS
<1>2. (\E p \in posting' : p[1] = a) <=> (\E p \in posting : p[1] = a)
  OBVIOUS
<1> QED BY <1>1, <1>2, NothingOfIt

\* A tab's own connection stays what it is while others come and go.
LEMMA OwnStays ==
  ASSUME IInv, RestTyped, NEW t \in Tab, Steady(t),
         \/ \E u \in Tab : \E i \in Instance : Upgrade(u, i)
         \/ \E c \in conns : add(c) \/ remove(c) \/ Break(c)
         \/ \E u \in Tab : Unmount(u)
  PROVE  \A c \in Own(t)' : \E b \in Own(t) :
            b.at = c.at /\ b.writes = c.writes /\ Name(b) = Name(c)
<1>c. \A c \in conns : c \in Conn
  BY DEF IInv, HubTyped
<1>1. ASSUME NEW u \in Tab, NEW i \in Instance, Upgrade(u, i), NEW c \in Own(t)'
      PROVE  c \in Own(t)
  <2>1. u # t
    BY <1>1 DEF Upgrade, Steady
  <2>2. gen'[t] = gen[t]
    BY <1>1, <2>1 DEF Upgrade, IInv, HubTyped
  <2>3. c \in conns \/ c.tab = u
    BY <1>1 DEF Upgrade, Own
  <2> QED BY <1>1, <2>1, <2>2, <2>3 DEF Own
<1>2. ASSUME NEW k \in conns, add(k) \/ remove(k) \/ Break(k), NEW c \in Own(t)'
      PROVE  \E b \in Own(t) : b.at = c.at /\ b.writes = c.writes /\ Name(b) = Name(c)
  <2>1. gen' = gen
    BY <1>2 DEF add, remove, Break, tabVars
  <2>2. \E b \in conns : /\ b.at = c.at /\ b.writes = c.writes
                         /\ b.tab = c.tab /\ b.gen = c.gen
    <3>1. CASE c \in conns
      BY <3>1
    <3>2. CASE c \notin conns
      BY <1>2, <1>c, <3>2 DEF add, remove, Break, Own, Conn
    <3> QED BY <3>1, <3>2
  <2> QED BY <1>2, <2>1, <2>2 DEF Own, Name
<1>3. ASSUME NEW u \in Tab, Unmount(u), NEW c \in Own(t)'
      PROVE  \E b \in Own(t) : b.at = c.at /\ b.writes = c.writes /\ Name(b) = Name(c)
  <2>1. gen' = gen
    BY <1>3 DEF Unmount
  <2>2. \E b \in conns : /\ b.at = c.at /\ b.writes = c.writes
                         /\ b.tab = c.tab /\ b.gen = c.gen
    <3>1. PICK b \in conns : c = IF b \in Own(u) THEN [b EXCEPT !.broken = TRUE] ELSE b
      BY <1>3 DEF Unmount, Own
    <3> QED BY <1>c, <3>1 DEF Conn
  <2> QED BY <1>3, <2>1, <2>2 DEF Own, Name
<1> QED BY <1>1, <1>2, <1>3

-----------------------------------------------------------------------------
\* No connection outlives its process.
LEMMA UpHolds ==
  ASSUME IInv, AtUp, Step
  PROVE  AtUp'
<1>c. \A c \in conns : c \in Conn
  BY DEF IInv, HubTyped
<1>1. CASE \E i \in Instance : \/ \E a \in Announcement : Create(a, i) \/ onAnnouncement(a, i)
                               \/ \E e \in AuditEvent : onAuditLog(e, i)
                               \/ \E m \in queue[i] : Relay(i, m)
                               \/ Restart(i) \/ Subscribe(i)
  BY <1>1 DEF AtUp, Create, onAnnouncement, onAuditLog, Relay, Restart, Subscribe
<1>2. ASSUME NEW d \in delivering, NEW x \in d.left, Write(d, x)
      PROVE  AtUp'
  BY <1>2, <1>c DEF AtUp, Write, Conn
<1>3. ASSUME NEW d \in delivering,
             Finish(d) \/ \E x \in d.left : \E o \in delivering : Garble(d, o, x)
      PROVE  AtUp'
  BY <1>3 DEF AtUp, Finish, Garble
<1>4. CASE Delivery
  BY <1>2, <1>3, <1>4 DEF Delivery
<1>5. CASE \E i \in Instance : Crash(i)
  BY <1>5 DEF AtUp, Crash
<1>6. CASE \E t \in Tab : \E i \in Instance : Upgrade(t, i)
  BY <1>6 DEF AtUp, Upgrade, serverVars
<1>7. CASE \E c \in conns : add(c) \/ remove(c) \/ Break(c)
  BY <1>7, <1>c DEF AtUp, add, remove, Break, Conn, serverVars
<1>8. CASE \E t \in Tab : Unmount(t)
  BY <1>8, <1>c DEF AtUp, Unmount, Conn, serverVars
<1>9. CASE \E t \in Tab : \/ Refuse(t) \/ connect(t) \/ onclose(t) \/ Mount(t)
                        \/ ReadList(t) \/ Loaded(t)
  BY <1>9 DEF AtUp, Refuse, connect, onclose, Mount, ReadList, Loaded, serverVars
<1> QED BY <1>1, <1>4, <1>5, <1>6, <1>7, <1>8, <1>9 DEF Step

\* What is cut short stays so.
LEMMA CutStays ==
  ASSUME Step
  PROVE  cut \subseteq cut'
<1>1. CASE Delivery
  BY <1>1 DEF Delivery, Write, Garble, Finish
<1> QED BY <1>1 DEF Step, Create, onAnnouncement, onAuditLog, Relay, Crash, Restart,
                    Subscribe, Refuse, Upgrade, add, remove, Break, connect, onclose, Mount,
                    Unmount, ReadList, Loaded

\* Only what happens to the tab itself changes what it was told, beside deliveries.
LEMMA TabTells ==
  ASSUME IInv, IInv', RestTyped, NEW t \in Tab, NEW a \in Announcement, Told(t, a),
         a \in InFlight => Steady(t), life[t] = "mounted", life'[t] = "mounted",
         load[t] = "done", NEW u \in Tab,
         Refuse(u) \/ connect(u) \/ onclose(u) \/ Mount(u) \/ Unmount(u) \/ ReadList(u) \/ Loaded(u)
  PROVE  Told(t, a)'
<1>0. UNCHANGED <<started, posting, delivering, queue, gen>>
  BY DEF Refuse, connect, onclose, Mount, Unmount, ReadList, Loaded, serverVars
<1>1. u # t \/ UNCHANGED list
  BY DEF Refuse, connect, onclose, Mount, Unmount, ReadList, Loaded, RestTyped
<1>2. list'[t][a] = list[t][a]
  BY <1>1 DEF Refuse, connect, onclose, Mount, Unmount, ReadList, Loaded, RestTyped
<1>3. Steady(t) => \A c \in Own(t)' : \E b \in Own(t) :
                      b.at = c.at /\ b.writes = c.writes /\ Name(b) = Name(c)
  <2>1. CASE Unmount(u)
    BY <2>1, OwnStays
  <2>2. CASE UNCHANGED conns
    BY <1>0, <2>2 DEF Own
  <2> QED BY <2>1, <2>2 DEF Refuse, connect, onclose, Mount, ReadList, Loaded
<1> QED BY <1>0, <1>2, <1>3, LinkTells

\* A list that is right stays right until its tab goes.
LEMMA StepTells ==
  ASSUME IInv, IInv', RestTyped, AtUp, Step, NEW t \in Tab, NEW a \in Announcement,
         Told(t, a), a \in InFlight => Steady(t), a \notin cut', <<t, a>> \notin pushed',
         life[t] = "mounted", life'[t] = "mounted", load[t] = "done"
  PROVE  Told(t, a)'
<1>1. ASSUME NEW i \in Instance,
             \/ \E b \in Announcement : Create(b, i) \/ onAnnouncement(b, i)
             \/ \E e \in AuditEvent : onAuditLog(e, i)
             \/ \E m \in queue[i] : Relay(i, m)
             \/ Crash(i)
      PROVE  Told(t, a)'
  BY <1>1, CreateTells, AnnouncementTells, AuditLogTells, RelayTells, CrashTells
<1>2. CASE Delivery
  BY <1>2, WriteTells, GarbleTells, FinishTells DEF Delivery
<1>3. CASE \E i \in Instance : Restart(i) \/ Subscribe(i)
  <2>1. UNCHANGED <<started, posting, delivering, queue, conns, gen, list>>
    BY <1>3 DEF Restart, Subscribe, tabVars
  <2>2. \A c \in Own(t)' : c \in Own(t)
    BY <2>1 DEF Own
  <2> QED BY <2>1, <2>2, LinkTells
<1>4. CASE \/ \E u \in Tab : \E i \in Instance : Upgrade(u, i)
           \/ \E c \in conns : add(c) \/ remove(c) \/ Break(c)
  <2>1. UNCHANGED <<started, posting, delivering, queue, list>>
    BY <1>4 DEF Upgrade, add, remove, Break, serverVars, tabVars
  <2>2. Steady(t) => \A c \in Own(t)' : \E b \in Own(t) :
                        b.at = c.at /\ b.writes = c.writes /\ Name(b) = Name(c)
    BY <1>4, OwnStays
  <2> QED BY <2>1, <2>2, LinkTells
<1>5. CASE \E u \in Tab : Refuse(u) \/ connect(u) \/ onclose(u) \/ Mount(u) \/ Unmount(u)
                          \/ ReadList(u) \/ Loaded(u)
  BY <1>5, TabTells
<1> QED BY <1>1, <1>2, <1>3, <1>4, <1>5 DEF Step

\* A tab becomes mounted by Mount, which asks for the list.
LEMMA Mounting ==
  ASSUME RestTyped, Step, NEW t \in Tab, life'[t] = "mounted"
  PROVE  /\ life[t] = "mounted" \/ load'[t] = "sent"
         /\ \/ load'[t] = load[t] /\ snapshot'[t] = snapshot[t]
            \/ load'[t] = "sent"
            \/ ReadList(t)
            \/ Loaded(t)
<1>1. CASE \E u \in Tab : Mount(u)
  BY <1>1 DEF Mount, RestTyped
<1>2. CASE \E u \in Tab : Unmount(u)
  BY <1>2 DEF Unmount, RestTyped
<1>3. CASE \E u \in Tab : ReadList(u) \/ Loaded(u)
  BY <1>3 DEF ReadList, Loaded, RestTyped
<1>4. CASE \E u \in Tab : \/ Refuse(u) \/ connect(u) \/ onclose(u)
                        \/ \E i \in Instance : Upgrade(u, i)
  BY <1>4 DEF Refuse, connect, onclose, Upgrade
<1>5. CASE Delivery
  BY <1>5 DEF Delivery, Write, Garble, Finish, tabVars
<1>6. CASE \E c \in conns : add(c) \/ remove(c) \/ Break(c)
  BY <1>6 DEF add, remove, Break, tabVars
<1>7. CASE \E i \in Instance : \/ \E a \in Announcement : Create(a, i) \/ onAnnouncement(a, i)
                               \/ \E e \in AuditEvent : onAuditLog(e, i)
                               \/ \E m \in queue[i] : Relay(i, m)
                               \/ Crash(i) \/ Restart(i) \/ Subscribe(i)
  BY <1>7 DEF Create, onAnnouncement, onAuditLog, Relay, Crash, Restart, Subscribe, tabVars
<1> QED BY <1>1, <1>2, <1>3, <1>4, <1>5, <1>6, <1>7 DEF Step

\* What was pushed off the end of a list stays off it until the tab goes.
LEMMA PushedStays ==
  ASSUME RestTyped, IInv, Step, NEW t \in Tab, NEW a \in Announcement, life'[t] = "mounted",
         <<t, a>> \in pushed
  PROVE  <<t, a>> \in pushed'
<1>1. CASE Delivery
  <2>1. PICK d \in delivering :
          \/ \E x \in d.left : Write(d, x) \/ \E o \in delivering : Garble(d, o, x)
          \/ Finish(d)
    BY <1>1 DEF Delivery
  <2>2. ASSUME NEW x \in d.left, Write(d, x)
        PROVE  <<t, a>> \in pushed'
    <3>1. x[1] \in Tab
      BY DEF IInv, HubTyped, Deliver
    <3>2. CASE Receive(x[1], d.ev)
      BY <3>1, <3>2, ReceiveLists
    <3>3. CASE UNCHANGED pushed
      BY <3>3
    <3> QED BY <2>2, <3>2, <3>3 DEF Write
  <2>3. CASE Finish(d) \/ \E x \in d.left : \E o \in delivering : Garble(d, o, x)
    BY <2>3 DEF Finish, Garble, tabVars
  <2> QED BY <2>1, <2>2, <2>3
<1>2. ASSUME NEW u \in Tab, Unmount(u)
      PROVE  <<t, a>> \in pushed'
  <2>1. u # t
    BY <1>2 DEF Unmount, RestTyped
  <2> QED BY <1>2, <2>1 DEF Unmount
<1>3. ASSUME NEW u \in Tab, ReadList(u)
      PROVE  <<t, a>> \in pushed'
  BY <1>3 DEF ReadList
<1>4. CASE \/ \E u \in Tab : \/ Refuse(u) \/ connect(u) \/ onclose(u) \/ Mount(u) \/ Loaded(u)
                           \/ \E i \in Instance : Upgrade(u, i)
           \/ \E c \in conns : add(c) \/ remove(c) \/ Break(c)
  BY <1>4 DEF Refuse, connect, onclose, Mount, Loaded, Upgrade, add, remove, Break, tabVars
<1>5. CASE \E i \in Instance : \/ \E b \in Announcement : Create(b, i) \/ onAnnouncement(b, i)
                               \/ \E e \in AuditEvent : onAuditLog(e, i)
                               \/ \E m \in queue[i] : Relay(i, m)
                               \/ Crash(i) \/ Restart(i) \/ Subscribe(i)
  BY <1>5 DEF Create, onAnnouncement, onAuditLog, Relay, Crash, Restart, Subscribe, tabVars
<1> QED BY <1>1, <1>2, <1>3, <1>4, <1>5 DEF Step

\* Who is entitled after a step was before it, unless it mounted the tab.
LEMMA StaysEntitled ==
  ASSUME RestTyped, IInv, Next, NEW t \in Tab, NEW a \in Announcement, Entitled(t, a)',
         load'[t] # "sent"
  PROVE  Entitled(t, a)
  BY Mounting, PushedStays DEF Next, Expose, Entitled

\* What comes up while a list is loading is exposed.
LEMMA SnapshotHolds ==
  ASSUME IInv, RestTyped, SnapshotRight, Next
  PROVE  SnapshotRight'
<1> SUFFICES ASSUME NEW t \in Tab, NEW a \in Announcement, Entitled(t, a)', load'[t] = "read"
             PROVE  a \in snapshot'[t] <=> a \in started'
  BY DEF SnapshotRight
<1>0. Step /\ Expose
  BY DEF Next
<1>1. life'[t] = "mounted"
  BY DEF Entitled
<1>2. CASE ReadList(t)
  <2>1. PICK latest \in SUBSET (started \cap Announcement) :
          /\ snapshot' = [snapshot EXCEPT ![t] = latest]
          /\ pushed' = pushed \cup ({t} \X ((started \cap Announcement) \ latest))
    BY <1>2 DEF ReadList
  <2>2. started' = started /\ snapshot'[t] = latest
    BY <1>2, <2>1 DEF ReadList, serverVars, RestTyped
  <2>3. a \in started => a \in latest
    BY <2>1 DEF Entitled
  <2> QED BY <2>2, <2>3
<1>3. CASE ~ReadList(t)
  <2>1. load[t] = "read" /\ snapshot'[t] = snapshot[t]
    <3>1. (load'[t] = load[t] /\ snapshot'[t] = snapshot[t]) \/ Loaded(t)
      BY <1>0, <1>1, <1>3, Mounting
    <3>2. ~Loaded(t)
      BY DEF Loaded, RestTyped
    <3> QED BY <3>1, <3>2
  <2>2. a \in snapshot[t] <=> a \in started
    BY <2>1, StaysEntitled DEF SnapshotRight
  <2>3. a \in started' <=> a \in started
    <3>1. ASSUME NEW b \in Announcement, NEW i \in Instance, Create(b, i)
          PROVE  b # a
      <4>1. <<b, i>> \in posting' /\ <<b, i>>[1] = b
        BY <3>1 DEF Create
      <4>2. b \in InFlight'
        BY <4>1 DEF InFlight
      <4>3. ~Steady(t)'
        BY DEF Steady
      <4>4. <<t, b>>[1] = t /\ <<t, b>>[2] = b /\ <<t, b>> \in Tab \X Announcement
        OBVIOUS
      <4>5. <<t, b>> \in exposed'
        BY <1>0, <1>1, <4>2, <4>3, <4>4 DEF Expose
      <4> QED BY <4>5 DEF Entitled
    <3>2. ASSUME NEW e \in AuditEvent, NEW i \in Instance, onAuditLog(e, i)
          PROVE  e # a
      BY LiveFeedAssumption
    <3>3. CASE UNCHANGED started
      BY <3>3
    <3>4. CASE \E i \in Instance : \/ \E b \in Announcement : Create(b, i)
                                   \/ \E e \in AuditEvent : onAuditLog(e, i)
      BY <3>1, <3>2, <3>4 DEF Create, onAuditLog
    <3>5. CASE Delivery
      BY <3>3, <3>5 DEF Delivery, Write, Garble, Finish
    <3> QED BY <1>0, <3>3, <3>4, <3>5 DEF Step, onAnnouncement, Relay, Crash, Restart, Subscribe,
               Refuse, Upgrade, add, remove, Break, connect, onclose, Mount, Unmount,
               ReadList, Loaded, serverVars
  <2> QED BY <2>1, <2>2, <2>3
<1> QED BY <1>2, <1>3

\* Every step keeps what the bell shows explained.
LEMMA BellHolds ==
  ASSUME IInv, IInv', RestTyped, BellInv, Next
  PROVE  BellInv'
<1>0. Step /\ Expose /\ AtUp /\ Settled /\ SnapshotRight /\ ListRight
  BY DEF Next, BellInv
<1>1. AtUp'
  BY <1>0, UpHolds
<1>2. Settled'
  <2> SUFFICES ASSUME NEW t \in Tab, NEW a \in Announcement,
                      Entitled(t, a)', a \in InFlight', ~Steady(t)'
               PROVE  FALSE
    BY DEF Settled
  <2>1. <<t, a>>[1] = t /\ <<t, a>>[2] = a /\ <<t, a>> \in Tab \X Announcement
    OBVIOUS
  <2>2. <<t, a>> \in exposed'
    BY <1>0, <2>1 DEF Expose, Entitled
  <2> QED BY <2>2 DEF Entitled
<1>3. SnapshotRight'
  BY <1>0, SnapshotHolds
<1>4. ListRight'
  <2> SUFFICES ASSUME NEW t \in Tab, NEW a \in Announcement,
                      Entitled(t, a)', load'[t] = "done", a \notin cut'
               PROVE  Told(t, a)'
    BY DEF ListRight
  <2>1. Entitled(t, a) /\ life[t] = "mounted" /\ life'[t] = "mounted"
    BY StaysEntitled DEF Entitled
  <2>2. a \in InFlight => Steady(t)
    BY <1>0, <2>1 DEF Settled
  <2>3. CASE load[t] = "done"
    <3>1. Told(t, a)
      BY <1>0, <2>1, <2>3, CutStays DEF ListRight
    <3>2. <<t, a>> \notin pushed'
      BY DEF Entitled
    <3> QED BY <1>0, <2>1, <2>2, <2>3, <3>1, <3>2, StepTells
  <2>4. CASE load[t] # "done"
    <3>1. Loaded(t)
      <4>1. ~ReadList(t)
        BY DEF ReadList, RestTyped
      <4> QED BY <1>0, <2>1, <2>4, <4>1, Mounting
    <3>2. /\ UNCHANGED <<started, posting, delivering, queue>>
          /\ load[t] = "read"
      BY <3>1 DEF Loaded, serverVars
    <3>3. list'[t][a] = IF a \in started THEN 1 ELSE 0
      <4>1. list'[t][a] = IF a \in snapshot[t] THEN 1 ELSE 0
        BY <3>1 DEF Loaded, RestTyped
      <4>2. a \in snapshot[t] <=> a \in started
        BY <1>0, <2>1, <3>2 DEF SnapshotRight
      <4> QED BY <4>1, <4>2
    <3>4. a \notin InFlight'
      <4>1. a \notin InFlight
        BY <2>2, <2>4 DEF Steady
      <4> QED BY <3>2, <4>1 DEF InFlight
    <3> QED BY <3>2, <3>3, <3>4 DEF Told
  <2> QED BY <2>3, <2>4
<1> QED BY <1>1, <1>2, <1>3, <1>4 DEF BellInv

\* With any number of instances, tabs, announcements and faults, and whatever the number
\* of entries the bell has room for, a bell whose list is there shows every announcement
\* exactly once, but for those that later entries pushed off its end, those in flight while
\* its tab was loading or not connected, and those whose broadcast was cut short
\* (AppShell.tsx:99-108, announcement_handlers.go:48).
THEOREM BellShowsAll == Spec => []BellIsRight
<1> DEFINE Whole == IInv /\ RestTyped /\ BellInv
<1>1. Init => Whole
  <2>1. Init => InFlight = {}
    BY DEF Init, InFlight
  <2> QED BY <2>1, InitHolds DEF Init, RestTyped, BellInv, AtUp, Settled, SnapshotRight,
             ListRight, Entitled
<1>2. ASSUME Whole, [Next]_vars
      PROVE  Whole'
  <2>1. IInv'
    BY <1>2, StepHolds
  <2>2. RestTyped'
    BY <1>2, RestHolds
  <2>3. BellInv'
    <3>1. CASE Next
      BY <1>2, <2>1, <3>1, BellHolds
    <3>2. CASE UNCHANGED vars
      BY <1>2, <3>2 DEF vars, serverVars, tabVars, BellInv, AtUp, Settled, SnapshotRight,
         ListRight, Entitled, Steady, Told, Own, Due, InFlight, Name
    <3> QED BY <1>2, <3>1, <3>2
  <2> QED BY <2>1, <2>2, <2>3
<1>3. Whole => BellIsRight
  BY DEF BellInv, ListRight, Told, Entitled, BellIsRight
<1> HIDE DEF Whole
<1> QED BY <1>1, <1>2, <1>3, PTL DEF Spec
=============================================================================
