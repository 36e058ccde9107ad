------------------------ MODULE PresentationSession ------------------------
(***************************************************************************)
(* Slides on the displays: the library of presentations that are rendered, *)
(* and one live session.  Starting, controlling and removing share a queue *)
(* (withPresentationSession); a task awaits each command to the displays,  *)
(* which an announcement may refuse.  A timer advances the slides.         *)
(***************************************************************************)
EXTENDS Naturals, Sequences, FiniteSets

CONSTANTS
    Decks,         \* presentations
    Slides,        \* the slides of a presentation
    MaxTasks       \* requests, a bound of the model

VARIABLES
    paused,        \* a full export has asked for quiet
    deck,          \* each presentation's record in the library: "new", "kept" or "removed"
    made,          \* presentations that have slides
    builds,        \* presentations that are being rendered
    session,       \* presentationState
    saved,         \* presentationState on disk
    tasks,         \* the queue; its head runs
    todo,          \* what the running task has still to send
    screen,        \* what the displays show
    held,          \* an announcement has the displays
    trusted,       \* history: whatever was sent since the session's start has arrived, and nobody else wrote
    unsaved,       \* history: a save of the session failed
    asked          \* how many requests there were

vars == <<deck, made, builds, session, saved, tasks, todo, screen, held, trusted, unsaved, asked>>

None == [is |-> "none"]
Running(d, n) == [is |-> "session", deck |-> d, id |-> n, slide |-> 1, paused |-> FALSE,
                  black |-> FALSE, auto |-> FALSE, loop |-> FALSE, due |-> FALSE, mark |-> 0]
Active == session # None

Controls == {"next", "previous", "restart-timer", "pause", "resume", "black", "unblack", "auto", "loop", "stop"}
Slide(d, n) == [is |-> "slide", deck |-> d, slide |-> n]
Is(x) == [is |-> x]
Screens == {Slide(d, n) : d \in Decks, n \in 1..Slides} \cup {Is("blank"), Is("black"), Is("other")}
Idle == <<Is("idle")>>   \* no task is running

TypeOK ==
    /\ deck \in [Decks -> {"new", "kept", "removed"}]
    /\ made \subseteq Decks /\ builds \subseteq Decks
    /\ \A s \in {session, saved} : s = None \/ (s.deck \in Decks /\ s.slide \in 1..Slides /\ s.id \in 1..MaxTasks)
    /\ Len(tasks) <= MaxTasks + 1
    /\ screen \in Screens /\ held \in BOOLEAN /\ trusted \in BOOLEAN /\ unsaved \in BOOLEAN

Init ==
    /\ deck = [d \in Decks |-> "new"] /\ made = {} /\ builds = {}
    /\ session = None /\ saved = None
    /\ tasks = <<>> /\ todo = Idle
    /\ screen = Is("other") /\ held = FALSE /\ trusted = FALSE /\ unsaved = FALSE
    /\ asked = 0

------------------------------------------------------------------------------
(* The library                                                             *)

(* An upload, or a rebuild of what is there: the record says "converting"  *)
(* while the renderer works beside the published slides.                   *)
Ready(d) == deck[d] = "kept" /\ d \in made \ builds

Build(d) ==
    /\ ~paused /\ asked < MaxTasks /\ asked' = asked + 1
    /\ deck[d] # "removed" /\ d \notin builds
    /\ deck' = [deck EXCEPT ![d] = "kept"]
    /\ builds' = builds \cup {d}
    /\ UNCHANGED <<made, session, saved, tasks, todo, screen, held, trusted, unsaved>>

(* The slides are swapped in whole, or those of before stay; a             *)
(* presentation that was removed meanwhile has no place for them.          *)
BuildEnds(d, done) ==
    /\ d \in builds /\ builds' = builds \ {d}
    /\ done => deck[d] = "kept"
    /\ made' = IF done THEN made \cup {d} ELSE made
    /\ UNCHANGED <<deck, session, saved, tasks, todo, screen, held, trusted, unsaved, asked>>

------------------------------------------------------------------------------
(* The queue                                                               *)

Ask(task) ==
    /\ ~paused /\ asked < MaxTasks /\ asked' = asked + 1
    /\ tasks' = Append(tasks, task)
    /\ UNCHANGED <<deck, made, builds, session, saved, todo, screen, held, trusted, unsaved>>

(* A control is of the session that its sender saw.                        *)
Request ==
    \/ \E d \in Decks : Build(d) \/ Ask([do |-> "start", deck |-> d]) \/ Ask([do |-> "delete", deck |-> d])
    \/ Active /\ \E c \in Controls : Ask([do |-> c, of |-> session.id])

(* The slide has been up for its time.                                     *)
Elapse ==
    /\ Active /\ session.auto /\ ~session.paused /\ ~session.due
    /\ session.mark < MaxTasks
    /\ session' = [session EXCEPT !.due = TRUE]
    /\ UNCHANGED <<deck, made, builds, saved, tasks, todo, screen, held, trusted, unsaved, asked>>

(* The timer asks for the next slide, one at a time.                       *)
Tick ==
    /\ ~paused /\ Active /\ session.auto /\ ~session.paused /\ session.due
    /\ \A i \in DOMAIN tasks : tasks[i].do # "advance"
    /\ tasks' = Append(tasks, [do |-> "advance", of |-> session.id, slide |-> session.slide, mark |-> session.mark])
    /\ UNCHANGED <<deck, made, builds, session, saved, todo, screen, held, trusted, unsaved, asked>>

------------------------------------------------------------------------------
(* A task up to its first await.  Each result is the session that it       *)
(* leaves and what it sends.                                               *)

(* A new slide starts its time anew, and ends a pause (presentationGoto,   *)
(* sendPresentationSlide).                                                 *)
At(s, n) == [s EXCEPT !.slide = n, !.paused = FALSE, !.due = FALSE, !.mark = @ + 1]
Shown(s) == <<Slide(s.deck, s.slide)>> \o IF s.black THEN <<Is("black")>> ELSE <<>>
Leaves(s, sends) == [session |-> s, todo |-> sends, saves |-> TRUE]
Nothing == [session |-> session, todo |-> <<>>, saves |-> FALSE]
Goto(n) == LET s == At(session, n) IN Leaves(s, Shown(s))

(* At the last slide: from the first again, or pause.                      *)
Forward ==
    IF session.slide < Slides THEN Goto(session.slide + 1)
    ELSE IF session.loop THEN Goto(1)
    ELSE Leaves([session EXCEPT !.paused = TRUE], <<>>)

Control(c) ==
    CASE c = "next" -> Forward
      [] c = "previous" -> Goto(IF session.slide > 1 THEN session.slide - 1 ELSE 1)
      [] c = "restart-timer" -> Leaves(At(session, session.slide), <<>>)
      [] c = "pause" -> Leaves([session EXCEPT !.paused = TRUE], <<>>)
      [] c = "resume" -> Leaves([session EXCEPT !.paused = FALSE, !.mark = IF session.paused THEN @ + 1 ELSE @], <<>>)
      [] c = "black" -> Leaves([session EXCEPT !.black = TRUE], <<Is("black")>>)
      [] c = "unblack" -> LET s == [session EXCEPT !.black = FALSE] IN Leaves(s, Shown(s))
      [] c = "auto" -> Leaves([session EXCEPT !.auto = ~@], <<>>)
      [] c = "loop" -> Leaves([session EXCEPT !.loop = ~@], <<>>)
      [] c = "stop" -> Leaves(None, <<Is("blank")>>)

Current(task) == Active /\ session.id = task.of

AnyTime(task) == Current(task) /\ session.auto

(* The automatic advance is for the slide that was up when its time was    *)
(* over: an operator may have moved on, or paused, while it waited.        *)
StillDue(task) ==
    /\ Current(task) /\ session.auto /\ ~session.paused
    /\ session.slide = task.slide /\ session.mark = task.mark /\ session.due

Result(task) ==
    CASE task.do = "start" ->
            IF Ready(task.deck) /\ ~held
            THEN LET s == Running(task.deck, asked) IN Leaves(s, <<Is("blank")>> \o Shown(s))
            ELSE Nothing
      [] task.do = "delete" ->
            IF Active /\ session.deck = task.deck THEN Leaves(None, <<Is("blank")>>) ELSE Nothing
      [] task.do = "advance" -> IF StillDue(task) THEN Forward ELSE Nothing
      [] OTHER -> IF Current(task) THEN Control(task.do) ELSE Nothing

(* Most tasks save what they change before they send it; blanking and      *)
(* unblanking save when all is sent.                                       *)
SavesLast(task) == task.do \in {"black", "unblack"} /\ Current(task)

Begin ==
    /\ tasks # <<>> /\ todo = Idle
    /\ LET r == Result(Head(tasks))
       IN /\ session' = r.session /\ todo' = r.todo
          /\ saved' = IF r.saves /\ ~SavesLast(Head(tasks)) THEN r.session ELSE saved
    /\ UNCHANGED <<deck, made, builds, tasks, screen, held, trusted, unsaved, asked>>

(* A save fails, which ends the task with the session changed: a start     *)
(* saves the end of the session before it, and then its own.               *)
BeginFails ==
    /\ tasks # <<>> /\ todo = Idle
    /\ LET task == Head(tasks)
           r == Result(task)
       IN /\ r.saves /\ ~SavesLast(task)
          /\ \/ session' = r.session /\ saved' = IF task.do = "start" /\ Active THEN None ELSE saved
             \/ task.do = "start" /\ Active /\ session' = None /\ UNCHANGED saved
    /\ tasks' = Tail(tasks) /\ trusted' = FALSE /\ unsaved' = TRUE
    /\ UNCHANGED <<deck, made, builds, todo, screen, held, asked>>

(* A command: refused while an announcement has the displays; otherwise it *)
(* arrives, and may still be reported as failed.                           *)
Send(ok) ==
    /\ todo # Idle /\ todo # <<>>
    /\ ok => ~held
    /\ screen' = IF held THEN screen ELSE Head(todo)
    /\ todo' = IF ok THEN Tail(todo) ELSE Idle
    /\ tasks' = IF ok THEN tasks ELSE Tail(tasks)
    /\ trusted' = (ok /\ (trusted \/ (Head(tasks).do = "start" /\ Len(todo) = 1)))
    /\ UNCHANGED <<deck, made, builds, session, saved, held, unsaved, asked>>

(* The end of a task: a presentation is removed when its session is over   *)
(* and its slides are off the displays.                                    *)
Removed(task) == IF task.do = "delete" THEN [deck EXCEPT ![task.deck] = "removed"] ELSE deck

End ==
    /\ todo = <<>>
    /\ deck' = Removed(Head(tasks))
    /\ saved' = IF SavesLast(Head(tasks)) THEN session ELSE saved
    /\ todo' = Idle /\ tasks' = Tail(tasks)
    /\ UNCHANGED <<made, builds, session, screen, held, trusted, unsaved, asked>>

Step == Begin \/ BeginFails \/ (\E ok \in BOOLEAN : Send(ok)) \/ End
Renders == \E d \in Decks, done \in BOOLEAN : BuildEnds(d, done)

------------------------------------------------------------------------------
(* Others write the displays, and announcements take and give them back.   *)
Others ==
    /\ \/ screen' = Is("other") /\ trusted' = FALSE /\ UNCHANGED held
       \/ held' = ~held /\ trusted' = FALSE /\ screen' = Is("other")
    /\ UNCHANGED <<deck, made, builds, session, saved, tasks, todo, unsaved, asked>>

(* The saved session goes on; an interrupted rendering ends.               *)
Restart ==
    /\ session' = saved
    /\ builds' = {}
    /\ tasks' = <<>> /\ todo' = Idle /\ trusted' = FALSE
    /\ UNCHANGED <<deck, made, saved, screen, held, unsaved, asked>>

Next == Request \/ Elapse \/ Tick \/ Step \/ Renders \/ Others \/ Restart
Spec == Init /\ [][Next]_vars

------------------------------------------------------------------------------
(* Between tasks, the displays show the slide that the session is at, or   *)
(* are black, unless a command failed or someone else wrote; a session is  *)
(* never of a presentation that was removed, on disk neither; and slides   *)
(* advance by themselves only when the one that is up has had its time.    *)
SlideIsShown ==
    trusted /\ Active /\ todo = Idle => screen = (IF session.black THEN Is("black") ELSE Slide(session.deck, session.slide))

SessionHasDeck == unsaved \/ \A s \in {session, saved} : s # None => deck[s.deck] # "removed"

AdvancesInTime ==
    [][/\ Active /\ session' # None /\ session'.slide # session.slide
       /\ tasks # <<>> /\ Head(tasks).do = "advance" /\ ~Restart
       => session.due /\ ~session.paused /\ session.slide = Head(tasks).slide]_session

------------------------------------------------------------------------------
(* Why these hold: the inductive invariant of HubServicesProofs.           *)

Live == [is : {"session"}, deck : Decks, id : Nat, slide : Nat, paused : BOOLEAN,
         black : BOOLEAN, auto : BOOLEAN, loop : BOOLEAN, due : BOOLEAN, mark : Nat]
Tasks == [do : {"start", "delete"}, deck : Decks] \cup [do : Controls, of : Nat]
            \cup [do : {"advance"}, of : Nat, slide : Nat, mark : Nat]
Sends == [is : {"slide"}, deck : Decks, slide : Nat] \cup [is : {"blank", "black"}]

SlidesTypeOK ==
    /\ deck \in [Decks -> {"new", "kept", "removed"}]
    /\ session \in Live \cup {None} /\ saved \in Live \cup {None}
    /\ tasks \in Seq(Tasks) /\ todo \in Seq(Sends) \cup {Idle}
    /\ {trusted, unsaved} \subseteq BOOLEAN /\ asked \in Nat

\* The slide of the session is the last that the running task sends, or is up already.
Expected == IF session.black THEN Is("black") ELSE Slide(session.deck, session.slide)
SlideIsComing ==
    /\ todo # Idle => tasks # <<>>
    /\ Active /\ todo # Idle /\ todo # <<>> => todo[Len(todo)] = Expected
    /\ Active /\ trusted /\ todo \in {Idle, <<>>} => screen = Expected

\* The session on disk is of the same presentation; who removes one has ended its session.
SavedIsSession ==
    ~unsaved =>
        /\ session = None <=> saved = None
        /\ session # None => session.deck = saved.deck
        /\ todo # Idle /\ Head(tasks).do = "delete" /\ session # None => session.deck # Head(tasks).deck

SlidesInv == SlidesTypeOK /\ SlideIsComing /\ SavedIsSession /\ SessionHasDeck

==============================================================================
