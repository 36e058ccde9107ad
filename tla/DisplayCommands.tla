-------------------------- MODULE DisplayCommands --------------------------
(***************************************************************************)
(* The router of commands to displays (executeCommand).  A command checks  *)
(* who owns its displays, waits, checks again, saves what they show, sends *)
(* it to the receivers that are connected, and publishes it to one MQTT    *)
(* receiver after the other.  An operator's media first clears the screen, *)
(* by a command of its own.  Meanwhile announcements begin and end,        *)
(* displays are dedicated to a leaderboard, and other commands come.       *)
(***************************************************************************)
EXTENDS Naturals, FiniteSets, Sequences

CONSTANTS
    Displays,      \* displays, each with a receiver and an MQTT receiver
    MaxCommands    \* commands, a bound of the model

VARIABLES
    paused,      \* a full export has asked for quiet
    content,     \* what each display shows, as saved (audioContentId)
    online,      \* displays whose receiver is connected
    screens,     \* what the receiver was last sent, if it is connected
    mqtt,        \* what its MQTT receiver was last sent
    lock,        \* displays of the active announcement
    phase,       \* the announcement's: "none", "playing" or "releasing"
    reserved,    \* displays dedicated to a leaderboard
    commands,    \* commands in flight
    sent         \* the kinds of all commands

vars == <<content, online, screens, mqtt, lock, phase, reserved, commands, sent>>

(* Of the schedule; an operator's media; an operator's text, which respects *)
(* no lock; the announcement's stream; and the clearing at its end.        *)
Kinds == {"automation", "media", "text", "stream", "release"}

(* Command n shows Content(n); what it clears before is another content.   *)
Content(n) == 2 * n
Clearing(n) == 2 * n - 1
Contents == 0..(2 * MaxCommands)
Waiting == 2 * MaxCommands + 1   \* a waiting screen, while the display is dedicated
Writer(c) == IF c = 0 THEN "none" ELSE sent[(c + 1) \div 2]

Commands == [n : 1..MaxCommands, targets : SUBSET Displays, pc : {"begin", "clear", "clearing", "publish"},
             left : SUBSET Displays, owns : SUBSET Contents]

TypeOK ==
    /\ content \in [Displays -> Contents] /\ mqtt \in [Displays -> Contents]
    /\ screens \in [Displays -> Contents \cup {Waiting}] /\ online \subseteq Displays
    /\ lock \subseteq Displays /\ reserved \subseteq Displays
    /\ phase \in {"none", "playing", "releasing"}
    /\ commands \subseteq Commands
    /\ sent \in Seq(Kinds) /\ Len(sent) <= MaxCommands

Init ==
    /\ content = [d \in Displays |-> 0]
    /\ screens = content /\ online = Displays /\ mqtt = content
    /\ lock = {} /\ phase = "none" /\ reserved = {}
    /\ commands = {} /\ sent = <<>>

Protects(c) == sent[c.n] \in {"automation", "media"}
InFlight(kind) == \E c \in commands : sent[c.n] = kind

------------------------------------------------------------------------------
(* Commands                                                                *)

(* executeCommand up to its first await: displays that are reserved are    *)
(* left out; media on a display that an announcement holds is refused.     *)
Admit(kind, targets, owns) ==
    /\ Len(sent) < MaxCommands
    /\ targets \ reserved # {}
    /\ kind = "media" => (targets \ reserved) \cap lock = {}
    /\ sent' = Append(sent, kind)
    /\ commands' = commands \cup
          {[n |-> Len(sent'), targets |-> targets \ reserved, pc |-> "begin", left |-> {}, owns |-> owns]}

Send(kind, targets) ==
    /\ ~paused
    /\ Admit(kind, targets, {})
    /\ UNCHANGED <<content, online, screens, mqtt, lock, phase, reserved>>

Replace(c, d) == commands' = (commands \ {c}) \cup {d}
Drop(c) == commands' = commands \ {c} /\ UNCHANGED <<content, screens, mqtt>>

(* updateStateFromCommand and broadcastDisplays; the bridge to MQTT may be *)
(* down.                                                                   *)
Write(c, id, targets, pc) ==
    /\ content' = [d \in Displays |-> IF d \in targets THEN id ELSE content[d]]
    /\ screens' = [d \in Displays |-> IF d \in targets \cap online THEN id ELSE screens[d]]
    /\ \E left \in {{}, targets} : Replace(c, [c EXCEPT !.pc = pc, !.left = left])
    /\ UNCHANGED mqtt

(* After the await: who owns the displays is asked again.                  *)
Dispatch(c) ==
    /\ c.pc = "begin"
    /\ LET targets == c.targets \ reserved
           mine == {d \in targets : content[d] \in c.owns}
       IN CASE targets = {} \/ (Protects(c) /\ targets \cap lock # {}) -> Drop(c)
            [] sent[c.n] = "release" -> IF mine = {} THEN Drop(c) ELSE Write(c, Content(c.n), mine, "publish")
            [] sent[c.n] = "media" ->
                  /\ Replace(c, [c EXCEPT !.targets = targets, !.pc = "clear"])
                  /\ UNCHANGED <<content, screens, mqtt>>
            [] OTHER -> Write(c, Content(c.n), targets, "publish")
    /\ UNCHANGED <<online, lock, phase, reserved, sent>>

(* The command that clears the screen goes the same way.  When all its     *)
(* displays are reserved by now it does nothing, and the media goes on.    *)
Clear(c) ==
    /\ c.pc = "clear"
    /\ LET targets == c.targets \ reserved
       IN IF targets \cap lock # {} THEN Drop(c)
          ELSE Write(c, Clearing(c.n), targets, "clearing")
    /\ UNCHANGED <<online, lock, phase, reserved, sent>>

(* When the screen is clear, an announcement may have begun.               *)
Show(c) ==
    /\ c.pc = "clearing" /\ c.left = {}
    /\ IF c.targets \cap lock # {} THEN Drop(c)
       ELSE Write(c, Content(c.n), c.targets, "publish")
    /\ UNCHANGED <<online, lock, phase, reserved, sent>>

StillOwns(c, d) == sent[c.n] = "release" => content[d] = Content(c.n)

(* One publish after the other, each awaited and each may fail; a display  *)
(* that was reserved meanwhile is left out, and a release skips what shows *)
(* something newer.                                                        *)
Publish(c, d) ==
    /\ c.pc \in {"clearing", "publish"} /\ d \in c.left
    /\ mqtt' = IF d \in reserved \/ ~StillOwns(c, d) THEN mqtt
               ELSE [mqtt EXCEPT ![d] = IF c.pc = "publish" THEN Content(c.n) ELSE Clearing(c.n)]
    /\ Replace(c, [c EXCEPT !.left = @ \ {d}])
    /\ UNCHANGED <<content, online, screens, lock, phase, reserved, sent>>

PublishFails(c) ==
    /\ c.left # {} /\ Drop(c)
    /\ UNCHANGED <<online, lock, phase, reserved, sent>>

Done(c) ==
    /\ c.pc = "publish" /\ c.left = {} /\ Drop(c)
    /\ UNCHANGED <<online, lock, phase, reserved, sent>>

Step == \E c \in commands :
    \/ Dispatch(c) \/ Clear(c) \/ Show(c)
    \/ (\E d \in Displays : Publish(c, d)) \/ PublishFails(c) \/ Done(c)

------------------------------------------------------------------------------
(* Who owns displays                                                       *)

(* Morning Announcements take displays and show the stream; in the end     *)
(* they clear what still shows it.                                         *)
AnnouncementStarts(targets) ==
    /\ ~paused /\ phase = "none" /\ targets \ reserved # {}
    /\ Admit("stream", targets, {})
    /\ lock' = targets \ reserved /\ phase' = "playing"
    /\ UNCHANGED <<content, online, screens, mqtt, reserved>>

AnnouncementReleases ==
    /\ ~paused /\ phase = "playing" /\ ~InFlight("stream")
    /\ Admit("release", lock, {Content(n) : n \in {m \in DOMAIN sent : sent[m] = "stream"}})
    /\ phase' = "releasing"
    /\ UNCHANGED <<content, online, screens, mqtt, lock, reserved>>

AnnouncementEnds ==
    /\ phase # "none" /\ ~InFlight("stream") /\ ~InFlight("release")
    /\ phase = "playing" => lock \subseteq reserved
    /\ phase' = "none" /\ lock' = {}
    /\ UNCHANGED <<content, online, screens, mqtt, reserved, commands, sent>>

(* A campaign is given a display of its own, or gives it up.               *)
Dedicate(targets) ==
    /\ ~paused /\ targets # reserved
    /\ reserved' = targets
    /\ UNCHANGED <<content, online, screens, mqtt, lock, phase, commands, sent>>

(* A receiver connects: it is sent what is saved, or a waiting screen.     *)
Connect(d) ==
    /\ online' = online \cup {d}
    /\ screens' = [screens EXCEPT ![d] = IF d \in reserved THEN Waiting ELSE content[d]]
    /\ UNCHANGED <<content, mqtt, lock, phase, reserved, commands, sent>>

Disconnect(d) ==
    /\ online' = online \ {d}
    /\ screens' = [screens EXCEPT ![d] = 0]
    /\ UNCHANGED <<content, mqtt, lock, phase, reserved, commands, sent>>

(* What displays show and who reserved them is saved; announcements are    *)
(* not.                                                                    *)
Restart ==
    /\ commands' = {} /\ lock' = {} /\ phase' = "none"
    /\ online' = {} /\ screens' = [d \in Displays |-> 0]
    /\ UNCHANGED <<content, mqtt, reserved, sent>>

Request == \E targets \in SUBSET Displays :
    (\E kind \in {"automation", "media", "text"} : Send(kind, targets)) \/ Dedicate(targets)
Announcements ==
    (\E targets \in SUBSET Displays : AnnouncementStarts(targets)) \/ AnnouncementReleases \/ AnnouncementEnds
Receivers == \E d \in Displays : Connect(d) \/ Disconnect(d)

Next == Request \/ Announcements \/ Receivers \/ Step \/ Restart
Spec == Init /\ [][Next]_vars

------------------------------------------------------------------------------
(* However long a command waited, what it writes respects the owners that  *)
(* a display has by then: while an announcement holds it only a plain text *)
(* of an operator is written there, while a leaderboard has it only media  *)
(* whose screen was being cleared does, and the end of an announcement     *)
(* clears nothing that is newer, on no receiver.                           *)
OwnersAreRespected ==
    [][\A d \in Displays :
          /\ d \in lock \cap lock' /\ content'[d] # content[d] => Writer(content'[d]) \in {"stream", "release", "text"}
          /\ d \in reserved /\ content'[d] # content[d] => Writer(content'[d]) = "media"
          /\ mqtt'[d] # mqtt[d] => d \notin reserved
          /\ content'[d] # content[d] /\ Writer(content'[d]) = "release" => Writer(content[d]) = "stream"
          /\ mqtt'[d] # mqtt[d] /\ Writer(mqtt'[d]) = "release" => content[d] = mqtt'[d]]_<<content, mqtt>>

(* A receiver that is connected shows what is saved, unless its display is *)
(* or was dedicated.                                                       *)
ReceiversFollow ==
    \A d \in Displays : d \in online => screens[d] \in {content[d], Waiting}

------------------------------------------------------------------------------
(* Why these hold: the inductive invariant of HubServicesProofs.           *)

\* Only media clears the screen before, and only a release owns contents: the streams'.
CommandsAreKnown ==
    \A c \in commands :
        /\ c.n \in DOMAIN sent
        /\ c.pc \in {"clear", "clearing"} => sent[c.n] = "media"
        /\ c.owns \subseteq {Content(n) : n \in {m \in DOMAIN sent : sent[m] = "stream"}}

DisplaysInv == TypeOK /\ CommandsAreKnown /\ ReceiversFollow

==============================================================================
