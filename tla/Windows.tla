------------------------------- MODULE Windows -------------------------------
(***************************************************************************)
(* The windows of the password dialog (agent/gui_auth.rs) with the three   *)
(* toolkits, and without one.  One thread runs all windows: it takes the   *)
(* requests from a channel and calls back what the user does.  Closing a   *)
(* window calls the toolkit's closing signal in the middle of such a       *)
(* callback, and Qt's QML reads the request it has polled from a cell of   *)
(* the bridge.  The handlers of the requests run meanwhile.                *)
(*                                                                         *)
(* Module Prompt follows the handler through its attempts; here it gives   *)
(* any verdict on a password it was sent.                                  *)
(***************************************************************************)
EXTENDS Naturals, Sequences, FiniteSets

CONSTANTS
    Asks,          \* requests of handlers for a window
    NoAsk,
    Desks,         \* desktops: toolkit, whether it starts, its icons
    Wanted,        \* what each request is about: its display and access scope
    GenericNames,  \* GENERIC_TERMINAL_ICON_NAMES
    MaxTries       \* passwords a handler checks (bound)

ASSUME WindowsAssumption == NoAsk \notin Asks

VARIABLES
    desk,
    ask,        \* ask[a]: where it is, its display and access scope, whether its handler
                \* listens, what it has heard, and the verdicts it has given
    panel,      \* panel[a]: the window with its field, its error, its sender and its oneshot
    gui,        \* the dispatcher: its state, the window that it closes, Qt's CURRENT
    asked,      \* the channel of the requests
    serving     \* the server thread runs

windowVars == <<desk, ask, panel, gui, asked, serving>>

(***************************************************************************)
(* What is shown of a process, and the icons of a desktop: GTK asks the    *)
(* file and the theme, Qt looks for files below the icon directories, in   *)
(* the order they are listed there, and goes on to the next name when what *)
(* it found cannot be drawn, and AppKit makes an icon of any path.         *)
(***************************************************************************)
NoIcon == [form |-> "none", name |-> ""]
ThemeIcon(name) == [form |-> "theme", name |-> name]
UnknownApp == [name |-> "this app", path |-> "unknown", icon |-> NoIcon, app |-> {}]

PresentationName(d) ==
    IF d.app = {} THEN <<d.name>>
    ELSE LET application == CHOOSE x \in d.app : TRUE
         IN  IF application.same THEN <<application.name>> ELSE <<d.name, application.name>>

PreferredIcon(d) ==
    IF \E x \in d.app : x.icon # NoIcon THEN (CHOOSE x \in d.app : TRUE).icon ELSE d.icon

GenericIcon(on) ==
    LET known == {i \in DOMAIN GenericNames : GenericNames[i] \in on.theme}
    IN  IF known = {} THEN NoIcon
        ELSE ThemeIcon(GenericNames[CHOOSE i \in known : \A j \in known : i <= j])

GtkIcon(on, wanted) ==
    IF \/ wanted.form = "path" /\ wanted.name \in on.paths
       \/ wanted.form = "theme" /\ wanted.name \in on.theme
    THEN wanted ELSE GenericIcon(on)

FindIconBelow(root, name) ==
    LET named == {f \in root : f.name = name /\ f.ext \in {"png", "svg", "xpm"}}
        pngs == {f \in named : f.ext = "png"}
    IN  IF pngs # {} THEN pngs ELSE named

FindXdgIcon(on, name) ==
    LET with == {i \in DOMAIN on.roots : FindIconBelow(on.roots[i], name) # {}}
    IN  IF with = {} THEN {}
        ELSE FindIconBelow(on.roots[CHOOSE i \in with : \A j \in with : i <= j], name)

IconSources(on, wanted) ==
    LET own == CASE wanted.form = "path" /\ wanted.name \in on.paths ->
                        {[name |-> wanted.name, ext |-> "path", sound |-> TRUE]}
                 [] wanted.form = "theme" -> FindXdgIcon(on, wanted.name)
                 [] OTHER -> {}
    IN  <<own>> \o [i \in DOMAIN GenericNames |-> FindXdgIcon(on, GenericNames[i])]

TryNextIconSource(sources) ==
    LET Failed(i) == sources[i] = {} \/ \E f \in sources[i] : ~f.sound
        AllFailed(n) == \A i \in 1 .. n : Failed(i)
    IN  UNION {{ThemeIcon(f.name) : f \in {g \in sources[i] : g.sound /\ AllFailed(i - 1)}} :
                  i \in DOMAIN sources}
        \cup (IF AllFailed(Len(sources)) THEN {NoIcon} ELSE {})

LoadIcon(d, wanted) ==
    IF wanted.form = "path" THEN wanted
    ELSE IF d = UnknownApp THEN NoIcon ELSE ThemeIcon("executable")

IconsOf(on, d) ==
    CASE on.kind = "gtk" -> {GtkIcon(on, PreferredIcon(d))}
      [] on.kind = "qt" -> TryNextIconSource(IconSources(on, PreferredIcon(d)))
      [] OTHER -> {LoadIcon(d, PreferredIcon(d))}

(***************************************************************************)
(* PromptMetadata: title and intro name the access scope.                  *)
(***************************************************************************)
Label(d, scope, icon) ==
    [title |-> scope, intro |-> scope, app |-> PresentationName(d), path |-> d.path, icon |-> icon]
Labels(a) == {Label(ask[a].display, ask[a].scope, icon) : icon \in IconsOf(desk, ask[a].display)}
NoLabel == Label(UnknownApp, "none", NoIcon)

NoPanel ==
    [at |-> "none", label |-> NoLabel, text |-> "", enabled |-> FALSE, error |-> FALSE,
     finished |-> FALSE, sender |-> FALSE, feedback |-> "none"]
NewPanel(label) ==
    [NoPanel EXCEPT !.at = "shown", !.label = label, !.enabled = TRUE, !.sender = TRUE]

(***************************************************************************)
(* Outcomes go into a channel that nobody reads any more once its handler  *)
(* is gone.                                                                *)
(***************************************************************************)
Heard(a, outcome) ==
    IF ask[a].listening THEN [ask[a] EXCEPT !.heard = Append(@, outcome)] ELSE ask[a]
Tell(a, outcome) == ask' = [ask EXCEPT ![a] = Heard(a, outcome)]

(***************************************************************************)
(* dispatch_prompt: after the dispatcher's end a request is dismissed.     *)
(***************************************************************************)
DispatchPrompt(a) ==
    /\ ask[a].at = "new"
    /\ serving
    /\ IF gui.at = "ended"
       THEN /\ ask' = [ask EXCEPT ![a] = [@ EXCEPT !.at = "taken", !.listening = TRUE,
                                                    !.heard = <<"dismissed">>]]
            /\ UNCHANGED asked
       ELSE /\ ask' = [ask EXCEPT ![a] = [@ EXCEPT !.at = "queued", !.listening = TRUE]]
            /\ asked' = Append(asked, a)
    /\ UNCHANGED <<desk, panel, gui, serving>>

GuiThread == gui.closing = NoAsk
Windowing == desk.kind # "none" /\ desk.works

Taken == ask' = [ask EXCEPT ![Head(asked)].at = "taken"] /\ asked' = Tail(asked)

(***************************************************************************)
(* GTK and AppKit build the window when they take the request.             *)
(***************************************************************************)
PresentGtk ==
    /\ gui.at = "running" /\ GuiThread /\ asked # <<>>
    /\ desk.kind = "gtk" /\ desk.works
    /\ Taken
    /\ \E label \in Labels(Head(asked)) : panel' = [panel EXCEPT ![Head(asked)] = NewPanel(label)]
    /\ UNCHANGED <<desk, gui, serving>>

PresentAppKit ==
    /\ gui.at = "running" /\ GuiThread /\ asked # <<>>
    /\ desk.kind = "appkit"
    /\ Taken
    /\ \E label \in Labels(Head(asked)) : panel' = [panel EXCEPT ![Head(asked)] = NewPanel(label)]
    /\ UNCHANGED <<desk, gui, serving>>

(***************************************************************************)
(* QtPromptState::poll_prompt and then, in QML, the window of CURRENT.     *)
(***************************************************************************)
PollPromptAhead ==
    /\ gui.at = "running" /\ GuiThread /\ asked # <<>>
    /\ desk.kind = "qt"
    /\ Taken
    /\ \E label \in Labels(Head(asked)) :
           gui' = [gui EXCEPT !.current = [id |-> Head(asked), label |-> label]]
    /\ panel' = [panel EXCEPT ![Head(asked)].sender = TRUE]
    /\ UNCHANGED <<desk, serving>>

NoCurrent == [id |-> NoAsk, label |-> NoLabel]

PollPrompt ==
    /\ gui.at = "running" /\ GuiThread /\ asked # <<>>
    /\ desk.kind = "qt" /\ gui.current.id = NoAsk
    /\ Taken
    /\ \E label \in Labels(Head(asked)) :
           gui' = [gui EXCEPT !.current = [id |-> Head(asked), label |-> label]]
    /\ panel' = [panel EXCEPT ![Head(asked)].sender = TRUE]
    /\ UNCHANGED <<desk, serving>>

CreateWindow ==
    /\ gui.current.id # NoAsk
    /\ panel' = [panel EXCEPT ![gui.current.id] = NewPanel(gui.current.label)]
    /\ gui' = [gui EXCEPT !.current = NoCurrent]
    /\ UNCHANGED <<desk, ask, asked, serving>>

(***************************************************************************)
(* Without a GUI, or when GTK does not start, requests are dismissed.      *)
(***************************************************************************)
Dismissed(a) == [Heard(a, "dismissed") EXCEPT !.at = "taken"]

DenyAll ==
    /\ gui.at = "running" /\ asked # <<>>
    /\ ~Windowing
    /\ ask' = [ask EXCEPT ![Head(asked)] = Dismissed(Head(asked))]
    /\ asked' = Tail(asked)
    /\ UNCHANGED <<desk, panel, gui, serving>>

-----------------------------------------------------------------------------
(***************************************************************************)
(* A callback finds the thread free: not within a closing, nor between a   *)
(* poll and its window.                                                    *)
(***************************************************************************)
Callback(a) ==
    /\ gui.at = "running" /\ GuiThread /\ gui.current.id = NoAsk
    /\ panel[a].at = "shown"

Type(a) ==
    /\ Callback(a)
    /\ panel[a].enabled /\ panel[a].text = ""
    /\ panel' = [panel EXCEPT ![a].text = "password"]
    /\ UNCHANGED <<desk, ask, gui, asked, serving>>

Emptied(a, error) == [panel[a] EXCEPT !.text = "", !.enabled = FALSE, !.error = error]
Close(a) == gui' = [gui EXCEPT !.closing = a]
Closing(p) == [p EXCEPT !.at = "closing", !.finished = TRUE, !.sender = FALSE]

(***************************************************************************)
(* submit_password: the password goes out with the sender of a oneshot.    *)
(* GTK leaves the error of the last try on the window.                     *)
(***************************************************************************)
SubmitGtkPassword(a) ==
    /\ Callback(a) /\ desk.kind = "gtk"
    /\ ~panel[a].finished /\ panel[a].feedback = "none" /\ panel[a].enabled
    /\ Tell(a, "password")
    /\ IF ask[a].listening
       THEN /\ panel' = [panel EXCEPT ![a] =
                            [Emptied(a, panel[a].error) EXCEPT !.feedback = "empty"]]
            /\ UNCHANGED gui
       ELSE panel' = [panel EXCEPT ![a] = Closing(Emptied(a, panel[a].error))] /\ Close(a)
    /\ UNCHANGED <<desk, asked, serving>>

(***************************************************************************)
(* allowPrompt: QML waits for feedback even if the bridge could not send.  *)
(***************************************************************************)
SubmitQtPassword(a) ==
    /\ Callback(a) /\ desk.kind = "qt"
    /\ ~panel[a].finished /\ panel[a].feedback = "none" /\ panel[a].enabled
    /\ Tell(a, "password")
    /\ panel' = [panel EXCEPT ![a] = IF ask[a].listening
                                     THEN [Emptied(a, FALSE) EXCEPT !.feedback = "empty"]
                                     ELSE Emptied(a, FALSE)]
    /\ UNCHANGED <<desk, gui, asked, serving>>

SubmitAppKitPassword(a) ==
    /\ Callback(a) /\ desk.kind = "appkit"
    /\ panel[a].feedback = "none" /\ panel[a].enabled
    /\ Tell(a, "password")
    /\ IF ask[a].listening
       THEN /\ panel' = [panel EXCEPT ![a] = [Emptied(a, FALSE) EXCEPT !.feedback = "empty"]]
            /\ UNCHANGED gui
       ELSE /\ panel' = [panel EXCEPT ![a] =
                            Closing([Emptied(a, FALSE) EXCEPT !.feedback = "closed"])]
            /\ Close(a)
    /\ UNCHANGED <<desk, asked, serving>>

(***************************************************************************)
(* finish: Deny, Escape or the window manager end the dialog.  The sender  *)
(* is given up and finished is set before the window is told to close.     *)
(***************************************************************************)
FinishWindow(a, outcome) ==
    /\ Tell(a, outcome)
    /\ panel' = [panel EXCEPT ![a] = [Closing(panel[a]) EXCEPT !.text = ""]]
    /\ Close(a)

RefuseAccess(a) ==
    /\ Callback(a) /\ ~panel[a].finished
    /\ \E outcome \in {"denied", "dismissed"} : FinishWindow(a, outcome)
    /\ UNCHANGED <<desk, asked, serving>>

CloseByManager(a) ==
    /\ Callback(a)
    /\ panel' = [panel EXCEPT ![a].at = "closing"]
    /\ Close(a)
    /\ UNCHANGED <<desk, ask, asked, serving>>

(***************************************************************************)
(* The closing signal, within the call that closes the window or sent by   *)
(* the window manager: it dismisses what is not finished.  Qt's window is  *)
(* destroyed with its field.                                               *)
(***************************************************************************)
OnClosing(a) ==
    /\ gui.closing = a
    /\ IF panel[a].finished THEN UNCHANGED ask ELSE Tell(a, "dismissed")
    /\ LET text == IF desk.kind = "appkit" /\ panel[a].finished THEN panel[a].text ELSE ""
       IN  panel' = [panel EXCEPT ![a] = [Closing(panel[a]) EXCEPT !.at = "closed",
                                             !.enabled = FALSE, !.text = text]]
    /\ gui' = [gui EXCEPT !.closing = NoAsk]
    /\ UNCHANGED <<desk, asked, serving>>

(***************************************************************************)
(* poll_feedback: a wrong password makes the field usable again; the       *)
(* verdict that ends the handler, or its death, closes the window, in      *)
(* AppKit after the field was emptied.                                     *)
(***************************************************************************)
Verdicts == {"incorrect", "complete", "closed"}
AskAgain(p) == [p EXCEPT !.enabled = TRUE, !.error = TRUE, !.feedback = "none"]

PollVerdict(a, left) ==
    /\ Callback(a)
    /\ panel[a].feedback \in Verdicts
    /\ IF panel[a].feedback = "incorrect"
       THEN panel' = [panel EXCEPT ![a] = AskAgain(panel[a])] /\ UNCHANGED gui
       ELSE /\ panel' = [panel EXCEPT ![a] =
                            [Closing(panel[a]) EXCEPT !.feedback = "none", !.text = left]]
            /\ Close(a)
    /\ UNCHANGED <<desk, ask, asked, serving>>

PollGtk(a) == desk.kind = "gtk" /\ PollVerdict(a, panel[a].text)
PollQt(a) == desk.kind = "qt" /\ PollVerdict(a, panel[a].text)
PollAppKit(a) == desk.kind = "appkit" /\ PollVerdict(a, "")

-----------------------------------------------------------------------------
(***************************************************************************)
(* The handler of a request, on the server's thread.                       *)
(***************************************************************************)
Final(outcome) == outcome \in {"denied", "dismissed"}
PasswordsSent(a) == Cardinality({i \in DOMAIN ask[a].heard : ask[a].heard[i] = "password"})

Fed(p, feedback) == IF p.feedback = "empty" THEN [p EXCEPT !.feedback = feedback] ELSE p

Verdict(a) ==
    /\ ask[a].listening
    /\ ask[a].verdicts < PasswordsSent(a)
    /\ \/ /\ ask[a].verdicts + 1 < MaxTries
          /\ ask' = [ask EXCEPT ![a] = [@ EXCEPT !.verdicts = ask[a].verdicts + 1]]
          /\ panel' = [panel EXCEPT ![a] = Fed(panel[a], "incorrect")]
       \/ /\ ask' = [ask EXCEPT ![a] = [@ EXCEPT !.verdicts = ask[a].verdicts + 1,
                                                 !.listening = FALSE]]
          /\ panel' = [panel EXCEPT ![a] = Fed(panel[a], "complete")]
    /\ UNCHANGED <<desk, gui, asked, serving>>

(***************************************************************************)
(* It ends with a final outcome, or at any time when its client goes away. *)
(***************************************************************************)
HandlerEnds(a) ==
    /\ ask[a].listening
    /\ ask' = [ask EXCEPT ![a].listening = FALSE]
    /\ panel' = [panel EXCEPT ![a] = Fed(panel[a], "closed")]
    /\ UNCHANGED <<desk, gui, asked, serving>>

ServerEnds ==
    /\ serving
    /\ serving' = FALSE
    /\ ask' = [a \in Asks |-> [ask[a] EXCEPT !.listening = FALSE]]
    /\ panel' = [a \in Asks |-> Fed(panel[a], "closed")]
    /\ UNCHANGED <<desk, gui, asked>>

(***************************************************************************)
(* The dispatcher ends after the server, when no window is left.  Qt's     *)
(* main loop may be ended by the session too: deny_all dismisses what is   *)
(* there, and the windows go with the engine.                              *)
(***************************************************************************)
AllClosed == \A a \in Asks : ~panel[a].sender /\ panel[a].at \in {"none", "closed"}

DispatcherEnds ==
    /\ gui.at = "running" /\ GuiThread /\ gui.current.id = NoAsk
    /\ ~serving /\ asked = <<>>
    /\ AllClosed
    /\ gui' = [gui EXCEPT !.at = "ended"]
    /\ UNCHANGED <<desk, ask, panel, asked, serving>>

QuitQt ==
    /\ gui.at = "running" /\ GuiThread /\ gui.current.id = NoAsk
    /\ desk.kind = "qt"
    /\ gui' = [gui EXCEPT !.at = "ended"]
    /\ ask' = [a \in Asks |->
                  IF panel[a].sender \/ ask[a].at = "queued" THEN Dismissed(a) ELSE ask[a]]
    /\ panel' = [a \in Asks |->
                    IF panel[a].at = "shown"
                    THEN [Closing(panel[a]) EXCEPT !.at = "closed", !.enabled = FALSE, !.text = ""]
                    ELSE panel[a]]
    /\ asked' = <<>>
    /\ UNCHANGED <<desk, serving>>

InitWindows ==
    /\ desk \in Desks
    /\ \E wanted \in Wanted :
           ask = [a \in Asks |-> [at |-> "new", display |-> wanted[a].display,
                                  scope |-> wanted[a].scope, listening |-> FALSE,
                                  heard |-> <<>>, verdicts |-> 0]]
    /\ panel = [a \in Asks |-> NoPanel]
    /\ gui = [at |-> "running", closing |-> NoAsk, current |-> NoCurrent]
    /\ asked = <<>>
    /\ serving = TRUE

UserActs(a) ==
    \/ Type(a) \/ RefuseAccess(a) \/ CloseByManager(a)
    \/ SubmitGtkPassword(a) \/ SubmitQtPassword(a) \/ SubmitAppKitPassword(a)

NextWindows ==
    \/ \E a \in Asks :
           \/ DispatchPrompt(a) \/ UserActs(a) \/ OnClosing(a)
           \/ PollGtk(a) \/ PollQt(a) \/ PollAppKit(a)
           \/ Verdict(a) \/ HandlerEnds(a)
    \/ PresentGtk \/ PresentAppKit \/ PollPrompt \/ CreateWindow \/ DenyAll
    \/ ServerEnds \/ DispatcherEnds \/ QuitQt

WindowsSpec == InitWindows /\ [][NextWindows]_windowVars

-----------------------------------------------------------------------------
(***************************************************************************)
(* A window names the application and the access scope of its own request, *)
(* with one of its own icons or a generic one (gui_auth.rs:721-749,        *)
(* 1783-1806).                                                             *)
(***************************************************************************)
ShowsRequest == \A a \in Asks : panel[a].at # "none" => panel[a].label \in Labels(a)

(***************************************************************************)
(* A handler hears passwords, none before its verdict on the last, and at  *)
(* most one final outcome, after which it hears nothing (gui_auth.rs:      *)
(* 575-632, 762-791, 1393-1518).                                           *)
(***************************************************************************)
OutcomesInOrder ==
    \A a \in Asks :
        /\ PasswordsSent(a) <= ask[a].verdicts + 1
        /\ \A i \in DOMAIN ask[a].heard : Final(ask[a].heard[i]) => i = Len(ask[a].heard)

(***************************************************************************)
(* Whoever waits can be answered: as long as the channel of a handler has  *)
(* a sender, the dispatcher runs, and the request is in its channel, or    *)
(* has a window or is about to get one.  Without a sender the handler      *)
(* reads the end of its channel (gui_auth.rs:82-98, 137, 721-760, 813-820).*)
(***************************************************************************)
WaitersCanBeAnswered ==
    \A a \in Asks :
        /\ ask[a].at = "queued" => gui.at = "running"
        /\ panel[a].sender =>
               gui.at = "running" /\ (panel[a].at = "shown" \/ a \in {gui.current.id, gui.closing})

(***************************************************************************)
(* No password stays in a window that is over, and a window whose request  *)
(* is being decided takes none; the error is shown only after a verdict    *)
(* (gui_auth.rs:602-604, 1144-1152, 1396-1410).                            *)
(***************************************************************************)
NothingLingers ==
    \A a \in Asks :
        /\ panel[a].at = "closed" => panel[a].text = "" /\ ~panel[a].sender
        /\ panel[a].feedback # "none" => panel[a].text = ""
        /\ panel[a].error => ask[a].verdicts > 0

(***************************************************************************)
(* The windows say what is asked, and what they hear reaches its handler.  *)
(***************************************************************************)
WindowsHonest == ShowsRequest /\ OutcomesInOrder /\ WaitersCanBeAnswered /\ NothingLingers
==============================================================================
