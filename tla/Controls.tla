------------------------------ MODULE Controls ------------------------------
(***************************************************************************)
(* The menus and dialogs that know of each other, and the stepper, whose   *)
(* text may be at odds with its value: frontend/src/ui/dropdown/,          *)
(* ui/modal/ and ui/stepper/.  An element that opens registers itself in   *)
(* an effect, after what opened it has been drawn: pending, until then.    *)
(***************************************************************************)
EXTENDS Integers, Sequences, FiniteSets, SequencesExt

CONSTANTS Dropdowns, Submenus, ParentOf,   \* each submenu's panel, a dropdown's or a submenu's
          Modals, AutoFocused, MaxOpened,  \* modals; those that focus a control of their own
          Low, High, Typed                 \* a stepper's bounds, and what may be typed

VARIABLES shown, pending,                  \* panels that are open; those whose effect hasn't run
          callbacks, closers, timers,      \* openDropdownCloseCallbacks, each panel's registry, hover timers
          latest,                          \* the panel opened last, unless it was closed or left
          stack, focus, before, strayed,   \* the modals; where the focus is, and was; a modal beneath another
                                           \* closed, or one that focused a control of its own
          opened,                          \* panels and modals opened so far
          value, text, editing,            \* the stepper's owner's value, its buffer; the field has the focus
          eachKey, meddled                 \* what kind it is; Escape changed the value

menuVars    == <<shown, pending, callbacks, closers, timers, latest>>
modalVars   == <<stack, focus, before, strayed>>
stepperVars == <<value, text, editing, eachKey, meddled>>
controlVars == <<menuVars, modalVars, opened, stepperVars>>

Panels == Dropdowns \union Submenus
Page == "page"

Above(p) ==
  LET above[q \in Panels] == IF q \in Submenus THEN {ParentOf[q]} \union above[ParentOf[q]] ELSE {} IN above[p]

\* What goes from the page with these: what is open in them, too.
WithInside(set) == {p \in Panels : p \in set \/ Above(p) \intersect set # {}}

(***************************************************************************)
(* Menus.                                                                  *)
(***************************************************************************)
\* The panels of set close: their effects end, which unregisters them.
Closing(set, calls, regs) ==
  LET gone == WithInside(set) IN
  /\ shown' = shown \ gone /\ pending' = pending \ gone
  /\ timers' = timers \ (gone \ set)
  /\ callbacks' = calls \ gone
  /\ closers' = [p \in Panels |-> regs[p] \ gone]

Close(set) ==
  /\ Closing(set, callbacks, closers)
  /\ latest' = IF latest \in WithInside(set) THEN Page ELSE latest

\* A panel is there to be clicked if all it is in are open and no modal covers it.
Reachable(p) == Above(p) \subseteq shown /\ stack = <<>>

OpenPanel(p) ==
  /\ opened < MaxOpened /\ opened' = opened + 1
  /\ shown' = shown \union {p} /\ pending' = pending \union {p} /\ latest' = p
  /\ UNCHANGED <<callbacks, closers>>

\* The trigger of a dropdown: its mousedown isn't heard by the others.
Toggle(d) ==
  /\ d \in Dropdowns /\ Reachable(d)
  /\ IF d \in shown THEN Close({d}) /\ UNCHANGED opened
     ELSE OpenPanel(d) /\ UNCHANGED timers
  /\ UNCHANGED <<modalVars, stepperVars>>

\* The pointer or the focus comes to a submenu's row, and goes.
Hover(s) ==
  /\ s \in Submenus /\ Reachable(s) /\ s \notin shown \union timers
  /\ timers' = timers \union {s}
  /\ UNCHANGED <<shown, pending, callbacks, closers, latest, opened, modalVars, stepperVars>>

Leave(s) ==
  /\ s \in timers /\ timers' = timers \ {s}
  /\ UNCHANGED <<shown, pending, callbacks, closers, latest, opened, modalVars, stepperVars>>

HoverOpens(s) ==
  /\ s \in timers /\ timers' = timers \ {s}
  /\ IF s \in shown THEN UNCHANGED <<shown, pending, callbacks, closers, latest, opened>> ELSE OpenPanel(s)
  /\ UNCHANGED <<modalVars, stepperVars>>

\* A click on the row only ever opens.
ClickSubmenu(s) ==
  /\ s \in Submenus /\ Reachable(s) /\ s \notin shown
  /\ timers' = timers \ {s} /\ OpenPanel(s)
  /\ UNCHANGED <<modalVars, stepperVars>>

\* Mutant: a submenu closes every other one, those it is in among them.
Everywhere(s) == UNION {closers[p] : p \in Panels}

Siblings(s) == closers[ParentOf[s]]

\* The effect of an open panel: the others at its level close, and it registers.
RegisterDropdown(d) ==
  /\ d \in pending \intersect Dropdowns
  /\ LET gone == WithInside(callbacks) IN
     /\ shown' = shown \ gone /\ pending' = pending \ (gone \union {d}) /\ timers' = timers \ gone
     /\ callbacks' = {d} /\ closers' = [p \in Panels |-> closers[p] \ gone]
     /\ latest' = IF latest \in gone /\ latest # d THEN Page ELSE latest
  /\ UNCHANGED <<opened, modalVars, stepperVars>>

RegisterSubmenu(s) ==
  /\ s \in pending \intersect Submenus
  /\ LET gone == WithInside(Siblings(s)) IN
     /\ shown' = shown \ gone /\ pending' = pending \ (gone \union {s}) /\ timers' = timers \ (gone \ Siblings(s))
     /\ callbacks' = callbacks \ gone
     /\ closers' = [p \in Panels |-> IF p = ParentOf[s] THEN {s} ELSE closers[p] \ gone]
     /\ latest' = IF latest \in gone THEN (IF latest \in WithInside({s}) THEN latest ELSE s) ELSE latest
  /\ UNCHANGED <<opened, modalVars, stepperVars>>

\* A click outside, or on a row that closes its menu.
ClickAway ==
  /\ shown # {} /\ Close(shown \intersect Dropdowns)
  /\ UNCHANGED <<opened, modalVars, stepperVars>>

ClickRow(p) ==
  /\ p \in shown /\ stack = <<>> /\ Close({p})
  /\ UNCHANGED <<opened, modalVars, stepperVars>>

(***************************************************************************)
(* Modals.                                                                 *)
(***************************************************************************)
\* A modal is opened, and takes the focus.  What had it is read after a control that
\* is focused by itself has taken it.
OpenModal(m) ==
  /\ m \notin ToSet(stack) /\ opened < MaxOpened /\ opened' = opened + 1
  /\ stack' = Append(stack, m)
  /\ before' = [before EXCEPT ![m] = IF m \in AutoFocused THEN m ELSE focus]
  /\ focus' = m
  /\ UNCHANGED <<strayed, menuVars, stepperVars>>

\* Mutant: the focus goes to the page.
FocusPage(m) == Page

\* What had the focus gets it back, if it is still there.
FocusBefore(m) ==
  IF before[m] \in {Page} \union (ToSet(stack) \ {m}) THEN before[m]
  ELSE IF focus = m THEN Page ELSE focus

CloseModal(m) ==
  /\ m \in ToSet(stack) /\ stack' = SelectSeq(stack, LAMBDA x : x # m)
  /\ focus' = FocusBefore(m)
  /\ strayed' = (stack' # <<>> /\ (strayed \/ m # Last(stack) \/ m \in AutoFocused))
  /\ UNCHANGED <<before, menuVars, opened, stepperVars>>

Active == Last(stack)

\* Escape is the topmost modal's; the menus get it when there is none.
Escape ==
  IF stack # <<>> THEN CloseModal(Active)
  ELSE shown # {} /\ Close(shown \intersect Dropdowns) /\ UNCHANGED <<modalVars, opened, stepperVars>>

(***************************************************************************)
(* The steppers: NumberStepper commits each keystroke (eachKey), Stepper   *)
(* when the field is left.  The text is NoText while nothing is edited.    *)
(***************************************************************************)
NoText == -99
NotANumber == -98     \* a lone minus, or nothing

Clamp(n) == IF n < Low THEN Low ELSE IF n > High THEN High ELSE n

Committed(t) == IF t = NotANumber THEN value ELSE Clamp(t)

FocusInput ==
  /\ ~editing /\ editing' = TRUE
  /\ UNCHANGED <<value, text, eachKey, meddled, menuVars, modalVars, opened>>

TypeIn(t) ==
  /\ editing /\ text' = t /\ value' = IF eachKey THEN Committed(t) ELSE value
  /\ UNCHANGED <<editing, eachKey, meddled, menuVars, modalVars, opened>>

\* Mutant: leaving the field commits it whatever it was left by.
BlurCommits(skip) == IF text = NoText THEN value ELSE Committed(text)

Blurred(skip) == IF skip \/ text = NoText THEN value ELSE Committed(text)

\* The text the blur reads is the one drawn last, which Escape's reset isn't yet: hence skip.
LeaveField(skip) == editing' = FALSE /\ value' = Blurred(skip) /\ text' = NoText

\* Enter, or a click elsewhere.
Blur ==
  /\ editing /\ LeaveField(FALSE)
  /\ UNCHANGED <<eachKey, meddled, menuVars, modalVars, opened>>

EscapeField ==
  /\ editing /\ LeaveField(TRUE)
  /\ meddled' = (value' # value)
  /\ UNCHANGED <<eachKey, menuVars, modalVars, opened>>

\* Minus and plus, from the value.  A click on Stepper's leaves the focus in the
\* field; one on NumberStepper's comes after its blur.
StepBy(sign) ==
  /\ ~editing \/ ~eachKey
  /\ Clamp(value + sign) # value /\ value' = Clamp(value + sign)
  /\ UNCHANGED <<text, editing, eachKey, meddled, menuVars, modalVars, opened>>

\* The owner's value changes by itself.
OwnerSets(n) ==
  /\ n # value /\ value' = n
  /\ UNCHANGED <<text, editing, eachKey, meddled, menuVars, modalVars, opened>>

(***************************************************************************)
ControlInit ==
  /\ shown = {} /\ pending = {} /\ callbacks = {} /\ closers = [p \in Panels |-> {}] /\ timers = {}
  /\ latest = Page
  /\ stack = <<>> /\ focus = Page /\ before = [m \in Modals |-> Page] /\ strayed = FALSE
  /\ opened = 0
  /\ value = Low /\ text = NoText /\ editing = FALSE /\ eachKey \in BOOLEAN /\ meddled = FALSE

MenusNext ==
  \/ \E p \in Panels : \/ Toggle(p) \/ Hover(p) \/ Leave(p) \/ HoverOpens(p) \/ ClickSubmenu(p)
                       \/ RegisterDropdown(p) \/ RegisterSubmenu(p) \/ ClickRow(p)
  \/ \E m \in Modals : OpenModal(m) \/ CloseModal(m)
  \/ ClickAway \/ Escape

StepperNext ==
  \/ FocusInput \/ Blur \/ EscapeField
  \/ \E t \in Typed \union {NotANumber} : TypeIn(t)
  \/ \E sign \in {-1, 1} : StepBy(sign)
  \/ \E n \in Low..High : OwnerSets(n)

\* The menus and dialogs know nothing of the steppers' kind.
NumbersOnly == eachKey

ControlNext == MenusNext \/ StepperNext
ControlSpec == ControlInit /\ [][ControlNext]_controlVars

(***************************************************************************)
(* Properties                                                              *)
(***************************************************************************)
ControlTypes ==
  /\ shown \subseteq Panels /\ pending \subseteq shown /\ timers \subseteq Submenus
  /\ focus \in {Page} \union Modals /\ value \in Low..High

\* Once the effects have run, one dropdown is open at most, and in each panel one
\* submenu; each is registered as long as it is open, and no submenu is open, or
\* about to open, in a panel that isn't.
OneOpen ==
  /\ pending = {} =>
       /\ Cardinality(shown \intersect Dropdowns) <= 1
       /\ callbacks = shown \intersect Dropdowns
       /\ \A p \in Panels : closers[p] = {s \in shown \intersect Submenus : ParentOf[s] = p} /\ Cardinality(closers[p]) <= 1
  /\ \A s \in shown \union timers : Above(s) \subseteq shown

\* What was opened last stays open until the user closes it or opens another:
\* a submenu that opens doesn't close those it is in.
StaysOpen == latest # Page => latest \in shown

\* The focus is in the topmost dialog, and back on the page once all are closed.
FocusInTop == ~strayed => focus = IF stack = <<>> THEN Page ELSE Last(stack)

\* Escape leaves the value as it is, whatever is in the field; and a field that has
\* been left, by whatever way, shows the value.
FieldRight == ~meddled /\ (text # NoText => editing)

ControlRight == OneOpen /\ StaysOpen /\ FocusInTop /\ FieldRight
=============================================================================
