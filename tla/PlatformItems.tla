---------------------------- MODULE PlatformItems ----------------------------
(***************************************************************************)
(* The items of the user's applications, which the platform server reads    *)
(* and changes for agents: events, reminders, contacts and notes.  A call   *)
(* passes the constraints of the calendar permission, travels over the      *)
(* socket of the server and is served when the actor of its kind has time;  *)
(* the adapter may have given up by then.  Whoever created an item is       *)
(* offered its removal, as a rollback the executor keeps.                   *)
(*                                                                          *)
(* Meanwhile the user works with the same applications, and their           *)
(* synchronisation gives an item a new identifier.                          *)
(***************************************************************************)
EXTENDS Naturals, FiniteSets

CONSTANTS
  Call,       \* calls of agents, one after the other
  Id,         \* identifiers of items, none of them used twice
  Title,      \* titles and names; NoTitle is the empty one
  NoTitle,
  Calendar,   \* the user's calendars
  Default,    \* the one new events go to
  Named,      \* what a call may name as its calendar
  Allowed,    \* allowed_calendars
  MaxEdits    \* what the user and the synchronisation do

ASSUME ItemsAssumption ==
  Call \subseteq Nat /\ Id \subseteq Nat /\ MaxEdits \in Nat /\ Default \in Calendar

VARIABLES
  items,   \* what has each identifier
  calls,
  undo,    \* the rollbacks the executor can still run: call and identifier
  shown,   \* the items in the last answer of a reading
  edits

itemVars == <<items, calls, undo, shown, edits>>

Kind == {"event", "reminder", "contact", "note"}

\* An item is there as long as it has a day; a series has two.
Gone == [kind |-> "none", title |-> NoTitle, cal |-> Default, days |-> {}, by |-> 0, done |-> FALSE]
There(i) == items[i].days # {}
Of(kind) == {i \in Id : There(i) /\ items[i].kind = kind}
Unused == {i \in Id : items[i].kind = "none"}
\* The identifier the next item gets.
Fresh(i) == i \in Unused /\ \A j \in Unused : i <= j

Asks(kind, op, id, title, cal, all) ==
  [op : op, kind : {kind}, id : id, title : title, cal : cal, all : all]
AnyTitle == Title \cup {NoTitle}
EventRequest ==
  Asks("event", {"create"}, {0}, AnyTitle, Named, BOOLEAN)
    \cup Asks("event", {"update", "delete"}, Id, AnyTitle, Named, BOOLEAN)
    \cup Asks("event", {"list"}, {0}, {NoTitle}, Named, {FALSE})
    \cup Asks("event", {"search"}, {0}, Title, Named, {FALSE})
ReminderRequest ==
  Asks("reminder", {"create"}, {0}, AnyTitle, {NoTitle}, {FALSE})
    \cup Asks("reminder", {"update", "delete"}, Id, AnyTitle, {NoTitle}, {FALSE})
    \cup Asks("reminder", {"complete"}, Id, {NoTitle}, {NoTitle}, BOOLEAN)
    \cup Asks("reminder", {"list"}, {0}, {NoTitle}, {NoTitle}, BOOLEAN)
ContactRequest ==
  Asks("contact", {"create", "search"}, {0}, AnyTitle, {NoTitle}, {FALSE})
    \cup Asks("contact", {"update", "delete", "get"}, Id, AnyTitle, {NoTitle}, {FALSE})
NoteRequest ==
  Asks("note", {"create", "delete", "read"}, {0}, AnyTitle, {NoTitle}, {FALSE})
    \cup Asks("note", {"list"}, {0}, {NoTitle}, {NoTitle}, {FALSE})
Request == EventRequest \cup ReminderRequest \cup ContactRequest \cup NoteRequest

NoUndo == [of |-> 0, kind |-> "none", id |-> 0]
Free == [at |-> "free", undo |-> NoUndo]
Over == [at |-> "over", undo |-> NoUndo]

ItemsInit ==
  /\ items = [i \in Id |-> Gone] /\ undo = {} /\ shown = {} /\ edits = 0
  /\ calls = [n \in Call |-> Free]

ItemRec == [kind : Kind \cup {"none"}, title : AnyTitle, cal : Calendar, days : SUBSET {1, 2},
            by : {0} \cup Call, done : BOOLEAN]
UndoRec == [of : Call, kind : Kind, id : Id]

PlatformTypeOK ==
  /\ items \in [Id -> ItemRec]
  /\ calls \in [Call -> [at : {"free", "sent", "late", "over"}, undo : {NoUndo} \cup UndoRec]]
  /\ undo \subseteq UndoRec /\ shown \subseteq Id /\ edits \in 0..MaxEdits

-------------------------------------------------------------------------------
(* The permission and the adapter *)

\* enforce_constraints of the calendar bundle: a calendar is named, and it is allowed.
PassesConstraints(ask) == ask.kind = "event" => ask.cal \in Allowed

\* The runtime lets one intent run at a time; an earlier call may still be at the server.
MaySubmit(n) == calls[n] = Free /\ \A m \in Call : calls[m].at # "sent" /\ (m < n => calls[m] # Free)

\* The adapter posts a request to the server.  What it asks for is chosen when it
\* is served: nothing before depends on it.
Submit(n) ==
  /\ MaySubmit(n)
  /\ calls' = [calls EXCEPT ![n].at = "sent"]
  /\ UNCHANGED <<items, undo, shown, edits>>

\* handle_rollback, for a rollback that is available: it is used up.
SubmitUndo(n) ==
  /\ MaySubmit(n)
  /\ \E u \in undo : calls' = [calls EXCEPT ![n] = [at |-> "sent", undo |-> u]] /\ undo' = undo \ {u}
  /\ UNCHANGED <<items, shown, edits>>

\* The client's timeout, before the server has come to the request or before its
\* answer arrives: the same, since only the answer is lost.
GiveUp(n) ==
  /\ calls[n].at = "sent"
  /\ calls' = [calls EXCEPT ![n].at = "late"]
  /\ UNCHANGED <<items, undo, shown, edits>>

-------------------------------------------------------------------------------
(* The server: one actor for each kind of items *)

\* The answer, which nobody waits for when it is late.
Answers(n) == calls' = [calls EXCEPT ![n] = Over] /\ shown' = {}

AtServer(n) == calls[n].at \in {"sent", "late"}
Asked(n, op, kind) ==
  IF AtServer(n) /\ calls[n].undo = NoUndo
  THEN {ask \in Request : ask.op \in op /\ ask.kind = kind /\ PassesConstraints(ask)} ELSE {}
Undoes(n, kind) == AtServer(n) /\ calls[n].undo.kind \in kind

\* Access denied, nothing found, an invalid request, a server that is down or a
\* store that refuses to save.
Fails(n) ==
  /\ AtServer(n) /\ Answers(n)
  /\ UNCHANGED <<items, undo, edits>>

Shows(n, ids) ==
  /\ calls' = [calls EXCEPT ![n] = Over]
  /\ shown' = ids
  /\ UNCHANGED <<items, undo, edits>>

\* A new item of call n; an answer in time offers its rollback, and so it is kept.
Adds(n, ask, cal, days) ==
  /\ ask.title # NoTitle
  /\ \E i \in Id :
       /\ Fresh(i)
       /\ items' = [items EXCEPT ![i] = [kind |-> ask.kind, title |-> ask.title, cal |-> cal,
                                         days |-> days, by |-> n, done |-> FALSE]]
       /\ undo' = IF calls[n].at = "late" THEN undo
                  ELSE undo \cup {[of |-> n, kind |-> ask.kind, id |-> i]}
  /\ Answers(n) /\ UNCHANGED edits

Removes(n, i, days) ==
  /\ items' = [items EXCEPT ![i].days = @ \ days]
  /\ Answers(n) /\ UNCHANGED <<undo, edits>>

Retitles(n, i, title) ==
  /\ items' = [items EXCEPT ![i].title = title]
  /\ Answers(n) /\ UNCHANGED <<undo, edits>>

\* createEvent: in the calendar of that name, or in the default one.
CreateEvent(n) ==
  \E ask \in Asked(n, {"create"}, "event") :
    Adds(n, ask, IF ask.cal \in Calendar THEN ask.cal ELSE Default, IF ask.all THEN {1, 2} ELSE {1})

\* updateEvent: by its identifier; an empty title leaves the title.
UpdateEvent(n) ==
  \E ask \in Asked(n, {"update"}, "event") :
    /\ ask.id \in Of("event")
    /\ Retitles(n, ask.id, IF ask.title = NoTitle THEN items[ask.id].title ELSE ask.title)

\* The days of event i that go: all that are left, or the first.
Span(i, all) == IF all THEN items[i].days ELSE {CHOOSE d \in items[i].days : \A e \in items[i].days : d <= e}

\* deleteEvent: by its identifier; if that is not found, some day of some event
\* with the title.
DeleteEvent(n) ==
  \E ask \in Asked(n, {"delete"}, "event") :
    IF ask.id \in Of("event") THEN Removes(n, ask.id, Span(ask.id, ask.all))
    ELSE \E i \in {j \in Of("event") : items[j].title = ask.title} :
           \E d \in items[i].days : Removes(n, i, {d})

\* listEvents: of the calendar that is named, if there is one.
ListEvents(n) ==
  \E ask \in Asked(n, {"list"}, "event") :
    /\ ask.cal \in Calendar
    /\ Shows(n, {i \in Of("event") : items[i].cal = ask.cal})

\* searchEvents: in every calendar.
SearchEvents(n) ==
  \E ask \in Asked(n, {"search"}, "event") : Shows(n, {i \in Of("event") : items[i].title = ask.title})

\* listReminders: with or without those that are completed.
ListReminders(n) ==
  \E ask \in Asked(n, {"list"}, "reminder") : Shows(n, {i \in Of("reminder") : ask.all \/ ~items[i].done})

\* createReminder: on the list of that name or the default one.
CreateReminder(n) == \E ask \in Asked(n, {"create"}, "reminder") : Adds(n, ask, Default, {1})

\* completeReminder: by its identifier, never by the title.
CompleteReminder(n) ==
  \E ask \in Asked(n, {"complete"}, "reminder") :
    /\ ask.id \in Of("reminder")
    /\ items' = [items EXCEPT ![ask.id].done = ~ask.all]
    /\ Answers(n) /\ UNCHANGED <<undo, edits>>

UpdateReminder(n) ==
  \E ask \in Asked(n, {"update"}, "reminder") :
    /\ ask.id \in Of("reminder")
    /\ Retitles(n, ask.id, IF ask.title = NoTitle THEN items[ask.id].title ELSE ask.title)

DeleteReminder(n) ==
  \E ask \in Asked(n, {"delete"}, "reminder") : ask.id \in Of("reminder") /\ Removes(n, ask.id, {1})

SearchContacts(n) ==
  \E ask \in Asked(n, {"search"}, "contact") :
    ask.title # NoTitle /\ Shows(n, {i \in Of("contact") : items[i].title = ask.title})

\* getContact: by the identifier; if that is not found, some contact of the name.
GetContact(n) ==
  \E ask \in Asked(n, {"get"}, "contact") :
    IF ask.id \in Of("contact") THEN Shows(n, {ask.id})
    ELSE \E i \in {j \in Of("contact") : items[j].title = ask.title} : Shows(n, {i})

\* addContact: a person or an organisation has a name.
AddContact(n) == \E ask \in Asked(n, {"create"}, "contact") : Adds(n, ask, Default, {1})

\* updateContact: every field that is sent, an empty one too.
UpdateContact(n) ==
  \E ask \in Asked(n, {"update"}, "contact") : ask.id \in Of("contact") /\ Retitles(n, ask.id, ask.title)

DeleteContact(n) ==
  \E ask \in Asked(n, {"delete"}, "contact") : ask.id \in Of("contact") /\ Removes(n, ask.id, {1})

ListNotes(n) == \E ask \in Asked(n, {"list"}, "note") : Shows(n, Of("note"))

\* readNote: some note of that title.
ReadNote(n) ==
  \E ask \in Asked(n, {"read"}, "note") :
    ask.title # NoTitle /\ \E i \in {j \in Of("note") : items[j].title = ask.title} : Shows(n, {i})

CreateNote(n) == \E ask \in Asked(n, {"create"}, "note") : Adds(n, ask, Default, {1})

\* deleteNote: the first note of that title, whichever it is.
DeleteNote(n) ==
  \E ask \in Asked(n, {"delete"}, "note") :
    /\ ask.title # NoTitle
    /\ \E i \in {j \in Of("note") : items[j].title = ask.title} : Removes(n, i, {1})

\* Mutant: an identifier that is not found is looked for by what it used to name.
UndoNamesake(n) ==
  /\ Undoes(n, {"event"})
  /\ \E i \in Of("event") :
       /\ i = calls[n].undo.id \/ items[i].title = items[calls[n].undo.id].title
       /\ Removes(n, i, Span(i, FALSE))

\* rollback of an event: the first day of what has the identifier.
UndoEvent(n) ==
  /\ Undoes(n, {"event"})
  /\ LET i == calls[n].undo.id IN i \in Of("event") /\ Removes(n, i, Span(i, FALSE))

\* ... of a reminder or a contact.  A note is offered a rollback, and has none.
UndoItem(n) ==
  /\ Undoes(n, {"reminder", "contact"})
  /\ LET i == calls[n].undo.id IN i \in Of(calls[n].undo.kind) /\ Removes(n, i, {1})

-------------------------------------------------------------------------------
(* The user *)

\* The user makes an item, an event in any calendar.
UserAdds ==
  /\ edits < MaxEdits /\ edits' = edits + 1
  /\ \E i \in Id, kind \in Kind, title \in Title, cal \in Calendar :
       /\ Fresh(i)
       /\ kind # "event" => cal = Default
       /\ items' = [items EXCEPT ![i] = [kind |-> kind, title |-> title, cal |-> cal,
                                         days |-> {1}, by |-> 0, done |-> FALSE]]
  /\ UNCHANGED <<calls, undo, shown>>

UserDeletes ==
  /\ edits < MaxEdits /\ edits' = edits + 1
  /\ \E i \in Id : There(i) /\ items' = [items EXCEPT ![i].days = {}]
  /\ UNCHANGED <<calls, undo, shown>>

\* The synchronisation of an event with its server gives it another identifier.
Resync ==
  /\ edits < MaxEdits /\ edits' = edits + 1
  /\ \E i \in Of("event"), j \in Id :
       Fresh(j) /\ items' = [items EXCEPT ![j] = items[i], ![i] = [items[i] EXCEPT !.days = {}]]
  /\ UNCHANGED <<calls, undo, shown>>

ServeEvents(n) ==
  CreateEvent(n) \/ UpdateEvent(n) \/ DeleteEvent(n) \/ ListEvents(n) \/ SearchEvents(n) \/ UndoEvent(n)
ServeReminders(n) ==
  CreateReminder(n) \/ CompleteReminder(n) \/ UpdateReminder(n) \/ DeleteReminder(n) \/ ListReminders(n)
ServeContacts(n) ==
  AddContact(n) \/ UpdateContact(n) \/ DeleteContact(n) \/ SearchContacts(n) \/ GetContact(n)
ServeNotes(n) == CreateNote(n) \/ DeleteNote(n) \/ ListNotes(n) \/ ReadNote(n)
Serve(n) ==
  ServeEvents(n) \/ ServeReminders(n) \/ ServeContacts(n) \/ ServeNotes(n) \/ UndoItem(n) \/ Fails(n)

ItemsNext ==
  \/ \E n \in Call : Submit(n) \/ SubmitUndo(n) \/ GiveUp(n) \/ Serve(n)
  \/ UserAdds \/ UserDeletes \/ Resync

ItemsSpec == ItemsInit /\ [][ItemsNext]_itemVars

-------------------------------------------------------------------------------
(* Properties *)

\* A rollback takes nothing but what the call it is for has made, whatever that is
\* called by then, and leaves nothing of it but the rest of a series.
UndoTakesItsOwn ==
  [][\A n \in Call :
       calls[n].undo # NoUndo /\ calls'[n] = Over =>
         \A i \in Id : items'[i] # items[i] =>
           /\ items[i].by = calls[n].undo.of
           /\ items'[i].days = {} \/ items[i].days = {1, 2}]_itemVars

\* "Optionally restrict to specific calendars using allowed_calendars", with "any
\* calendar action": no call makes, changes, removes or shows an event in another
\* calendar.
OnlyAllowedCalendars ==
  [][\A n \in Call :
       AtServer(n) /\ calls[n].undo = NoUndo /\ calls'[n] = Over =>
         \A i \in Id :
           (items'[i] # items[i] \/ i \in shown') /\ items'[i].kind = "event" => items'[i].cal \in Allowed]_itemVars
===============================================================================
