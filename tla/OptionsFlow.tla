---------------------------- MODULE OptionsFlow ----------------------------
(***************************************************************************)
(* The rooms of Smart Auto, from the dialogs in which the user edits them  *)
(* (config_flow.py PassiveLinkOptionsFlow) to the options of the entry.    *)
(*                                                                         *)
(* A dialog works on a copy of the rooms made when it was opened and       *)
(* replaces all options when it is finished.  Several dialogs may be open  *)
(* at once, in several browsers, and any of them may be closed on any      *)
(* page.  A probe of the gateway or of the Pi may fail and leaves the      *)
(* dialog where it is.  Other options travel with the rooms and are not    *)
(* modelled one by one; a room is its name.  A dialog strips a typed name  *)
(* and then cuts it, which may leave a space at its end; the next dialog   *)
(* strips that when it loads the room.                                     *)
(***************************************************************************)
EXTENDS Naturals, SequencesExt

CONSTANTS
    Dialogs,        \* option flows that may be open at once
    Names,          \* names of rooms, and what is left of them
    Strip(_),       \* name.strip()
    Cut(_),         \* name[:64]
    Fold(_),        \* casefold()
    MaxRooms,       \* MAX_SMART_ROOMS
    MaxOpened       \* bound on dialogs opened

ASSUME RoomAssumption ==
    /\ \A n \in Names :
          /\ Cut(n) \in Names /\ Cut(Cut(n)) = Cut(n)
          /\ Strip(n) \in Names /\ Strip(Strip(n)) = Strip(n)
          /\ Cut(n) = n => Cut(Strip(n)) = Strip(n)
    /\ MaxRooms \in Nat /\ MaxOpened \in Nat

VARIABLES
    options,        \* the rooms in the entry's options
    page,           \* the page every dialog is on
    rooms,          \* _rooms of every dialog
    smart,          \* _pending[CONF_SMART_ROOMS_ENABLED] of every dialog
    selected,       \* _selected_room, 0 for none
    untouched,      \* (history) names the dialog was opened with and its user left alone
    opened          \* dialogs opened so far

dialog == <<page, rooms, smart, selected, untouched>>
flowVars == <<options, dialog, opened>>

RoomLists == SeqOf(Names, MaxRooms)
Stripped(list) == {Strip(list[i]) : i \in DOMAIN list}

\* _load_rooms: at most MAX_SMART_ROOMS, names stripped and cut.
LoadRooms_OffByOne(list) ==
    [i \in 1..Min({Len(list), MaxRooms - 1}) |-> Cut(Strip(list[i]))]
LoadRooms(list) == [i \in 1..Min({Len(list), MaxRooms}) |-> Cut(Strip(list[i]))]

\* The integration is started with rooms saved earlier, none of them shortened.
FlowInit ==
    /\ options \in {l \in RoomLists :
                        /\ \A i \in DOMAIN l : Strip(l[i]) = l[i] /\ Cut(l[i]) = l[i]
                        /\ \A i, j \in DOMAIN l : i # j => Fold(l[i]) # Fold(l[j])}
    /\ page = [d \in Dialogs |-> "closed"]
    /\ rooms = [d \in Dialogs |-> <<>>]
    /\ smart = [d \in Dialogs |-> FALSE]
    /\ selected = [d \in Dialogs |-> 0]
    /\ untouched = [d \in Dialogs |-> {}]
    /\ opened = 0

\* The dialog goes on to another page and changes nothing else.
GoTo(d, p) ==
    /\ page' = [page EXCEPT ![d] = p]
    /\ UNCHANGED <<options, rooms, smart, selected, untouched, opened>>

\* The user opens the dialog (__init__, first page), or closes it on any page.
Open(d) ==
    /\ page[d] = "closed" /\ opened < MaxOpened
    /\ page' = [page EXCEPT ![d] = "init"]
    /\ rooms' = [rooms EXCEPT ![d] = LoadRooms(options)]
    /\ smart' = [smart EXCEPT ![d] = FALSE]
    /\ selected' = [selected EXCEPT ![d] = 0]
    /\ untouched' = [untouched EXCEPT ![d] = Stripped(options)]
    /\ opened' = opened + 1
    /\ UNCHANGED <<options>>

\* The flow's object is dropped.
Discard(d) ==
    /\ page' = [page EXCEPT ![d] = "closed"]
    /\ rooms' = [rooms EXCEPT ![d] = <<>>]
    /\ smart' = [smart EXCEPT ![d] = FALSE]
    /\ selected' = [selected EXCEPT ![d] = 0]
    /\ untouched' = [untouched EXCEPT ![d] = {}]

Close(d) ==
    /\ page[d] # "closed"
    /\ Discard(d)
    /\ UNCHANGED <<options, opened>>

\* async_create_entry: the options are replaced as a whole.
Replace(d) ==
    /\ options' = rooms[d]
    /\ Discard(d)
    /\ UNCHANGED opened

\* async_step_init: the gateway answers the probe; then the page of the API, or
\* the end if the API is off.
SubmitInit(d) ==
    /\ page[d] = "init"
    /\ \/ GoTo(d, "controller")
       \/ Replace(d)

\* async_step_controller: the Pi accepts the token.
SubmitController(d) ==
    /\ page[d] = "controller"
    /\ \E on \in BOOLEAN : smart' = [smart EXCEPT ![d] = on]
    /\ page' = [page EXCEPT ![d] = "controller_menu"]
    /\ UNCHANGED <<options, rooms, selected, untouched, opened>>

\* async_step_controller_menu and async_step_rooms_menu: what may be chosen.
ChooseInMenu(d) ==
    \/ /\ page[d] = "controller_menu" /\ smart[d]
       /\ GoTo(d, "rooms_menu")
    \/ /\ page[d] = "rooms_menu"
       /\ \/ Len(rooms[d]) < MaxRooms /\ GoTo(d, "add_room")
          \/ rooms[d] # <<>> /\ \E p \in {"edit_room", "remove_room"} : GoTo(d, p)
          \/ GoTo(d, "controller_menu")

\* _validate_room: a typed name is stripped.
Typed == {n \in Names : Strip(n) = n}

\* _validate_room: the name is not that of another room in the dialog.
Free_Exact(d, name, i) ==
    \A j \in DOMAIN rooms[d] \ {i} : rooms[d][j] # name
Free(d, name, i) ==
    \A j \in DOMAIN rooms[d] \ {i} : Fold(rooms[d][j]) # Fold(name)

\* _selected_room after a room was edited.
Deselected_Not(d) == selected[d]
Deselected(d) == 0

\* The list of rooms changes and the dialog returns to the menu of rooms.
Changed(d, list, gone) ==
    /\ rooms' = [rooms EXCEPT ![d] = list]
    /\ untouched' = [untouched EXCEPT ![d] = @ \ gone]
    /\ selected' = [selected EXCEPT ![d] = Deselected(d)]
    /\ page' = [page EXCEPT ![d] = "rooms_menu"]
    /\ UNCHANGED <<options, smart, opened>>

AddRoom(d) ==
    /\ page[d] = "add_room"
    /\ \E n \in Typed :
        /\ Free(d, n, 0)
        /\ Changed(d, Append(rooms[d], Cut(n)), {})

SelectRoom(d) ==
    /\ page[d] = "edit_room"
    /\ \E i \in DOMAIN rooms[d] : selected' = [selected EXCEPT ![d] = i]
    /\ page' = [page EXCEPT ![d] = "room_detail"]
    /\ UNCHANGED <<options, rooms, smart, untouched, opened>>

EditRoom(d) ==
    /\ page[d] = "room_detail"
    /\ \E n \in Typed :
        /\ Free(d, n, selected[d])
        /\ Changed(d, [rooms[d] EXCEPT ![selected[d]] = Cut(n)],
                      {Strip(rooms[d][selected[d]])} \ {Strip(Cut(n))})

RemoveRoom(d) ==
    /\ page[d] = "remove_room"
    /\ \E i \in DOMAIN rooms[d] : Changed(d, RemoveAt(rooms[d], i), {Strip(rooms[d][i])})

\* async_step_finish_controller.
Finish(d) ==
    /\ page[d] = "controller_menu"
    /\ Replace(d)

FlowNext ==
    \/ \E d \in Dialogs :
        Open(d) \/ Close(d) \/ SubmitInit(d) \/ SubmitController(d) \/ ChooseInMenu(d)
        \/ AddRoom(d) \/ SelectRoom(d) \/ EditRoom(d) \/ RemoveRoom(d) \/ Finish(d)

FlowSpec == FlowInit /\ [][FlowNext]_flowVars

-----------------------------------------------------------------------------
FlowTypeOK ==
    /\ options \in RoomLists
    /\ page \in [Dialogs -> {"closed", "init", "controller", "controller_menu", "rooms_menu",
                             "add_room", "edit_room", "room_detail", "remove_room"}]
    /\ rooms \in [Dialogs -> RoomLists]
    /\ smart \in [Dialogs -> BOOLEAN]
    /\ selected \in [Dialogs -> 0..MaxRooms] /\ \A d \in Dialogs : selected[d] <= Len(rooms[d])
    /\ untouched \in [Dialogs -> SUBSET Names]
    /\ opened \in 0..MaxOpened

\* No two rooms share a name, whatever the case of its letters and but for spaces at
\* its end, which the next dialog strips ("A Smart Auto room with this name already
\* exists", translations/en.json:210), unless it is what is left of a longer one: the
\* check compares the whole name, the room keeps a part (_validate_room).  A shared
\* name loses a room in the message to the Pi.
Same(m, n) == Fold(Strip(m)) = Fold(Strip(n))
Shortened(name) == \E n \in Typed : n # Cut(n) /\ Same(Cut(n), name)
RoomNamesAreUnique ==
    \A i, j \in DOMAIN options :
        i # j /\ Same(options[i], options[j]) => Shortened(options[i])

\* A room leaves the options only because the user removed or renamed it in the
\* dialog that is finished, or because it was saved after that dialog was opened,
\* whose copy then replaces it unseen (__init__, async_create_entry).
OnlyTheUserRemovesRooms ==
    [][ \A n \in Stripped(options) \ Stripped(options') :
          \E d \in Dialogs : /\ page[d] # "closed" /\ page'[d] = "closed"
                             /\ n \notin untouched[d] ]_flowVars

=============================================================================
