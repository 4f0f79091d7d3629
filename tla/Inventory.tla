------------------------------ MODULE Inventory -----------------------------
(***************************************************************************)
(* Student accommodation: unit types of one off-campus listing and their   *)
(* rooms (backend/app/listings/student_inventory.py).                      *)
(***************************************************************************)
EXTENDS Integers, Sessions

CONSTANTS
    UnitTypes,    \* identities of the rows of table unit_types
    RoomId,       \* identities of the rows of table rooms
    MaxBeds       \* bound: beds per room

ASSUME InventoryAssumption == MaxBeds \in Nat \ {0}

VARIABLES
    units,        \* table unit_types: "absent", or kind and beds_per_room
    rooms,        \* table rooms
    booking       \* the request each worker has open

inventoryVars == <<units, rooms, booking, overlap>>

Absent == [unit |-> "absent"]

Gender == {"FEMALE", "MALE", "ANY"}
Beds   == 1 .. MaxBeds
Unit   == [kind : {"SELF_CONTAIN", "SHARED"}, beds : Beds]
Room   == [unit : UnitTypes, tag : Gender, total : Int, available : Int]

RoomRequest ==
    {Idle} \cup [op : {"update_room"}, room : RoomId, seen : Room, new : Room]
           \cup [op : {"delete_unit_type"}, unit : UnitTypes]

InventoryInit ==
    /\ overlap \in Modes
    /\ units   = [u \in UnitTypes |-> Absent]
    /\ rooms   = [r \in RoomId |-> Absent]
    /\ booking = [w \in Workers |-> Idle]

Occupied(room) == room.available < room.total

\* ck_room_beds_available_range
InRange(room) == 0 <= room.available /\ room.available <= room.total

-----------------------------------------------------------------------------

AddUnitType ==
    \E u \in UnitTypes, unit \in Unit :
        /\ units[u] = Absent
        /\ units' = [units EXCEPT ![u] = unit]
        /\ UNCHANGED <<rooms, booking, overlap>>

\* A self-contained room is tagged ANY whatever was asked; a shared one needs a tag.
AddRoom ==
    \E u \in UnitTypes, r \in RoomId, tag \in Gender :
        /\ units[u] # Absent
        /\ rooms[r] = Absent
        /\ units[u].kind = "SHARED" => tag # "ANY"
        /\ rooms' = [rooms EXCEPT ![r] =
               [unit |-> u, tag |-> IF units[u].kind = "SELF_CONTAIN" THEN "ANY" ELSE tag,
                total |-> units[u].beds, available |-> units[u].beds]]
        /\ UNCHANGED <<units, booking, overlap>>

\* A new number of beds keeps the number of occupied ones.
WithTotal(room, beds) ==
    LET moved == room.available + beds - room.total
    IN  [room EXCEPT !.total = beds,
                     !.available = IF moved < 0 THEN 0 ELSE IF moved > beds THEN beds ELSE moved]

\* Fault: the tag may change while somebody sleeps there.
AnyTag(room, tag) == TRUE

MayTag(room, tag) == tag = room.tag \/ ~Occupied(room)

MayResize(room, beds) == Occupied(room) => beds >= room.total - room.available

\* The session of update_room: each field is optional, and left as it is when
\* it is not sent.
BeginUpdateRoom(w) ==
    \E r \in RoomId :
        /\ rooms[r] # Absent
        /\ booking[w] = Idle
        /\ MayStart(booking)
        /\ \E tag \in Gender, beds \in Beds, free \in 0 .. MaxBeds, give \in BOOLEAN :
              LET room  == rooms[r]
                  sized == WithTotal([room EXCEPT !.tag = tag], beds)
              IN  /\ MayTag(room, tag)
                  /\ MayResize(room, beds)
                  /\ give => free <= sized.total
                  /\ booking' = [booking EXCEPT ![w] =
                        [op |-> "update_room", room |-> r, seen |-> room,
                         new |-> IF give THEN [sized EXCEPT !.available = free] ELSE sized]]
        /\ UNCHANGED <<units, rooms, overlap>>

\* The check constraint refuses a row whose columns, some written and some not,
\* do not fit; a row that is gone is a StaleDataError.
CommitUpdateRoom(w) ==
    /\ booking[w].op = "update_room"
    /\ LET b == booking[w]
       IN  /\ rooms[b.room] # Absent
           /\ InRange(WrittenRow(b.seen, b.new, rooms[b.room]))
           /\ rooms' = [rooms EXCEPT ![b.room] = WrittenRow(b.seen, b.new, @)]
    /\ booking' = [booking EXCEPT ![w] = Idle]
    /\ UNCHANGED <<units, overlap>>

AbortInventory(w) ==
    /\ booking[w] # Idle
    /\ booking' = [booking EXCEPT ![w] = Idle]
    /\ UNCHANGED <<units, rooms, overlap>>

IsEmptyUnit(u) ==
    \A r \in RoomId : rooms[r] # Absent /\ rooms[r].unit = u => ~Occupied(rooms[r])

\* delete_unit_type; the rooms go with it (ON DELETE CASCADE).
BeginDeleteUnitType(w) ==
    \E u \in UnitTypes :
        /\ units[u] # Absent
        /\ IsEmptyUnit(u)
        /\ booking[w] = Idle
        /\ MayStart(booking)
        /\ booking' = [booking EXCEPT ![w] = [op |-> "delete_unit_type", unit |-> u]]
        /\ UNCHANGED <<units, rooms, overlap>>

CommitDeleteUnitType(w) ==
    /\ booking[w].op = "delete_unit_type"
    /\ LET u == booking[w].unit
       IN  /\ units[u] # Absent
           /\ units' = [units EXCEPT ![u] = Absent]
           /\ rooms' = [r \in RoomId |->
                  IF rooms[r] # Absent /\ rooms[r].unit = u THEN Absent ELSE rooms[r]]
    /\ booking' = [booking EXCEPT ![w] = Idle]
    /\ UNCHANGED overlap

InventoryNext ==
    \/ AddUnitType
    \/ AddRoom
    \/ \E w \in Workers :
        \/ BeginUpdateRoom(w)
        \/ CommitUpdateRoom(w)
        \/ BeginDeleteUnitType(w)
        \/ CommitDeleteUnitType(w)
        \/ AbortInventory(w)

InventorySpec == InventoryInit /\ [][InventoryNext]_inventoryVars

-----------------------------------------------------------------------------

\* Types, and the range the check constraint of table rooms promises, which
\* no session needs it for: what one computes from the row it read is in range.
InventoryTypeOK ==
    /\ units   \in [UnitTypes -> Unit \cup {Absent}]
    /\ rooms   \in [RoomId -> Room \cup {Absent}]
    /\ booking \in [Workers -> RoomRequest]
    /\ \A r \in RoomId : rooms[r] # Absent => units[rooms[r].unit] # Absent /\ InRange(rooms[r])
    /\ \A w \in Workers : booking[w].op = "update_room" => InRange(booking[w].new)

\* No step takes a room or a request out of range; and when sessions do not
\* overlap, the tag of an occupied room is locked, its number of beds never
\* falls below the occupied ones, and it is not deleted (student_inventory.py).
OccupantsAreSafe ==
    [][/\ InventoryTypeOK'
       /\ ~overlap => \A r \in RoomId :
             rooms[r] # Absent /\ Occupied(rooms[r]) =>
                 /\ rooms'[r] # Absent
                 /\ rooms'[r].tag = rooms[r].tag
                 /\ rooms'[r].total >= rooms[r].total - rooms[r].available]_inventoryVars
=============================================================================
