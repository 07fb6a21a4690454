---------------------------- MODULE ListingData ----------------------------
(***************************************************************************)
(* The contents of a listing and of the two request bodies that write one. *)
(*                                                                         *)
(* A listing's editable contents are a function from columns to values.    *)
(* What the program does with a column depends only on whether the column  *)
(* may be null, so Column stands for title, price, listing_type, bedrooms, *)
(* location, agent_id (Required) and description, address, city (the rest).*)
(*                                                                         *)
(* A body gives each column a value, an explicit null, or leaves it unset; *)
(* "unset" is the complement of Pydantic's model_fields_set.               *)
(*                                                                         *)
(* A request asks for an operation on one listing and gets a reply: an     *)
(* HTTP status, the listing's id and its contents.                         *)
(***************************************************************************)
EXTENDS Naturals

CONSTANTS
    Column,     \* the editable columns of a listing
    Required,   \* those that are NOT NULL in the database
    Value,      \* the non-null values a column can hold
    Null,       \* SQL NULL, JSON null, Python None
    Unset,      \* the column is not in the request body
    Absent,     \* in place of a listing: none with this id was ever created
    Gone,       \* in place of a listing: there was one and it was deleted
    Id,         \* listing ids
    NoId,       \* a path segment that is no UUID, or no path id at all
    CreateBody, \* the bodies clients POST
    PatchBody   \* the bodies clients PATCH

ASSUME DataAssumption ==
    /\ Required \subseteq Column
    /\ Null \notin Value
    /\ Unset \notin Value
    /\ Null # Unset

Data == [Column -> Value \cup {Null}]
Body == [Column -> Value \cup {Null, Unset}]

ASSUME RequestAssumption ==
    /\ Absent \notin Data /\ Gone \notin Data /\ Absent # Gone
    /\ NoId \notin Id
    /\ CreateBody \subseteq Body
    /\ PatchBody \subseteq Body

\* The body of a request that has none.
Blank == [c \in Column |-> Unset]

\* ListingCreate: required fields are there and not null, the others are
\* optional and nullable.
ValidCreate(body) == \A c \in Required : body[c] \in Value

\* ListingUpdate: at least one field was sent (model_fields_set is not empty)
\* and no required field was sent as null.
ValidPatch(body) ==
    /\ \E c \in Column : body[c] # Unset
    /\ \A c \in Required : body[c] # Null

\* ListingCreate.model_dump: an optional field that was not sent is None.
NewData(body) == [c \in Column |-> IF body[c] = Unset THEN Null ELSE body[c]]

\* ListingUpdate.changes (exclude_unset) followed by UPDATE ... SET: only the
\* supplied columns change, and a supplied null clears a nullable column.
Merge(data, body) ==
    [c \in Column |-> IF body[c] = Unset THEN data[c] ELSE body[c]]

\* What clients ask for; a path id is one of ids or malformed.
Operation(ids) ==
    [kind : {"create"}, id : {NoId}, body : CreateBody]
        \cup [kind : {"patch"}, id : ids \cup {NoId}, body : PatchBody]
        \cup [kind : {"get", "delete"}, id : ids \cup {NoId}, body : {Blank}]

\* The request body, and the id in the path, pass validation.
Valid(o) ==
    /\ o.kind = "create" => ValidCreate(o.body)
    /\ o.kind = "patch" => ValidPatch(o.body)
    /\ o.kind # "create" => o.id \in Id

Reply(status, id, data) == [status |-> status, id |-> id, data |-> data]
Refusal(status, o) == Reply(status, o.id, Null)
=============================================================================
