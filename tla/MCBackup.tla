------------------------------ MODULE MCBackup ------------------------------
(***************************************************************************)
(* Small instances of Backup.                                              *)
(***************************************************************************)
EXTENDS Backup, TLC

CONSTANTS a, b,       \* two paths
          x, y,       \* the bytes two files may hold, each an object
          u           \* an extended attribute too large for a bundle

(* Entries are of bytes and metadata: x1 and x2 differ in metadata alone,  *)
(* and yu has an attribute of its own object.                               *)
MCEntries == {"x1", "x2", "yu"}
MCContents(entry) == IF entry = "yu" THEN {y} ELSE {x}
MCAttributes(entry) == IF entry = "yu" THEN {u} ELSE {}
MCPaths == {a, b}
MCOrder == <<a, b>>
MCSource == [p \in MCPaths |-> IF p = a THEN "x1" ELSE "yu"]
MCDirectory(atA, atB) == [p \in MCPaths |-> IF p = a THEN atA ELSE atB]

None == [k \in Requests \cup {"edits", "fills", "arrivals", "losses", "evictions", "crashes", "fails"} |-> 0]
Start(entries, held, may) == [directory |-> entries, store |-> held, left |-> may @@ None]

Jobs ==
  {Start(MCDirectory("x1", "yu"), {}, [configured |-> 1, run |-> 1, edits |-> 2]),
   Start(MCDirectory("x1", Absent), {}, [configured |-> 1, edits |-> 1, crashes |-> 1, evictions |-> 1]),
   Start(MCDirectory("x1", "yu"), {}, [configured |-> 1, edits |-> 1, fills |-> 1, run |-> 1]),
   Start(MCDirectory("x1", "yu"), {}, [configured |-> 1, fills |-> 1, build |-> 1, crashes |-> 1]),
   Start(MCDirectory("x1", Absent), {}, [configured |-> 2, removed |-> 1, edits |-> 1, fails |-> 1])}
Restores ==
  {Start(MCDirectory(Absent, Absent), {x}, [restore |-> 1, arrivals |-> 3, losses |-> 1]),
   Start(MCDirectory("x2", Absent), {1, x}, ("restore over" :> 1) @@ [restore |-> 1, arrivals |-> 2, fails |-> 1]),
   Start(MCDirectory(Absent, Absent), {1, x}, [restore |-> 2, arrivals |-> 1, build |-> 1])}
Builds ==
  {Start(MCDirectory("x1", "yu"), {}, ("protected build" :> 1) @@ [build |-> 2, edits |-> 1, evictions |-> 1]),
   Start(MCDirectory("x1", Absent), {}, [import |-> 1, export |-> 1, arrivals |-> 1, fills |-> 1])}
Archives ==
  {Start(MCDirectory("x1", Absent), {1, x}, ("archive removed" :> 1) @@ [archive |-> 2, arrivals |-> 2, fails |-> 1]),
   Start(MCDirectory("x1", Absent), {1, x, y, u}, [archive |-> 2, crashes |-> 1, fails |-> 1]),
   Start(MCDirectory("x1", Absent), {x, y, u}, [archive |-> 1, arrivals |-> 2, evictions |-> 1]),
   Start(MCDirectory("x1", Absent), {1, x}, [archive |-> 1, restore |-> 1, arrivals |-> 2, losses |-> 1])}

MCStarts == Jobs \cup Restores \cup Builds \cup Archives
=============================================================================
