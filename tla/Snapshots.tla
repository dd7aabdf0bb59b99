------------------------------ MODULE Snapshots ------------------------------
(***************************************************************************)
(* A table of snapshots by timestamp: stats_snapshots, and price_snapshots *)
(* for the one pair of the configuration.  Rows are kept by age, ages      *)
(* beyond the one at which rows are deleted counting as one.  Age 0 is the *)
(* timestamp furthest in the future, Now that of the moment.               *)
(***************************************************************************)
EXTENDS Naturals

CONSTANTS
    Row,        \* what a row may hold
    NoRow,      \* no row
    Now,        \* the age of a row stamped with the present time
    Keep        \* how long after its timestamp a row is kept

VARIABLE rows

Oldest == Now + Keep + 1
Age == 0..Oldest

SnapshotsTypeOK == rows \in [Age -> Row \cup {NoRow}]

Empty == rows = [a \in Age |-> NoRow]
Some == \E a \in Age : rows[a] # NoRow

(* ORDER BY ts DESC LIMIT 1                                                 *)
LatestAt(a) == rows[a] # NoRow /\ \A b \in Age : b < a => rows[b] = NoRow

(* INSERT ... ON CONFLICT DO UPDATE: one row for a timestamp.               *)
Insert(a, r) == rows' = [rows EXCEPT ![a] = r]

(* A slip: nothing is deleted.                                              *)
TrimNothing == rows' = rows

Trim == rows' = [rows EXCEPT ![Oldest] = NoRow]

(* Every row is one unit older.                                             *)
Aged ==
    rows' = [a \in Age |->
        CASE a = 0 -> NoRow
          [] a = Oldest /\ rows[Oldest - 1] = NoRow -> rows[Oldest]
          [] OTHER -> rows[a - 1]]
=============================================================================
