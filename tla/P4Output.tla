------------------------------ MODULE P4Output ------------------------------
(***************************************************************************)
(* p4lib: what is read from the output of a Perforce command (p4_impl.go). *)
(***************************************************************************)
EXTENDS Integers, Sequences, SequencesExt

-----------------------------------------------------------------------------
(* Tagged output, stored in a struct (setTaggedField and what it calls).   *)
(* The output of one record is a Go map, so its keys come in any order.  A *)
(* key is a name and an index, -1 if it has none.  A struct type is the    *)
(* sequence of its fields, a struct the sequence of their values.          *)

NoIndex == -1
\* A field whose tag is a key, and one whose tag lists the names of the elements of its slice; an
\* element is a struct of these names (kinds), or for one name a value.
Scalar(name, index, kind) == [slice |-> FALSE, key |-> <<name, index>>, kinds |-> [n \in {name} |-> kind]]
Slice(kinds) == [slice |-> TRUE, kinds |-> kinds]

\* Parts of the types Description and FileStat.
Description ==
    <<Scalar("change", NoIndex, "int"), Scalar("desc", NoIndex, "string"),
      Slice([n \in {"depotFile", "rev"} |-> IF n = "rev" THEN "int" ELSE "string"])>>
FileStat ==
    <<Slice([n \in {"otherChange"} |-> "int"]), Scalar("otherLock", 0, "bool"),
      Scalar("otherOpen", NoIndex, "int"), Slice([n \in {"otherOpen"} |-> "string"])>>

ZeroOf(kind) == CASE kind = "int" -> "0" [] kind = "bool" -> "false" [] OTHER -> ""
ZeroElement(f) == [n \in DOMAIN f.kinds |-> ZeroOf(f.kinds[n])]
Zero(type) == [i \in DOMAIN type |->
    IF type[i].slice THEN <<>> ELSE [n \in DOMAIN type[i].kinds |-> ZeroOf(type[i].kinds[n])]]

\* reflectValueBuild; a text that is no number cannot be converted.
NotANumber == "text"
Bad == "bad"
reflectValueBuild(kind, value) ==
    CASE kind = "bool" -> "true"
      [] kind = "int" -> (IF value = "" THEN "0" ELSE IF value = NotANumber THEN Bad ELSE value)
      [] OTHER -> value

\* Mutant: a slice grows by one element only.
GrownMut(elements, n, zero) == IF Len(elements) >= n THEN elements ELSE Append(elements, zero)
\* The slice is made large enough for the index.
Grown(elements, n, zero) ==
    elements \o [i \in 1 .. (IF Len(elements) >= n THEN 0 ELSE n - Len(elements)) |-> zero]

\* findField: the first field that has the key, or the name of an indexed key.
findField(type, key) ==
    SelectInSeq(type, LAMBDA f : IF f.slice THEN key[2] >= 0 /\ key[1] \in DOMAIN f.kinds ELSE f.key = key)

\* setTaggedField; a key without a field is passed over, a value that does not convert is logged.
setTaggedField(type, s, key, value) ==
    LET i == findField(type, key) IN
    IF i = 0 THEN s
    ELSE LET f == type[i]
             v == reflectValueBuild(f.kinds[key[1]], value)
             at == IF f.slice THEN key[2] + 1 ELSE 0
             room == IF f.slice THEN Grown(s[i], at, ZeroElement(f)) ELSE s[i]
         IN  [s EXCEPT ![i] = IF v = Bad THEN room
                              ELSE IF ~f.slice THEN [room EXCEPT ![key[1]] = v]
                              ELSE IF at > Len(room) THEN room
                              ELSE [room EXCEPT ![at][key[1]] = v]]

\* outputStat of describecb, changescb, FstatResult and printcb: all pairs, in some order.
outputStat(type, pairs) == FoldLeft(LAMBDA s, p : setTaggedField(type, s, p[1], p[2]), Zero(type), pairs)

(* The reference: what the record says of each name, whatever the order. *)
ValueOf(pairs, key, kind) ==
    IF \E p \in pairs : p[1] = key /\ reflectValueBuild(kind, p[2]) # Bad
    THEN reflectValueBuild(kind, (CHOOSE p \in pairs : p[1] = key)[2])
    ELSE ZeroOf(kind)

-----------------------------------------------------------------------------
(* The lists read from the text of a command: opened, users, tickets and   *)
(* info.  A line is the sequence of its words; a word in parentheses is    *)
(* <<"(", word>>, and a line of info is its two halves about the first     *)
(* colon.                                                                  *)

ActionNames == {"add", "archive", "branch", "delete", "edit", "integrate", "move/add", "move/delete", "purge"}
GetActionType(action) == action \in ActionNames
\* A type with a modifier has no FileType of its own; the error is dropped.
FileTypeNames == {"apple", "binary", "resource", "symlink", "text", "unicode", "utf8", "utf16"}
GetFileType(type) == IF type \in FileTypeNames THEN type ELSE "none"

\* p4OpenedRe: path, action, "change" and its number or "default" and "change", and the type.
MatchesOpened(line) == Len(line) = 5
OpenedFile(line) ==
    [Path |-> line[1], Status |-> line[2], CL |-> IF line[3] = "change" THEN line[4] ELSE "0",
     Type |-> GetFileType(line[5])]
\* Mutant: a line that is not understood is passed over.
OpenedMut(lines) ==
    LET files == SelectSeq(lines, LAMBDA l : MatchesOpened(l) /\ GetActionType(l[2]))
    IN  [ok |-> TRUE, files |-> [i \in DOMAIN files |-> OpenedFile(files[i])]]
\* Other lines are passed over, but one with an unknown action or change fails the command.
Opened(lines) ==
    LET files == SelectSeq(lines, MatchesOpened)
        known(l) == GetActionType(l[2]) /\ l[3] \in {"change", "default"}
    IN  IF \A i \in DOMAIN files : known(files[i])
        THEN [ok |-> TRUE, files |-> [i \in DOMAIN files |-> OpenedFile(files[i])]]
        ELSE [ok |-> FALSE, files |-> <<>>]

\* The words of a name are put together without the spaces between them.
Users(lines) ==
    LET rows == SelectSeq(lines, LAMBDA l : Len(l) >= 5)
    IN  [i \in DOMAIN rows |->
            LET l == rows[i]
            IN  [User |-> l[1], Email |-> l[2], Name |-> SubSeq(l, 3, Len(l) - 2), Accessed |-> Last(l)]]

\* The parentheses are cut off the user.
Tickets(lines) ==
    LET rows == SelectSeq(lines, LAMBDA l : Len(l) >= 3)
    IN  [i \in DOMAIN rows |-> [Name |-> rows[i][1], User |-> rows[i][2][2], ID |-> rows[i][3]]]

\* The last line of a key counts, and a key without one is empty.
Info(lines) ==
    LET config == FoldLeft(LAMBDA m, l : IF Len(l) = 2 /\ l[1] \in DOMAIN m THEN [m EXCEPT ![l[1]] = l[2]] ELSE m,
                           [k \in {"Client name", "Client host", "Client root", "User name"} |-> ""], lines)
    IN  [Client |-> config["Client name"], Host |-> config["Client host"], Root |-> config["Client root"],
         User |-> config["User name"]]
=============================================================================
