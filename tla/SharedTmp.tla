------------------------------ MODULE SharedTmp ------------------------------
(***************************************************************************)
(* Saving a file the way this program saves every file: os.WriteFile to    *)
(* <path>.tmp, which opens and truncates and then writes, and os.Rename    *)
(* over <path>.  All savers of a path use the same .tmp name, and a writer *)
(* goes on writing to the file it opened, whatever that file is called by  *)
(* then.  (The file system is external to the program.)                    *)
(***************************************************************************)
EXTENDS Naturals

None == 0              \* no such name
Empty == <<"empty">>   \* created or truncated, nothing written yet
Torn == <<"torn">>     \* one body written over a longer one

\* A directory with the two names, and the files they may refer to.
Directory(inodes, init) ==
    [tmp |-> None, final |-> IF init = Empty THEN None ELSE 1,
     data |-> [i \in inodes |-> IF i = 1 THEN init ELSE Empty]]

\* The file a writer gets that opens .tmp while others hold theirs.
Opened(dir, held) ==
    IF dir.tmp # None THEN dir.tmp
    ELSE CHOOSE i \in DOMAIN dir.data : i \notin held \cup {dir.final}
Open(dir, ino) == [dir EXCEPT !.tmp = ino, !.data[ino] = Empty]

\* A second body over a first replaces it, unless it is the shorter one.
Written(dir, ino, body) ==
    {[dir EXCEPT !.data[ino] = b] :
        b \in IF dir.data[ino] \in {Empty, body} THEN {body} ELSE {body, Torn}}

Rename(dir) ==
    [dir EXCEPT !.final = dir.tmp, !.tmp = None,
                !.data = [i \in DOMAIN @ |-> IF i = dir.final THEN Empty ELSE @[i]]]
RemoveTmp(dir) == [dir EXCEPT !.tmp = None]

Content(dir) == IF dir.final = None THEN Empty ELSE dir.data[dir.final]
=============================================================================
