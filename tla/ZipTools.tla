------------------------------ MODULE ZipTools ------------------------------
(***************************************************************************)
(* A user zips files with the serial program or with the first parallel one *)
(* and gives what it wrote, and perhaps more, to wunzip.                    *)
(***************************************************************************)
EXTENDS Wzip

CONSTANTS NumThreads, MinChunk, Base

ASSUME ZipToolsAssumption ==
    NumThreads \in Nat \ {0} /\ MinChunk \in Nat \ {0, 1} /\ Base \in Nat \ {0, 1}

(* A file that cannot be opened is no file of bytes.                        *)
ASSUME MissingAssumption == Missing \notin Seq(Char \cup 0 .. Base - 1)

VARIABLES tool,                                          \* who zips
          mpc, file, k, data, thread, result, jout, joining,      \* WpzipJoin
          zipped, at, bytes, counter, rep_count, text, unzipping  \* Wunzip

Join  == INSTANCE WpzipJoin WITH i <- k, out <- jout, status <- joining
Unzip == INSTANCE Wunzip WITH unread <- bytes, status <- unzipping

joinVars  == <<mpc, file, k, data, thread, result, jout, joining>>
unzipVars == <<zipped, at, bytes, counter, rep_count, text, unzipping>>
toolVars  == <<tool, vars, joinVars, unzipVars>>

Output == IF tool = "wzip" THEN out ELSE jout
Zipped == IF tool = "wzip" THEN status = "exited" ELSE joining = "exited"

ToolsInit == /\ tool \in {"wzip", "wpzip"}
             /\ Init /\ Join!Init /\ Unzip!Init

StartUnzip ==
    LET z == Unzip!Bytes(Output)
    IN  \E more \in {<<>>, <<z>>, <<Missing>>} : Unzip!Start(<<z>> \o more)

Wzips   == tool = "wzip" /\ Next /\ UNCHANGED <<tool, joinVars, unzipVars>>
Wpzips  == tool = "wpzip" /\ Join!Next /\ UNCHANGED <<tool, vars, unzipVars>>
Wunzips == Zipped /\ (StartUnzip \/ Unzip!Next) /\ UNCHANGED <<tool, vars, joinVars>>

Over == /\ status = "failed" \/ joining = "crashed" \/ unzipping \in {"exited", "failed"}
        /\ UNCHANGED toolVars

ToolsNext == Wzips \/ Wpzips \/ Wunzips \/ Over

ToolsSpec == ToolsInit /\ [][ToolsNext]_toolVars

-----------------------------------------------------------------------------
TypesOK == TypeOK /\ Join!TypeOK /\ Unzip!TypeOK

ReadBeforeFree == Join!ReadBeforeFree
JoinSpec       == Join!JoinStream!Spec

(* The command lines of which every run has a count that an int of four bytes holds. *)
LinesShort ==
    \A list \in FileLists :
        (\A n \in DOMAIN list : list[n] # Missing) => Len(TextOf(list)) < Unzip!Limit

(* What wunzip writes is the text that was zipped, as far as it has come, and
   all of it when it exits: of every file it is given, in both encodings. *)
RoundTrip ==
    LET whole == FlattenSeq([n \in DOMAIN zipped |-> TextOf(files)])
    IN  /\ unzipping \in {"running", "failed"} => IsPrefix(text, whole)
        /\ unzipping = "exited" => text = whole
=============================================================================
