------------------------------ MODULE Handles ------------------------------
(***************************************************************************)
(* Who owns what the operating system hands out: the FILE of an            *)
(* EnhancedFile (EnhancedFile.cpp) and the descriptor of a UDPSocket       *)
(* (UDPSocket.cpp).  The system may refuse either.                         *)
(***************************************************************************)
EXTENDS Integers, Sequences, SequencesExt, FiniteSetsExt

CONSTANTS FileObjects, FileNames,
          MaxHandles,  \* bound on the FILEs, and the descriptors, handed out
          MaxBlocks    \* bound on the position in a file, in blocks

ASSUME HandleAssumption == MaxHandles \in Nat /\ MaxBlocks \in Nat

VARIABLES
  files,       \* the objects, and the FILEs, as below
  call,        \* history: the last call on a file
  socket,      \* the descriptor of a UDPSocket, -1 if none
  descriptors, \* those the system has open
  made,        \* history: how many it handed out
  lost         \* history: those overwritten

fileVars == <<files, call>>
socketVars == <<socket, descriptors, made, lost>>

-----------------------------------------------------------------------------
(* EnhancedFile.  Objects hold a FILE, a number, or none; `stdout' is the  *)
(* stream of that name and number 0.  pos and length are in blocks, a      *)
(* length of -1 means that there is no such file; closed is history.       *)

NoFile == [name |-> "", mode |-> "", fp |-> -1, allowclose |-> FALSE]
IsOpen(obj) == obj.fp # -1

FilesInit ==
  /\ files = [obj |-> [o \in FileObjects |-> NoFile], pos |-> [fp \in 0 .. MaxHandles |-> 0],
              length |-> [name \in FileNames |-> -1], made |-> 0, closed |-> <<>>]
  /\ call = [op |-> "none"]

Holding(st, o, f, closed) ==
  [obj |-> [st.obj EXCEPT ![o] = f], pos |-> st.pos, length |-> st.length, made |-> st.made, closed |-> closed]

\* fopen(): refused on an object that is open.  "wb" empties the file, "rb"
\* needs it.
fopen(st, o, name, mode, granted) ==
  IF IsOpen(st.obj[o]) THEN st
  ELSE IF name = "stdout"
    THEN Holding(st, o, [name |-> name, mode |-> "w", fp |-> 0, allowclose |-> FALSE], st.closed)
  ELSE IF ~granted \/ (mode = "rb" /\ st.length[name] = -1) THEN st
  ELSE LET fp == st.made + 1
       IN  [obj |-> [st.obj EXCEPT ![o] = [name |-> name, mode |-> mode, fp |-> fp, allowclose |-> TRUE]],
            pos |-> [st.pos EXCEPT ![fp] = 0],
            length |-> IF mode = "wb" THEN [st.length EXCEPT ![name] = 0] ELSE st.length,
            made |-> fp, closed |-> st.closed]

\* Mutation: every stream is closed.
fcloseAlways(st, o) ==
  IF ~IsOpen(st.obj[o]) THEN st ELSE Holding(st, o, NoFile, Append(st.closed, st.obj[o].fp))

\* fclose(), and the destructor.
fclose(st, o) ==
  IF ~IsOpen(st.obj[o]) THEN st
  ELSE IF st.obj[o].allowclose THEN Holding(st, o, NoFile, Append(st.closed, st.obj[o].fp))
  ELSE Holding(st, o, NoFile, st.closed)

At(st, fp, place, length) ==
  [obj |-> st.obj, pos |-> [st.pos EXCEPT ![fp] = place], length |-> length, made |-> st.made, closed |-> st.closed]

\* fseek() to a place.
fseek(st, o, place) == IF IsOpen(st.obj[o]) THEN At(st, st.obj[o].fp, place, st.length) ELSE st

\* fwrite() of one block by the client, of an object open for writing.
fwrite(st, o) ==
  LET f == st.obj[o]
      place == st.pos[f.fp] + 1
      longer == [st.length EXCEPT ![f.name] = Max({@, place})]
  IN  IF ~IsOpen(f) \/ f.mode = "rb" THEN st
      ELSE At(st, f.fp, place, IF f.fp = 0 THEN st.length ELSE longer)

\* operator =, and the copy constructor: the file is opened again under its
\* name and in its mode, and goes to the position of the other object.
Copied(st, o, from, granted) ==
  LET empty == fclose(st, o)
      f == empty.obj[from]
      opened == fopen(empty, o, f.name, f.mode, granted)
  IN  IF ~IsOpen(f) THEN empty
      ELSE IF IsOpen(opened.obj[o]) THEN fseek(opened, o, opened.pos[f.fp])
      ELSE opened

OpenFile(o, name, mode, granted) ==
  /\ files.made < MaxHandles
  /\ files' = fopen(files, o, name, mode, granted)
  /\ call' = [op |-> "open", obj |-> o]

CloseFile(o) ==
  /\ files' = fclose(files, o)
  /\ call' = [op |-> "close", obj |-> o]

WriteFile(o) ==
  /\ \A fp \in DOMAIN files.pos : files.pos[fp] < MaxBlocks
  /\ files' = fwrite(files, o)
  /\ call' = [op |-> "write", obj |-> o]

AssignFile(o, from, granted) ==
  /\ files.made < MaxHandles
  /\ files' = Copied(files, o, from, granted)
  /\ call' = [op |-> "assign", obj |-> o, from |-> from]

FilesNext ==
  \E o \in FileObjects :
    \/ \E name \in FileNames, mode \in {"rb", "wb"}, granted \in BOOLEAN : OpenFile(o, name, mode, granted)
    \/ CloseFile(o)
    \/ WriteFile(o)
    \/ \E from \in FileObjects, granted \in BOOLEAN : AssignFile(o, from, granted)

-----------------------------------------------------------------------------
(* UDPSocket.                                                              *)

SocketInit == socket = -1 /\ descriptors = {} /\ made = 0 /\ lost = {}

\* close(), and the destructor.
CloseSocket ==
  /\ socket' = -1
  /\ descriptors' = descriptors \ {socket}
  /\ UNCHANGED <<made, lost>>

\* bind() and connect(): what `socket' held before is overwritten.  A
\* descriptor that cannot be bound or connected is closed.
Bind(outcome) ==
  /\ made < MaxHandles
  /\ outcome = "unresolved" => UNCHANGED socketVars
  /\ outcome # "unresolved" => lost' = lost \union ({socket} \ {-1})
  /\ outcome = "nosocket" => socket' = -1 /\ UNCHANGED <<descriptors, made>>
  /\ outcome = "refused" => socket' = -1 /\ made' = made + 1 /\ UNCHANGED descriptors
  /\ outcome = "bound" => /\ socket' = made /\ made' = made + 1
                          /\ descriptors' = descriptors \union {made}

SocketNext ==
  \/ CloseSocket
  \/ \E outcome \in {"unresolved", "nosocket", "refused", "bound"} : Bind(outcome)

-----------------------------------------------------------------------------
(* Laws.                                                                   *)

\* Every FILE opened is held by one object or was closed once, and never
\* both; standard streams are never closed.
FilesHaveOneOwner ==
  LET holders(fp) == {o \in FileObjects : files.obj[o].fp = fp}
      closings(fp) == {i \in DOMAIN files.closed : files.closed[i] = fp}
  IN  /\ \A fp \in 1 .. files.made :
           \/ closings(fp) = {} /\ \E o \in FileObjects : holders(fp) = {o}
           \/ holders(fp) = {} /\ \E i \in DOMAIN files.closed : closings(fp) = {i}
      /\ closings(0) = {}

\* An object and its copy have the same name and are at one place, with a
\* FILE each; a copy of a file open for writing has emptied it.
CopiesAreApart ==
  call.op = "assign" =>
    LET to == files.obj[call.obj]  from == files.obj[call.from]
    IN  IsOpen(to) =>
          /\ to.name = from.name /\ to.mode = from.mode
          /\ files.pos[to.fp] = files.pos[from.fp]
          /\ to.fp = from.fp => to.fp = 0
          /\ to.mode = "wb" => files.length[to.name] = 0

\* A descriptor that is no longer held has been closed, but for those that
\* were open when bind() or connect() replaced them.
SocketHasOneOwner ==
  /\ socket # -1 => socket \in descriptors
  /\ descriptors \ {socket} = lost

=============================================================================
