-------------------------------- MODULE Find --------------------------------
(***************************************************************************)
(* find (lab-fork find.c): a recursive walk over directories that other    *)
(* processes change meanwhile.  Each frame of the recursion has a          *)
(* directory open and the path it prints; readdir returns what was there   *)
(* all the time, and of what comes or goes meanwhile whatever it likes.    *)
(***************************************************************************)
EXTENDS Integers, Sequences, FiniteSets

CONSTANTS N,          \* how many files and directories there may be below "."
          Matching,   \* those whose name holds the text
          CHANGES,    \* how many may be created or removed meanwhile
          FAILURES    \* how many calls may fail for lack of memory or descriptors

Dot == 0                     \* "."
Node == 1 .. N

VARIABLES
  parent, dirs,     \* the tree: where each node is, and which are directories
  exist, changed,   \* the nodes that exist, and those created or removed
  frames,           \* the recursion, innermost first
  fds,              \* directories open
  out,              \* the paths printed
  ret, leaked, failures

tree == <<parent, dirs>>
vars == <<parent, dirs, exist, changed, frames, fds, out, ret, leaked, failures>>

Entries(d) == {n \in exist : parent[n] = d}

\* A frame: its directory, the entries to come, the entry at hand, its path and
\* the next call
Frame(d, path) == [dir |-> d, left |-> Entries(d), entry |-> Dot, path |-> path, pc |-> "readdir"]

Init ==
  /\ parent \in {f \in [Node -> Dot .. N] : \A n \in Node : f[n] < n}
  /\ dirs \in {D \in SUBSET Node : \A n \in Node : parent[n] \in D \cup {Dot}}
  /\ exist \in {E \in SUBSET Node : \A n \in E : parent[n] \in E \cup {Dot}}
  /\ changed = {} /\ fds = {Dot} /\ out = <<>> /\ ret = 0
  /\ frames = <<Frame(Dot, <<>>)>>
  /\ leaked = {} /\ failures = 0

Top == frames[1]
At(pc) == frames # <<>> /\ Top.pc = pc
Goto(pc) == frames' = [frames EXCEPT ![1].pc = pc]
Fail == failures < FAILURES /\ failures' = failures + 1

\* readdir, the test of the name and that of the type
ReadDir ==
  /\ At("readdir")
  /\ \/ \E e \in Top.left :
          /\ frames' = [frames EXCEPT ![1].left = @ \ {e}, ![1].entry = e,
                                      ![1].pc = IF e \in dirs THEN "openat" ELSE @]
          /\ out' = IF e \in Matching THEN Append(out, Append(Top.path, e)) ELSE out
     \/ Top.left \cap exist = {} /\ Goto("return") /\ UNCHANGED out
  /\ UNCHANGED <<tree, exist, changed, fds, ret, leaked, failures>>

\* Mutant of OpenAt: it is tried until it works.
OpenAtRetries ==
  /\ At("openat")
  /\ Top.entry \in exist
  /\ fds' = fds \cup {Top.entry} /\ Goto("fdopendir")
  /\ UNCHANGED <<tree, exist, changed, out, ret, leaked, failures>>

OpenAt ==
  /\ At("openat")
  /\ \/ /\ Top.entry \in exist
        /\ fds' = fds \cup {Top.entry} /\ Goto("fdopendir")
        /\ UNCHANGED <<ret, failures>>
     \/ /\ Fail \/ (Top.entry \notin exist /\ UNCHANGED failures)
        /\ ret' = -1 /\ Goto("return") /\ UNCHANGED fds
  /\ UNCHANGED <<tree, exist, changed, out, leaked>>

\* Mutant of Descend: the path of the directory is passed on as it is.
DescendSamePath == Frame(Top.entry, Top.path)

Descend == Frame(Top.entry, Append(Top.path, Top.entry))

\* fdopendir; when it fails the descriptor stays open
FdOpenDir ==
  /\ At("fdopendir")
  /\ \/ /\ frames' = <<Descend>> \o frames
        /\ UNCHANGED <<ret, leaked, failures>>
     \/ /\ Fail /\ ret' = -1 /\ Goto("return")
        /\ leaked' = leaked \cup {Top.entry}
  /\ UNCHANGED <<tree, exist, changed, fds, out>>

\* Mutant of Return: the directory is closed only when all went well.
ReturnKeeps ==
  /\ At("return")
  /\ fds' = IF ret = 0 THEN fds \ {Top.dir} ELSE fds
  /\ frames' = [i \in 1 .. Len(frames) - 1 |->
                  IF i = 1 THEN [frames[2] EXCEPT !.pc = IF ret = -1 THEN "return" ELSE "readdir"]
                           ELSE frames[i + 1]]
  /\ UNCHANGED <<tree, exist, changed, out, ret, leaked, failures>>

\* The caller, main at last, closes the directory
Return ==
  /\ At("return")
  /\ fds' = fds \ {Top.dir}
  /\ frames' = [i \in 1 .. Len(frames) - 1 |->
                  IF i = 1 THEN [frames[2] EXCEPT !.pc = IF ret = -1 THEN "return" ELSE "readdir"]
                           ELSE frames[i + 1]]
  /\ UNCHANGED <<tree, exist, changed, out, ret, leaked, failures>>

\* Another process makes or removes a file or an empty directory.  Whoever is
\* reading the directory may return a new entry or not.
Others ==
  /\ frames # <<>> /\ Cardinality(changed) < CHANGES
  /\ \E n \in Node \ changed, seen \in BOOLEAN :
       /\ changed' = changed \cup {n}
       /\ \/ /\ n \notin exist /\ parent[n] \in exist \cup {Dot}
             /\ exist' = exist \cup {n}
             /\ frames' = [i \in DOMAIN frames |->
                             IF seen /\ frames[i].dir = parent[n]
                             THEN [frames[i] EXCEPT !.left = @ \cup {n}] ELSE frames[i]]
          \/ /\ n \in exist /\ Entries(n) = {} /\ exist' = exist \ {n}
             /\ UNCHANGED frames
  /\ UNCHANGED <<tree, fds, out, ret, leaked, failures>>

Walk == ReadDir \/ OpenAt \/ FdOpenDir \/ Return
Next == Walk \/ Others

Spec == Init /\ [][Next]_vars /\ WF_vars(Walk)

-----------------------------------------------------------------------------
Done == frames = <<>>

PathTo[n \in Node] == IF parent[n] = Dot THEN <<n>> ELSE Append(PathTo[parent[n]], n)

\* A search that ends well has printed everything that matches and was there all
\* the time, whatever came and went elsewhere, and never anything twice or under a
\* path that is not its own (find_all_matches_within).
SearchIsRight ==
  /\ \A i \in DOMAIN out : \E n \in Matching : out[i] = PathTo[n]
  /\ \A i, j \in DOMAIN out : out[i] = out[j] => i = j
  /\ Done /\ ret = 0 =>
       \A n \in (Matching \cap exist) \ changed : \E i \in DOMAIN out : out[i] = PathTo[n]

\* One descriptor for each level of the recursion, none when it is over (the Makefile
\* runs it under valgrind --track-fds=yes); the one exception is a failed fdopendir,
\* and it ends the search, so that it leaks a single one (lines 172-176).
OneDescriptorPerLevel ==
  /\ fds = {frames[i].dir : i \in DOMAIN frames} \cup leaked
             \cup (IF At("fdopendir") THEN {Top.entry} ELSE {})
  /\ Cardinality(leaked) =< 1
=============================================================================
