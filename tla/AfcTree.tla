-------------------------------- MODULE AfcTree --------------------------------
(* The recursions of AfcService (services/ios/afc/index.ts): a directory is pulled to    *)
(* the local file system, where PullLocalNameAllocator finds names for what it holds,    *)
(* or removed with all it holds. Both go depth first, an entry at a time; the model      *)
(* keeps their frames. A local name is a sanitized one and the number of a suffix.       *)
EXTENDS Naturals, Sequences, SequencesExt

CONSTANTS
    Children,     \* directory -> its entries, files and directories, in listing order
    Root,         \* a directory
    Sanitized,    \* entry -> its sanitized local name
    Folded,       \* sanitized name -> the same in lower case
    MaxSuffix     \* bound: random suffixes

VARIABLES
    pull,     \* the frames of _pullRecursiveInternal, names used, case sensitivity cached
    host,     \* the local file system and its platform, what was there, who wrote what
    removal   \* the frames of rm, what is left on the device, what was reported, and of that
              \* what had been removed with the answer lost

treeVars == <<pull, host, removal>>

IsDir(e) == e \in DOMAIN Children
Names == {<<Sanitized[e], k>> : e \in DOMAIN Sanitized, k \in 0..MaxSuffix}
FoldName(n) == <<Folded[n[1]], n[2]>>
Local(p) == IF host.insensitive THEN [i \in DOMAIN p |-> FoldName(p[i])] ELSE p

\* An entry and what is below it: what is in every set that has it and, with a directory, what
\* that directory holds.
Entries == {Root} \cup DOMAIN Sanitized
Closed(S) == \A d \in S : IsDir(d) => Range(Children[d]) \subseteq S
Below(e) == {x \in Entries : \A S \in SUBSET Entries : e \in S /\ Closed(S) => x \in S}
Everything == Below(Root)

TreeInit ==
    /\ pull = [at |-> "idle", overwrite |-> TRUE, stack |-> <<>>, used |-> {}, sensitive |-> {}]
    /\ \E insensitive \in BOOLEAN, e \in DOMAIN Sanitized :
          \E platform \in {"darwin", "win32", "other"},
             before \in {{}, {<<<<IF insensitive THEN Folded[Sanitized[e]] ELSE Sanitized[e], 0>>>>}} :
             \E stale \in IF insensitive /\ platform = "darwin" THEN BOOLEAN ELSE {FALSE} :
                host = [insensitive |-> insensitive, platform |-> platform, stale |-> stale,
                        before |-> before, written |-> {}, created |-> {}]
    /\ removal = [at |-> "idle", stack |-> <<>>, left |-> Everything, reported |-> {},
                  unanswered |-> {}, blind |-> FALSE]

-----------------------------------------------------------------------------
(* pull, of a directory, recursively; the root goes to a directory that exists.  *)

Frame(dir, path) == [dir |-> dir, path |-> path, todo |-> Children[dir]]

Pulls(overwrite) ==
    /\ pull.at = "idle" /\ removal.at = "idle"
    /\ pull' = [pull EXCEPT !.at = "pulling", !.overwrite = overwrite, !.stack = <<Frame(Root, <<>>)>>]
    /\ UNCHANGED <<host, removal>>

Top == Last(pull.stack)
Pulling == pull.at = "pulling" /\ pull.stack # <<>>
Present == host.before \cup {w[1] : w \in host.written} \cup host.created

\* namesCollide, with the case sensitivity of the directory as it was first determined.
\* Mutant: names that differ in case are different names.
CaseMatters(sensitive, a, b) == a = b
Collide(sensitive, a, b) == IF sensitive THEN a = b ELSE FoldName(a) = FoldName(b)

Clash(path, sensitive, name) ==
    \/ \E u \in pull.used : u[1] = path /\ Collide(sensitive, u[2], name)
    \/ ~pull.overwrite /\ Local(Append(path, name)) \in Present

\* allocate: the sanitized name, or that name with a suffix until there is no clash.
Allocated(path, sensitive, entry) ==
    LET free == {n \in Names : n[1] = Sanitized[entry] /\ ~Clash(path, sensitive, n)}
    IN IF <<Sanitized[entry], 0>> \in free THEN {<<Sanitized[entry], 0>>} ELSE free

\* isCaseSensitiveDirectory: only macOS is asked, and what cannot be determined there is taken
\* not to matter. It caches by the name of the device, which another volume may have had when it
\* was asked; on Linux and on what it does not know case is taken to matter.
Probed == CASE host.platform = "win32" -> {FALSE}
            [] host.platform = "other" -> {TRUE}
            [] OTHER -> IF host.stale THEN {TRUE} ELSE IF host.insensitive THEN {FALSE} ELSE BOOLEAN
Sensitivity == LET known == {s \in pull.sensitive : s[1] = Top.path}
               IN IF known # {} THEN {s[2] : s \in known} ELSE Probed
Misjudged == host.insensitive /\ (host.platform = "other" \/ host.stale)

NextEntry(name, sensitive) ==
    [pull EXCEPT !.used = @ \cup {<<Top.path, name>>}, !.sensitive = @ \cup {<<Top.path, sensitive>>},
                 !.stack = Append(Front(@), [Top EXCEPT !.todo = Tail(@)])]

\* A directory is made when its first file is pulled; here it is made at once.
PullsDirectory(sensitive, name) ==
    /\ Pulling /\ Top.todo # <<>> /\ IsDir(Head(Top.todo))
    /\ sensitive \in Sensitivity /\ name \in Allocated(Top.path, sensitive, Head(Top.todo))
    /\ LET next == NextEntry(name, sensitive)
       IN pull' = [next EXCEPT !.stack = Append(@, Frame(Head(Top.todo), Append(Top.path, name)))]
    /\ host' = [host EXCEPT !.created = @ \cup {Local(Append(Top.path, name))}]
    /\ UNCHANGED removal

PullsFile(sensitive, name) ==
    /\ Pulling /\ Top.todo # <<>> /\ ~IsDir(Head(Top.todo))
    /\ sensitive \in Sensitivity /\ name \in Allocated(Top.path, sensitive, Head(Top.todo))
    /\ pull' = NextEntry(name, sensitive)
    /\ host' = [host EXCEPT !.written = @ \cup {<<Local(Append(Top.path, name)), Head(Top.todo)>>}]
    /\ UNCHANGED removal

PullsNext ==
    /\ Pulling /\ Top.todo = <<>>
    /\ pull' = [pull EXCEPT !.stack = Front(@), !.at = IF Len(pull.stack) = 1 THEN "done" ELSE @]
    /\ UNCHANGED <<host, removal>>

\* match leaves a file out, which has its name all the same; or a request fails, or no name
\* was found.
Skips(sensitive, name) ==
    /\ Pulling /\ Top.todo # <<>> /\ ~IsDir(Head(Top.todo))
    /\ sensitive \in Sensitivity /\ name \in Allocated(Top.path, sensitive, Head(Top.todo))
    /\ pull' = NextEntry(name, sensitive) /\ UNCHANGED <<host, removal>>

PullFails ==
    /\ Pulling /\ pull' = [pull EXCEPT !.at = "failed"] /\ UNCHANGED <<host, removal>>

-----------------------------------------------------------------------------
(* rm.                                                                           *)

Frames(dir, todo) == [dir |-> dir, todo |-> todo]
RmTop == Last(removal.stack)
Removing == removal.at = "removing" /\ removal.stack # <<>>
Empty(dir) == Below(dir) \cap removal.left = {dir}
Pop == [removal EXCEPT !.stack = Front(@), !.at = IF Len(removal.stack) = 1 THEN "done" ELSE @]

\* exists, isdir and listdir of the directory.
Removes ==
    /\ removal.at = "idle" /\ pull.at = "idle"
    /\ removal' = [removal EXCEPT !.at = "removing", !.stack = <<Frames(Root, Children[Root])>>]
    /\ UNCHANGED <<pull, host>>

Rest == [removal EXCEPT !.stack = Append(Front(@), [RmTop EXCEPT !.todo = Tail(@)])]

\* rm(cur, true) of a directory: who cannot be looked at counts as gone.
RemovesDirectory(seen) ==
    /\ Removing /\ RmTop.todo # <<>> /\ IsDir(Head(RmTop.todo))
    /\ removal' = IF seen THEN [Rest EXCEPT !.stack = Append(@, Frames(Head(RmTop.todo), Children[Head(RmTop.todo)]))]
                  ELSE [Rest EXCEPT !.blind = TRUE]
    /\ UNCHANGED <<pull, host>>

Reported(r, e) == [r EXCEPT !.reported = @ \cup {e}]
\* Mutant: a file that could not be removed is forgotten.
Forgets(r, file) == r
KeepsFile(r, file) == Reported(r, file)

\* What becomes of REMOVE_PATH: one that was carried out may be unanswered, with the connection
\* lost or the time over, which rmSingle takes for a failure.
Outcomes == {"removed", "refused", "unanswered"}
Gone(r, e) == [r EXCEPT !.left = @ \ {e}]
Unanswered(r, e) == [Gone(r, e) EXCEPT !.unanswered = @ \cup {e}]

RemovesFile(outcome) ==
    /\ Removing /\ RmTop.todo # <<>> /\ ~IsDir(Head(RmTop.todo))
    /\ LET file == Head(RmTop.todo)
       IN removal' = CASE outcome = "removed" -> Gone(Rest, file)
                       [] outcome = "refused" -> KeepsFile(Rest, file)
                       [] outcome = "unanswered" -> KeepsFile(Unanswered(Rest, file), file)
    /\ UNCHANGED <<pull, host>>

\* The directory itself, which the device removes when it is empty; the outermost one without
\* force, where a refusal is thrown unless something was reported before.
RemovesEmptied(outcome) ==
    /\ Removing /\ RmTop.todo = <<>> /\ (outcome # "refused" => Empty(RmTop.dir))
    /\ LET dir == RmTop.dir
       IN removal' = IF outcome = "removed" THEN Gone(Pop, dir)
                     ELSE IF dir = Root /\ removal.reported = {} THEN [removal EXCEPT !.at = "threw"]
                     ELSE IF outcome = "refused" THEN Reported(Pop, dir)
                     ELSE Reported(Unanswered(Pop, dir), dir)
    /\ UNCHANGED <<pull, host>>

RmFails ==
    /\ Removing /\ RmTop.todo # <<>> /\ removal' = [removal EXCEPT !.at = "threw"] /\ UNCHANGED <<pull, host>>

TreeNext ==
    \/ \E overwrite \in BOOLEAN : Pulls(overwrite)
    \/ \E sensitive \in BOOLEAN, name \in Names :
          PullsDirectory(sensitive, name) \/ PullsFile(sensitive, name) \/ Skips(sensitive, name)
    \/ PullsNext \/ PullFails \/ Removes \/ RmFails
    \/ \E seen \in BOOLEAN : RemovesDirectory(seen)
    \/ \E outcome \in Outcomes : RemovesFile(outcome) \/ RemovesEmptied(outcome)

TreeSpec == TreeInit /\ [][TreeNext]_treeVars

-----------------------------------------------------------------------------
\* Within one pull no local path gets the contents of two entries, whatever their names are
\* sanitized to and whether case matters, unless what was there may be overwritten and case was
\* thought to matter where it does not; and what was there before stays, if it is asked for.
NoClobber ==
    /\ ~(Misjudged /\ pull.overwrite) =>
          /\ \A v, w \in host.written : v[1] = w[1] => v = w
          /\ \A w \in host.written : w[1] \notin host.created
    /\ ~pull.overwrite => \A w \in host.written : w[1] \notin host.before

\* As long as it could look at every directory, rm names all that it leaves behind, or throws,
\* and it names nothing else but what was removed without an answer.
RemovedOrReported ==
    removal.at = "done" /\ ~removal.blind => removal.left = removal.reported \ removal.unanswered
=============================================================================
