-------------------------- MODULE GalleryRecognize ---------------------------
(***************************************************************************)
(* The recognise element (topology/elements/recognize.py) over the gallery *)
(* file it opens (topology/gallery_store.py): workers query the curated    *)
(* store and the store of minted identities, one query at a time and with  *)
(* no lock across them, and enrol a row that matched nobody.               *)
(*                                                                         *)
(* The galleries are shipvision's: add, query and a bound that evicts the  *)
(* oldest entry.  A vector is the ship it shows; a query is answered by    *)
(* the entries of the same ship that the excluded camera did not make.     *)
(***************************************************************************)
EXTENDS Naturals, Sequences, FiniteSets, SequencesExt

CONSTANTS Walkers,        \* pipeline workers inside this element
          Cameras, Ships,
          Repositories,   \* version -> gallery file, the repositories that may be opened
          Versions,       \* params: gallery_version, <<>> for the latest
          EnrolCapacity,  \* params: enrol_capacity
          MaxRows         \* rows processed in all

VARIABLES opened,     \* "no", "refused" or "yes"
          version,    \* the version resolve_gallery_path chose
          repository,
          curated,    \* the store filled from the file: a set of entries
          minted,     \* the store this element enrols into: oldest first
          at,         \* worker -> the row it holds and how far it is
          rows,       \* rows taken so far
          filed       \* the row published last, with its match
galleryVars == <<opened, version, repository, curated, minted, at, rows, filed>>

Entry(ship, identity, camera) == [ship |-> ship, identity |-> identity, camera |-> camera]
NoRow == [pc |-> "idle", camera |-> "", ship |-> "", n |-> 0, confident |-> FALSE,
          known |-> FALSE, match |-> <<>>]

-----------------------------------------------------------------------------
(* Opening: the version, the file, the store.                              *)

\* resolve_gallery_path: the version asked for, or the highest by number.
ResolveGalleryPath(found, asked) ==
    IF found = {} THEN <<>>
    ELSE IF asked = <<>> THEN <<CHOOSE v \in found : \A u \in found : u <= v>>
    ELSE IF asked[1] \in found THEN asked ELSE <<>>

\* _validated_vectors: widths agree by shape; each row finite and with a
\* direction.
ValidatedVectors(file) == \A r \in DOMAIN file.vectors : file.vectors[r] \notin {"nan", "zero"}

ParallelText(file, column) == Len(column) = Len(file.vectors)

ValidatedLabels(file) ==
    /\ ParallelText(file, file.identities)
    /\ \A r \in DOMAIN file.identities : file.identities[r] # ""

ValidatedCameras(file) == file.cameras = <<>> \/ ParallelText(file, file.cameras[1])

LoadGalleryFile(file) == ValidatedVectors(file) /\ ValidatedLabels(file) /\ ValidatedCameras(file)

\* _fill: one entry per row of the file, under the camera it names, if any.
Fill(file) ==
    {Entry(file.vectors[r], file.identities[r],
           IF file.cameras = <<>> THEN "" ELSE file.cameras[1][r]) : r \in DOMAIN file.vectors}

GalleryInit ==
    /\ opened = "no" /\ repository \in Repositories /\ version \in Versions
    /\ curated = {} /\ minted = <<>>
    /\ at = [x \in Walkers |-> NoRow] /\ rows = 0 /\ filed = {}

\* _do_open: a file that cannot be served refuses the deployment.
Open ==
    /\ opened = "no"
    /\ LET chosen == ResolveGalleryPath(DOMAIN repository, version)
           opens == chosen # <<>> /\ LoadGalleryFile(repository[chosen[1]])
       IN  /\ opened' = IF opens THEN "yes" ELSE "refused"
           /\ version' = chosen
           /\ curated' = IF opens THEN Fill(repository[chosen[1]]) ELSE {}
    /\ UNCHANGED <<repository, minted, at, rows, filed>>

-----------------------------------------------------------------------------
\* One query: the identities of the ship that another camera enrolled.
Query(store, ship, excluded) ==
    {e \in store : e.ship = ship /\ (excluded = <<>> \/ e.camera # excluded[1])}

Minted == ToSet(minted)
Known(ship) == Query(curated \cup Minted, ship, <<>>) # {}

TakeRow(x) ==
    /\ opened = "yes" /\ at[x].pc = "idle" /\ rows < MaxRows
    /\ rows' = rows + 1
    /\ \E camera \in Cameras, ship \in Ships, confident \in BOOLEAN :
          at' = [at EXCEPT ![x] = [NoRow EXCEPT !.pc = "curated", !.camera = camera,
                    !.ship = ship, !.n = rows', !.confident = confident, !.known = Known(ship)]]
    /\ UNCHANGED <<opened, version, repository, curated, minted, filed>>

\* _best_match, the curated store: the row's own camera is excluded.
AskCurated(x) ==
    /\ at[x].pc = "curated"
    /\ LET hits == Query(curated, at[x].ship, <<at[x].camera>>)
       IN  \/ hits = {} /\ at' = [at EXCEPT ![x].pc = "minted"]
           \/ \E e \in hits : at' = [at EXCEPT ![x].pc = "minted", ![x].match = <<e>>]
    /\ UNCHANGED <<opened, version, repository, curated, minted, rows, filed>>

\* _best_match, the minted store: the better of the two scores wins, either
\* may.
AskMinted(x) ==
    /\ at[x].pc = "minted"
    /\ LET hits == Query(Minted, at[x].ship, <<at[x].camera>>)
       IN  \/ (hits = {} \/ at[x].match # <<>>)
              /\ at' = [at EXCEPT ![x].pc = IF at[x].match = <<>> THEN "enrol" ELSE "file"]
           \/ \E e \in hits : at' = [at EXCEPT ![x].pc = "file", ![x].match = <<e>>]
    /\ UNCHANGED <<opened, version, repository, curated, minted, rows, filed>>

\* _enrol: below the confidence floor nothing is asked and nothing enrolled.
ConsiderEnrolment(x) ==
    /\ at[x].pc = "enrol"
    /\ at' = [at EXCEPT ![x].pc = IF at[x].confident THEN "known" ELSE "file"]
    /\ UNCHANGED <<opened, version, repository, curated, minted, rows, filed>>

\* _known_anywhere: both stores, one after the other, nothing excluded.
KnownAnywhere(x) ==
    /\ at[x].pc \in {"known", "known_minted"}
    /\ LET store == IF at[x].pc = "known" THEN curated ELSE Minted
           next == IF at[x].pc = "known" THEN "known_minted" ELSE "mint"
       IN  at' = [at EXCEPT ![x].pc =
                    IF Query(store, at[x].ship, <<>>) # {} THEN "file" ELSE next]
    /\ UNCHANGED <<opened, version, repository, curated, minted, rows, filed>>

\* _mint and add: a fresh identity, and the oldest of its own making goes at
\* the bound.
Mint(x) ==
    /\ at[x].pc = "mint"
    /\ LET e == Entry(at[x].ship, <<"auto", at[x].n>>, at[x].camera)
           grown == Append(minted, e)
       IN  /\ minted' = IF Len(grown) > EnrolCapacity THEN Tail(grown) ELSE grown
           /\ at' = [y \in Walkers |->
                IF y = x THEN [at[x] EXCEPT !.pc = "file", !.match = <<[e EXCEPT !.camera = ""]>>]
                ELSE [at[y] EXCEPT !.known = @ /\ Query(curated \cup ToSet(minted'), at[y].ship,
                                                        <<>>) # {}]]
    /\ UNCHANGED <<opened, version, repository, curated, rows, filed>>

File(x) ==
    /\ at[x].pc = "file"
    /\ filed' = {[camera |-> at[x].camera, ship |-> at[x].ship, match |-> at[x].match]}
    /\ at' = [at EXCEPT ![x] = NoRow]
    /\ UNCHANGED <<opened, version, repository, curated, minted, rows>>

GalleryNext ==
    \/ Open
    \/ \E x \in Walkers : TakeRow(x) \/ AskCurated(x) \/ AskMinted(x) \/ ConsiderEnrolment(x)
                          \/ KnownAnywhere(x) \/ Mint(x) \/ File(x)

GallerySpec == GalleryInit /\ [][GalleryNext]_galleryVars

-----------------------------------------------------------------------------
\* An identity published for a row was enrolled from another camera's view, or
\* from no camera's: never a match of a camera with itself.  And it is this
\* ship's.
NeverMatchedWithItself ==
    \A f \in filed : f.match # <<>> => f.match[1].camera # f.camera /\ f.match[1].ship = f.ship

\* A ship that some store held when a row arrived, and went on holding, is not
\* enrolled again by that row: only rows that race each other can mint one ship
\* twice.
KnownIsNotMinted == \A x \in Walkers : at[x].pc = "mint" => ~at[x].known

\* What is served came from a file whose every row could be served under its
\* own name, and enrolment never costs a curated identity.
CuratedStaysWhole ==
    opened = "yes" =>
        LET file == repository[version[1]]
        IN  /\ Len(file.identities) = Len(file.vectors)
            /\ \A r \in DOMAIN file.vectors :
                  /\ file.vectors[r] \in Ships
                  /\ \E e \in curated : e.ship = file.vectors[r] /\ e.identity = file.identities[r]
=============================================================================
