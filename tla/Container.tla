------------------------------- MODULE Container -------------------------------
(***************************************************************************)
(* What a program that keeps its sections in an ELF file relies on: it     *)
(* holds blobs, each a section with its data, and groups, each a segment;  *)
(* saving stores them, and opening the file brings back what was stored.   *)
(* Where a blob lies, in the file or in memory, is left to the             *)
(* implementation.                                                         *)
(***************************************************************************)
EXTENDS Integers, Sequences

CONSTANTS Empty,        \* the content of a new object
          Blob,         \* the blobs a program may create
          Group         \* the groups a program may create

VARIABLES content,      \* [blobs, groups], what the program holds
          stored,       \* what the file holds
          outcome       \* how the last call that used the file ended

cvars == <<content, stored, outcome>>

(* The file may be there already.                                          *)
CInit == content = Empty

(* A program adds a blob or a group, or changes the data of one blob.      *)
AddBlob ==
  \E b \in Blob : content' = [content EXCEPT !.blobs = Append(@, b)]

AddGroup ==
  \E g \in Group : content' = [content EXCEPT !.groups = Append(@, g)]

ChangeBlob ==
  /\ content'.groups = content.groups
  /\ DOMAIN content'.blobs = DOMAIN content.blobs
  /\ \E i \in DOMAIN content.blobs : \A j \in DOMAIN content.blobs :
       IF j # i THEN content'.blobs[j] = content.blobs[j]
       ELSE \A f \in DOMAIN content.blobs[i] \ {"data", "size"} :
              content'.blobs[i][f] = content.blobs[i][f]

Edit ==
  /\ AddBlob \/ AddGroup \/ ChangeBlob \/ UNCHANGED content
  /\ outcome' = "none" /\ UNCHANGED stored

(* What a save stores of blobs the program holds: all of each; of one      *)
(* whose data the program never had, zeros in their place.                 *)
Kept(part, whole) ==
  /\ part.groups = whole.groups /\ DOMAIN part.blobs = DOMAIN whole.blobs
  /\ \A i \in DOMAIN whole.blobs :
       LET p == part.blobs[i]
           w == whole.blobs[i]
       IN  \/ p = w
           \/ /\ Len(w.data) < w.size /\ \A f \in DOMAIN w \ {"data"} : p[f] = w[f]
              /\ \A j \in DOMAIN p.data : p.data[j] = 0

Save == outcome' = "saved" /\ Kept(stored', content) /\ UNCHANGED content

Open ==
  /\ outcome' \in {"opened", "mapped", "unreadable"}
  /\ content' = stored /\ UNCHANGED stored

(* A save that does not end, because the program is gone or the device is  *)
(* full: the file holds nothing, or of each blob and each group the part   *)
(* that was written and zeros for the rest.  A blob may lose its label.    *)
Torn(part, whole) ==
  \/ part = Empty
  \/ /\ DOMAIN part.blobs = DOMAIN whole.blobs /\ DOMAIN part.groups = DOMAIN whole.groups
     /\ \A i \in DOMAIN whole.blobs :
          LET p == part.blobs[i]
              w == whole.blobs[i]
          IN  /\ \A f \in DOMAIN w \ {"label", "data"} : p[f] \in {0, w[f]}
              /\ \A j \in DOMAIN p.data :
                   p.data[j] = 0 \/ (j \in DOMAIN w.data /\ p.data[j] = w.data[j])
     /\ \A g \in DOMAIN whole.groups : \A f \in DOMAIN whole.groups[g] :
          part.groups[g][f] \in {0, whole.groups[g][f]}

Interrupted ==
  outcome' = "crashed" /\ content' = Empty /\ Torn(stored', content)

(* A save that is refused has already emptied the file.                    *)
Refused == outcome' = "refused" /\ stored' = Empty /\ UNCHANGED content

(* A device that becomes full.                                             *)
Cut == outcome' = "cut" /\ Torn(stored', content) /\ UNCHANGED content

CNext == Edit \/ Save \/ Open \/ Interrupted \/ Refused \/ Cut

CSpec == CInit /\ [][CNext]_cvars

==============================================================================
