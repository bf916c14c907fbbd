------------------------------- MODULE Avatars -------------------------------
(***************************************************************************)
(* Pictures.  A contact's comes on two ways: announced by a notification   *)
(* and fetched from the contact's PEP node (XEP-0084), or taken from the   *)
(* contact's vCard (XEP-0054).  Either one goes to the screen and to a     *)
(* file that outlives the program.  The user's own picture is cut out of   *)
(* an image file, kept in a file of its own and published.                 *)
(***************************************************************************)
EXTENDS Integers, Sequences, FiniteSets

CONSTANTS
  Friends,       \* contacts
  Pictures,      \* of each contact, numbers above 0
  Width, Height, \* of an image file of the user, in multiples of 10
  MaxShots,      \* bound: what contacts and the user do with pictures
  MaxFetches,    \* bound: vCards asked for
  MaxBreaks      \* bound: new sessions and starts

VARIABLES
  pep, photo,    \* external: each contact's picture on its PEP node, in its vCard
  wanted,        \* IQs on their way to the server
  incoming,      \* stanzas on their way back
  pendingVcards, \* the id of an IQ, and whom it asked about
  known,         \* avatar_cache, what is on the screen
  kept,          \* the avatars directory
  crop,          \* crop_state with crop_raw: the image and where it is cut
  ownFile,       \* own_avatar.png
  published,     \* external: metadata and data of the user's picture at the server
  pushes,        \* publishing IQs under way
  uploads,       \* SetAvatar on its way to the engine
  shots, fetches, breaks \* history: counters for the bounds

avVars == <<pep, photo, wanted, incoming, pendingVcards, known, kept, crop, ownFile, published,
            pushes, uploads, shots, fetches, breaks>>
peers  == <<pep, photo>>
stream == <<wanted, incoming>>
faces  == <<known, kept>>
own    == <<crop, ownFile, published, pushes, uploads>>

NoFace == 0
Faces == [Friends -> {NoFace} \cup UNION {Pictures[f] : f \in Friends}]
Shot == shots < MaxShots /\ shots' = shots + 1 /\ UNCHANGED <<fetches, breaks>>
Quietly == UNCHANGED <<shots, fetches, breaks>>
Put(f, k, v) == [x \in DOMAIN f \cup {k} |-> IF x = k THEN v ELSE f[x]]

Init ==
  /\ pep = [f \in Friends |-> NoFace]
  /\ photo \in {r \in Faces : \A f \in Friends : r[f] \in Pictures[f] \cup {NoFace}}
  /\ wanted = <<>> /\ incoming = <<>> /\ pendingVcards = <<>>
  /\ known = [f \in Friends |-> NoFace] /\ kept = known
  /\ crop = <<>> /\ ownFile = <<>> /\ uploads = {}
  /\ published = [meta |-> <<>>, data |-> <<>>] /\ pushes = <<>>
  /\ shots = 0 /\ fetches = 0 /\ breaks = 0

-----------------------------------------------------------------------------
(* Contacts and the server.                                                  *)

\* A new picture: announced to those who are connected.
Publish(f, p) ==
  /\ Shot /\ pep' = [pep EXCEPT ![f] = p]
  /\ incoming' = Append(incoming, [kind |-> "metadata", of |-> f, id |-> p])
  /\ UNCHANGED <<photo, wanted, pendingVcards, faces, own>>

\* A vCard is changed without a word.
SetPhoto(f, p) ==
  /\ Shot /\ photo' = [photo EXCEPT ![f] = p]
  /\ UNCHANGED <<pep, stream, pendingVcards, faces, own>>

Answer(q) ==
  IF q.kind = "vcard" THEN [kind |-> "vcard", of |-> q.id, id |-> photo[q.of]]
  ELSE [kind |-> IF pep[q.of] = q.id THEN "data" ELSE "error", of |-> q.of, id |-> q.id]

Serve ==
  /\ wanted # <<>> /\ wanted' = Tail(wanted)
  /\ incoming' = Append(incoming, Answer(Head(wanted)))
  /\ Quietly /\ UNCHANGED <<peers, pendingVcards, faces, own>>

-----------------------------------------------------------------------------
(* The engine, and what the window makes of its events.                      *)

\* build_vcard_request: the id is remembered with the contact.
FetchAvatar(f) ==
  /\ fetches < MaxFetches /\ fetches' = fetches + 1
  /\ pendingVcards' = Put(pendingVcards, fetches', f)
  /\ wanted' = Append(wanted, [kind |-> "vcard", of |-> f, id |-> fetches'])
  /\ UNCHANGED <<peers, incoming, faces, own, shots, breaks>>

\* AvatarReceived, AvatarUpdated: on the screen and, unless that fails, on disk.
Show(f, p) ==
  /\ known' = [known EXCEPT ![f] = p]
  /\ kept' \in {kept, [kept EXCEPT ![f] = p]}

OnAvatarMetadataEvent(e) ==
  /\ wanted' = Append(wanted, [kind |-> "data", of |-> e.of, id |-> e.id])
  /\ UNCHANGED <<pendingVcards, faces>>

OnAvatarDataResult(e) == Show(e.of, e.id) /\ UNCHANGED <<wanted, pendingVcards>>

\* (mutant) The contact last asked about.
OnVcardResultLast(e) ==
  /\ e.of \in DOMAIN pendingVcards
  /\ pendingVcards' = [i \in DOMAIN pendingVcards \ {e.of} |-> pendingVcards[i]]
  /\ IF e.id = NoFace THEN UNCHANGED faces ELSE Show(pendingVcards[fetches], e.id)
  /\ UNCHANGED wanted

\* The id says whose vCard it is; a vCard without a photo changes nothing.
OnVcardResult(e) ==
  /\ e.of \in DOMAIN pendingVcards
  /\ pendingVcards' = [i \in DOMAIN pendingVcards \ {e.of} |-> pendingVcards[i]]
  /\ IF e.id = NoFace THEN UNCHANGED faces ELSE Show(pendingVcards[e.of], e.id)
  /\ UNCHANGED wanted

Receive ==
  /\ incoming # <<>> /\ incoming' = Tail(incoming)
  /\ LET e == Head(incoming) IN
       \/ e.kind = "metadata" /\ OnAvatarMetadataEvent(e)
       \/ e.kind = "data" /\ OnAvatarDataResult(e)
       \/ e.kind = "vcard" /\ OnVcardResult(e)
       \/ e.kind = "error" /\ UNCHANGED <<wanted, pendingVcards, faces>>
  /\ Quietly /\ UNCHANGED <<peers, own>>

\* SetAvatar: the metadata first, then the data.
SetAvatar(c) ==
  /\ c \in uploads /\ uploads' = uploads \ {c}
  /\ pushes' = pushes \o <<<<"meta", c>>, <<"data", c>>>>
  /\ Quietly /\ UNCHANGED <<peers, stream, pendingVcards, faces, crop, ownFile, published>>

ServerStores ==
  /\ pushes # <<>> /\ pushes' = Tail(pushes)
  /\ published' = [published EXCEPT ![Head(pushes)[1]] = Head(pushes)[2]]
  /\ Quietly /\ UNCHANGED <<peers, stream, pendingVcards, faces, crop, ownFile, uploads>>

\* What is pending belongs to a session; answers of an earlier one are lost.
NewSession ==
  /\ breaks < MaxBreaks /\ breaks' = breaks + 1
  /\ wanted' = <<>> /\ incoming' = <<>> /\ pendingVcards' = <<>> /\ pushes' = <<>>
  /\ UNCHANGED <<peers, faces, crop, ownFile, published, uploads, shots, fetches>>

\* load_avatar_cache
Restart ==
  /\ breaks < MaxBreaks /\ breaks' = breaks + 1
  /\ wanted' = <<>> /\ incoming' = <<>> /\ pendingVcards' = <<>> /\ pushes' = <<>>
  /\ known' = kept /\ uploads' = {} /\ crop' = <<>>
  /\ UNCHANGED <<peers, kept, ownFile, published, shots, fetches>>

-----------------------------------------------------------------------------
(* The user's own picture. Fractions are tenths, the zoom a whole number.    *)

Least(a, b) == IF a <= b THEN a ELSE b
Most(a, b) == IF a >= b THEN a ELSE b
Less(a, b) == IF a >= b THEN a - b ELSE 0

NewCrop == [x |-> 5, y |-> 5, radius |-> 4, zoom |-> 1]

\* crop_rect: the corner and the side of the square that is cut out.
CropRect(c) ==
  LET reach == (c.radius * Least(Width, Height) * c.zoom) \div 10
      side  == 2 * reach
  IN [left |-> Least(Less((c.x * Width) \div 10, reach), Less(Width, side)),
      top  |-> Least(Less((c.y * Height) \div 10, reach), Less(Height, side)),
      side |-> side]

\* AvatarCropApply and AvatarSelected follow every change: the picture is kept
\* and published at once.
Apply(c) ==
  /\ crop' = c /\ ownFile' = CropRect(c) /\ uploads' = uploads \cup {CropRect(c)}
  /\ UNCHANGED <<peers, stream, pendingVcards, faces, published, pushes>>

AvatarFilePicked == Shot /\ Apply(NewCrop)

\* No widget of the settings sends these three yet.
Clamp(v, lo, hi) == Least(Most(v, lo), hi)
AvatarCropPan(dx, dy) ==
  Shot /\ crop # <<>> /\ Apply([crop EXCEPT !.x = Clamp(@ + dx, 0, 10), !.y = Clamp(@ + dy, 0, 10)])
AvatarCropZoom(z) == Shot /\ crop # <<>> /\ Apply([crop EXCEPT !.zoom = Clamp(z, 1, 4)])
AvatarCropRadius(r) == Shot /\ crop # <<>> /\ Apply([crop EXCEPT !.radius = Clamp(r, 1, 5)])

Next ==
  \/ \E f \in Friends : FetchAvatar(f) \/ \E p \in Pictures[f] : Publish(f, p) \/ SetPhoto(f, p)
  \/ Serve \/ Receive \/ ServerStores \/ NewSession \/ Restart \/ AvatarFilePicked
  \/ \E c \in uploads : SetAvatar(c)
  \/ \E dx \in {-5, 0, 6}, dy \in {-6, 5} : AvatarCropPan(dx, dy)
  \/ \E v \in {0, 1, 3, 5, 6} : AvatarCropZoom(v) \/ AvatarCropRadius(v)

Spec == Init /\ [][Next]_avVars

-----------------------------------------------------------------------------

TypeOK ==
  /\ {pep, photo, known, kept} \subseteq Faces
  /\ \A i \in DOMAIN wanted : wanted[i].kind \in {"vcard", "data"} /\ wanted[i].of \in Friends
  /\ \A i \in DOMAIN pendingVcards : i \in 1..MaxFetches /\ pendingVcards[i] \in Friends
  /\ shots \in 0..MaxShots /\ fetches \in 0..MaxFetches /\ breaks \in 0..MaxBreaks

\* A contact is shown with a picture of that contact, and the file keeps no
\* other one, although a vCard does not say whose it is, and ids, sessions and
\* the writes that fail come and go.
FaceIsTheirs ==
  \A f \in Friends : known[f] \in Pictures[f] \cup {NoFace} /\ kept[f] \in Pictures[f] \cup {NoFace}

\* XEP-0084 is the way a picture comes, and vCard-temp "legacy avatar via IQ
\* vCard, used as fallback": with nothing under way, a contact that has
\* published a picture is shown with it.
VcardIsFallback ==
  wanted = <<>> /\ incoming = <<>> /\ breaks = 0 =>
    \A f \in Friends : pep[f] # NoFace => known[f] = pep[f]

\* "Clamp so the crop rect stays inside the image."
CropInside ==
  crop # <<>> => LET r == CropRect(crop) IN r.left + r.side <= Width /\ r.top + r.side <= Height

\* The user's picture can be fetched as soon as it is announced.
AnnouncedIsThere == published.meta # <<>> => published.data = published.meta
=============================================================================
