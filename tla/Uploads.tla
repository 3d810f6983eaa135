------------------------------- MODULE Uploads -------------------------------
(***************************************************************************)
(* Uploads of images: the checks, the file under a name made of the time   *)
(* in milliseconds and the kind of image, and the command upgit that may   *)
(* send it elsewhere; and uploads of files to import.                      *)
(*                                                                         *)
(* An upload makes one step per system call.  What a file holds is the     *)
(* upload that wrote it, and whether it is all of it.                      *)
(***************************************************************************)
EXTENDS Integers, FiniteSets

CONSTANTS
    Images,   \* requests to upload
    Offers,   \* what may be uploaded
    Modes,    \* the settings to consider
    MaxMilli  \* bound on the clock

(* A file that is uploaded: its type, which is no image perhaps, the size  *)
(* that the request declares and the one it has, in units of which         *)
(* max_size is one; and whether an administrator sends it.                 *)
Offer == [type : {"jpg", "png", "none"}, declared : 0..2, size : 0..2, admin : BOOLEAN]
(* img_upload: enabled, max_size, upgit.enabled and upgit.del_local.       *)
Mode == [on : BOOLEAN, max : {0, 1}, upgit : BOOLEAN, del : BOOLEAN]

ASSUME UploadAssumption == Offers \subseteq Offer /\ Modes \subseteq Mode /\ MaxMilli \in Nat

FileNames == (0..MaxMilli) \X {"jpg", "png"}
NoName == <<0, "none">>
Nothing == [by |-> {}, whole |-> FALSE]
Stored == [by : SUBSET Images, whole : BOOLEAN]

VARIABLES
    mode,    \* the settings
    milli,   \* the clock
    offer,   \* what every request uploads
    upload,  \* every request: its step, the name of its file
    disk,    \* img_upload.path: name -> what it holds; Absent
    remote,  \* what upgit sent for every request
    temp,    \* temporary files for the importer, one per request
    shared,  \* history: requests whose name another one used as well
    kept     \* history: requests whose file could not be removed

uploadVars == <<mode, milli, offer, upload, disk, remote, temp, shared, kept>>

NoImage == [by |-> {}, whole |-> TRUE]

UploadInit ==
    /\ mode \in Modes /\ milli = 0 /\ offer \in [Images -> Offers]
    /\ upload = [u \in Images |-> [pc |-> "idle", name |-> NoName]]
    /\ disk = [n \in FileNames |-> NoImage]
    /\ remote = [u \in Images |-> Nothing] /\ temp = [u \in Images |-> NoImage]
    /\ shared = {} /\ kept = {}

Reaches(u, pc) == upload' = [upload EXCEPT ![u].pc = pc]
Unmoved == UNCHANGED <<mode, milli, offer, kept>>
Still == Unmoved /\ UNCHANGED <<disk, remote, temp, shared>>

-----------------------------------------------------------------------------
(* Refused before a file is made: uploads are off and the sender is no     *)
(* administrator; the request declares too much.                           *)
Guard(u) ==
    /\ upload[u].pc = "idle"
    /\ Reaches(u, IF \/ ~ mode.on /\ ~ offer[u].admin
                     \/ mode.max # 0 /\ offer[u].declared > mode.max
                  THEN "refused" ELSE "read")
    /\ Still

(* After it was read: it is too much, or no image.                         *)
TooBig(u) == mode.max # 0 /\ offer[u].size > mode.max
Check(u) ==
    /\ upload[u].pc = "read"
    /\ \/ Reaches(u, IF TooBig(u) \/ offer[u].type = "none" THEN "refused" ELSE "create")
       \/ Reaches(u, "refused")
    /\ Still

(* os.Create empties a file that is there.                                 *)
Create(u) ==
    /\ upload[u].pc = "create"
    /\ LET n == <<milli, offer[u].type>>
       IN \/ /\ upload' = [upload EXCEPT ![u] = [pc |-> "write", name |-> n]]
             /\ disk' = [disk EXCEPT ![n] = Nothing]
             /\ shared' = LET same == {v \in Images \ {u} : upload[v].name = n}
                          IN shared \cup same \cup (IF same = {} THEN {} ELSE {u})
             /\ Unmoved /\ UNCHANGED <<remote, temp>>
          \/ Reaches(u, "failed") /\ Still

(* The bytes are written over those that another upload has written, which *)
(* reach further or not; a file whose write fails stays, and one that was  *)
(* removed meanwhile is gone.                                              *)
Write(u) ==
    /\ upload[u].pc = "write"
    /\ LET n == upload[u].name
           over == IF disk[n] = NoImage THEN NoImage ELSE [by |-> {u}, whole |-> TRUE]
           both == IF disk[n] = NoImage THEN NoImage
                    ELSE [by |-> disk[n].by \cup {u}, whole |-> TRUE]
           part == IF disk[n] = NoImage THEN NoImage
                   ELSE [by |-> disk[n].by \cup {u}, whole |-> FALSE]
       IN \/ /\ Reaches(u, IF mode.upgit THEN "upgit" ELSE "answer")
             /\ \E c \in {over, both} : disk' = [disk EXCEPT ![n] = c]
          \/ Reaches(u, "failed") /\ disk' = [disk EXCEPT ![n] = part]
    /\ Unmoved /\ UNCHANGED <<remote, temp, shared>>

(* The command reads the file as it is then; without a file, or when it    *)
(* prints no address, the upload has failed, whatever was sent.            *)
Upgit(u) ==
    /\ upload[u].pc = "upgit"
    /\ \/ /\ disk[upload[u].name] # NoImage
          /\ remote' = [remote EXCEPT ![u] = disk[upload[u].name]]
          /\ Reaches(u, IF mode.del THEN "delete" ELSE "answer")
       \/ /\ Reaches(u, "remove")
          /\ \E r \in {remote[u], disk[upload[u].name]} : remote' = [remote EXCEPT ![u] = r]
    /\ Unmoved /\ UNCHANGED <<disk, temp, shared>>

(* os.Remove; where it fails the file stays, and the request goes on as if *)
(* it had not: the error is only logged.                                   *)
DelLocal_IfSent(u) ==
    /\ upload[u].pc \in {"delete", "remove"}
    /\ Reaches(u, IF upload[u].pc = "delete" THEN "answer" ELSE "failed")
    /\ disk' = IF upload[u].pc = "delete" THEN [disk EXCEPT ![upload[u].name] = NoImage] ELSE disk
    /\ UNCHANGED <<mode, milli, offer, remote, temp, shared, kept>>
DelLocal(u) ==
    /\ upload[u].pc \in {"delete", "remove"}
    /\ Reaches(u, IF upload[u].pc = "delete" THEN "answer" ELSE "failed")
    /\ \/ disk' = [disk EXCEPT ![upload[u].name] = NoImage] /\ UNCHANGED kept
       \/ kept' = kept \cup {u} /\ UNCHANGED disk
    /\ UNCHANGED <<mode, milli, offer, remote, temp, shared>>

(* The address is answered; whoever opens it sees what is there then.      *)
Answer(u) ==
    /\ upload[u].pc = "answer" /\ Reaches(u, "done") /\ Still

(* A file to import: the name of a new temporary file is answered, whether *)
(* or not the file could be written.                                       *)
TransferUpload(u) ==
    /\ upload[u].pc = "idle" /\ offer[u].admin
    /\ \/ \E w \in BOOLEAN : temp' = [temp EXCEPT ![u] = [by |-> {u}, whole |-> w]]
                             /\ Reaches(u, "temp")
       \/ Reaches(u, "failed") /\ UNCHANGED temp
    /\ Unmoved /\ UNCHANGED <<disk, remote, shared>>

Milli == milli < MaxMilli /\ milli' = milli + 1 /\ UNCHANGED <<mode, offer, upload, disk, remote,
                                                             temp, shared, kept>>

UploadNext ==
    \/ \E u \in Images : \/ Guard(u) \/ Check(u) \/ Create(u) \/ Write(u) \/ Upgit(u) \/ DelLocal(u)
                         \/ Answer(u) \/ TransferUpload(u)
    \/ Milli
UploadSpec == UploadInit /\ [][UploadNext]_uploadVars

-----------------------------------------------------------------------------
(* The states of the module.                                               *)
UploadTypeOK ==
    /\ mode \in Modes /\ milli \in 0..MaxMilli /\ offer \in [Images -> Offers]
    /\ disk \in [FileNames -> Stored] /\ remote \in [Images -> Stored]
    /\ temp \in [Images -> Stored] /\ shared \subseteq Images /\ kept \subseteq Images
    /\ \A u \in Images : upload[u].name \in FileNames \cup {NoName}

(* An address that is answered shows the image that was uploaded, all of   *)
(* it; and an image whose name is used by no other upload is touched by    *)
(* none.  Names are shared only by uploads of one kind in one millisecond  *)
(* (upload.go:130).                                                        *)
LinksOwn ==
    \A u \in Images :
        LET image == [by |-> {u}, whole |-> TRUE] IN
        /\ upload[u].pc = "done" /\ u \notin shared =>
              /\ mode.upgit => remote[u] = image
              /\ ~ (mode.upgit /\ mode.del) => disk[upload[u].name] = image
        /\ u \in shared => \E v \in Images \ {u} : offer[v].type = offer[u].type

(* What the checks refuse never becomes a file, nor is it sent elsewhere;  *)
(* a file mixes only the uploads that have its name; and what upgit could  *)
(* not take, or what is to be deleted afterwards, leaves no whole file     *)
(* behind, unless the file could not be removed: then all of it stays      *)
(* (upload.go:172-175, 183-186).  A file whose write failed is left.       *)
NothingLeft ==
    /\ \A u \in Images : \A n \in FileNames :
          u \in disk[n].by \cup remote[u].by =>
              /\ mode.on \/ offer[u].admin
              /\ mode.max # 0 => offer[u].size <= mode.max
              /\ u \in disk[n].by => upload[u].name = n /\ offer[u].type = n[2]
    /\ \A u \in Images \ shared :
          LET file == disk[upload[u].name] IN
          /\ upload[u].pc = "failed" \/ (upload[u].pc = "done" /\ mode.upgit /\ mode.del) =>
                u \in kept \/ upload[u].name = NoName \/ file = NoImage \/ ~ file.whole
          /\ u \in kept => mode.upgit /\ file = [by |-> {u}, whole |-> TRUE]

(* Uploads keep what they were given, and nothing else.                    *)
UploadsSound == UploadTypeOK /\ LinksOwn /\ NothingLeft
=============================================================================
