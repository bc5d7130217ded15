-------------------------------- MODULE Vault --------------------------------
(***************************************************************************)
(* The raw artifact vault (vault/raw_store.py), for the bytes of one       *)
(* digest: a blob published by a hard link of a temporary file, and a      *)
(* metadata file written under one fixed temporary name and moved over.    *)
(***************************************************************************)
EXTENDS Naturals, FiniteSets

CONSTANTS
    Putter,         \* processes that put the bytes
    MediaType,
    MaxPutDeaths    \* bound on deaths of putters

ASSUME VaultAssumption == {"absent", "empty"} \cap MediaType = {}

VARIABLES
    blob,       \* whether the blob is published
    meta,       \* the metadata file: "absent", "empty" or the media type in it
    temp,       \* the file under the fixed temporary name, likewise
    file,       \* where the file a putter has open is now: "none", "temp", "meta"
                \*   or "gone"
    put,        \* put_bytes of each putter: [pc, type]
    receipts,   \* receipts returned: [putter, type]
    overlapped, \* whether two puts ever ran at once
    putDeaths

vaultVars == <<blob, meta, temp, file, put, receipts, overlapped, putDeaths>>

VaultInit ==
    /\ blob = FALSE /\ meta = "absent" /\ temp = "absent" /\ file = [p \in Putter |-> "none"]
    /\ put = [p \in Putter |-> [pc |-> "idle", type |-> "none"]]
    /\ receipts = {} /\ overlapped = FALSE /\ putDeaths = 0

Puts(p, pc) == put[p].pc = pc
To(p, pc) == put' = [put EXCEPT ![p].pc = pc]

\* put_bytes(raw, media_type): is the blob there already?
Put(p, t) ==
    /\ Puts(p, "idle")
    /\ put' = [put EXCEPT ![p] = [pc |-> IF blob THEN "meta" ELSE "link", type |-> t]]
    /\ overlapped' = (overlapped \/ \E q \in Putter \ {p} : put[q].pc # "idle")
    /\ UNCHANGED <<blob, meta, temp, file, receipts, putDeaths>>

\* The whole temporary file is linked; one published meanwhile is compared.
Link(p) ==
    /\ Puts(p, "link")
    /\ blob' = TRUE
    /\ To(p, "meta")
    /\ UNCHANGED <<meta, temp, file, receipts, overlapped, putDeaths>>

\* Faulty variant: metadata that does not match is taken for a match.
MetaThereUnread(p) ==
    /\ Puts(p, "meta") /\ meta # "absent"
    /\ receipts' = receipts \union {[putter |-> p, type |-> put[p].type]}
    /\ To(p, "idle")
    /\ UNCHANGED <<blob, meta, temp, file, overlapped, putDeaths>>

\* _write_metadata: what is there must be the same, byte for byte.
MetaThere(p) ==
    /\ Puts(p, "meta") /\ meta # "absent"
    /\ receipts' = IF meta = put[p].type
                   THEN receipts \union {[putter |-> p, type |-> put[p].type]} ELSE receipts
    /\ To(p, "idle")
    /\ UNCHANGED <<blob, meta, temp, file, overlapped, putDeaths>>

\* The temporary file is opened, which empties it; it is one file for all.
OpenTemp(p) ==
    /\ Puts(p, "meta") /\ meta = "absent"
    /\ temp' = "empty"
    /\ file' = [file EXCEPT ![p] = "temp"]
    /\ To(p, "write")
    /\ UNCHANGED <<blob, meta, receipts, overlapped, putDeaths>>

\* The body is written to the open file, wherever that file is by now.
WriteTemp(p) ==
    /\ Puts(p, "write")
    /\ meta' = IF file[p] = "meta" THEN put[p].type ELSE meta
    /\ temp' = IF file[p] = "temp" THEN put[p].type ELSE temp
    /\ file' = [file EXCEPT ![p] = "none"]
    /\ To(p, "move")
    /\ UNCHANGED <<blob, receipts, overlapped, putDeaths>>

\* os.replace(tmp, path): what has that name now becomes the metadata.
MoveTemp(p) ==
    /\ Puts(p, "move") /\ temp # "absent"
    /\ meta' = temp /\ temp' = "absent"
    /\ file' = [q \in Putter |-> IF file[q] = "temp" THEN "meta"
                                 ELSE IF file[q] = "meta" THEN "gone" ELSE file[q]]
    /\ To(p, "moved")
    /\ UNCHANGED <<blob, receipts, overlapped, putDeaths>>

\* Somebody else moved it: RAW_VAULT_WRITE_FAILED.
MoveFails(p) ==
    /\ Puts(p, "move") /\ temp = "absent"
    /\ To(p, "failed")
    /\ UNCHANGED <<blob, meta, temp, file, receipts, overlapped, putDeaths>>

\* finally: the temporary name is unlinked, whoever uses it by now.
UnlinkTemp(p) ==
    /\ Puts(p, "moved") \/ Puts(p, "failed")
    /\ temp' = "absent"
    /\ file' = [q \in Putter |-> IF file[q] = "temp" THEN "gone" ELSE file[q]]
    /\ receipts' = IF Puts(p, "moved")
                   THEN receipts \union {[putter |-> p, type |-> put[p].type]} ELSE receipts
    /\ To(p, "idle")
    /\ UNCHANGED <<blob, meta, overlapped, putDeaths>>

PutterDies(p) ==
    /\ ~Puts(p, "idle") /\ putDeaths < MaxPutDeaths
    /\ putDeaths' = putDeaths + 1
    /\ file' = [file EXCEPT ![p] = "none"]
    /\ To(p, "idle")
    /\ UNCHANGED <<blob, meta, temp, receipts, overlapped>>

VaultNext ==
    \E p \in Putter :
        \/ \E t \in MediaType : Put(p, t)
        \/ Link(p) \/ MetaThere(p) \/ OpenTemp(p) \/ WriteTemp(p) \/ MoveTemp(p)
        \/ MoveFails(p) \/ UnlinkTemp(p) \/ PutterDies(p)

VaultSpec == VaultInit /\ [][VaultNext]_vaultVars

-----------------------------------------------------------------------------

VaultTypeOK ==
    /\ blob \in BOOLEAN /\ overlapped \in BOOLEAN
    /\ meta \in {"absent", "empty"} \union MediaType
    /\ temp \in {"absent", "empty"} \union MediaType

\* A receipt means the bytes are published, and, as long as no two puts ran at
\* once, that the metadata is whole and of the receipt's media type, whatever
\* earlier puts died half-way.  (Two at once share the temporary file: one can
\* publish it empty, and a death of the other leaves it so.)
ReceiptsAreBacked ==
    \A r \in receipts : blob /\ (~overlapped => meta = r.type)
=============================================================================
