---------------------------- MODULE Detokenizer ----------------------------
(***************************************************************************)
(* DetokenizeManager (python/minisgl/tokenizer/detokenize.py): the text a  *)
(* client is sent, cut from the tokens of its request one at a time.       *)
(*                                                                         *)
(* A token is a short sequence of bytes and need not end where a character *)
(* does.  A byte <<c, 0>> is the whole character c; <<c, 1>> and <<c, 2>>  *)
(* are the two parts of a character of more than one byte.  Characters of  *)
(* one class behave alike: a space, a new line, a letter, a CJK character. *)
(***************************************************************************)
EXTENDS Integers, SequencesExt

CONSTANTS
    Bytes,          \* token -> its bytes
    eos_token_id,   \* a token that is never decoded when it ends a request
    StripsSpace,    \* batch_decode drops a space the decoded ids start with
    MaxIds          \* bound: tokens of a request the runs decode

ASSUME DetokenizerAssumptions ==
    /\ eos_token_id \in DOMAIN Bytes
    /\ StripsSpace \in BOOLEAN /\ MaxIds \in Nat

Space   == " "
NewLine == "nl"
CJK     == "cjk"
Bad     == "bad"    \* what part of a character decodes to

(* tokenizer.batch_decode, for lists of up to MaxIds tokens. *)
Decode ==
    LET bytes(ids) == FlattenSeq([i \in DOMAIN ids |-> Bytes[ids[i]]])
        chars(b) ==
            LET text[i \in 0..Len(b)] ==
                    IF i = 0 THEN <<>>
                    ELSE IF b[i][2] = 0 THEN Append(text[i - 1], b[i][1])
                    ELSE IF b[i][2] = 2 /\ i > 1 /\ b[IF i > 1 THEN i - 1 ELSE i] = <<b[i][1], 1>>
                         THEN Append(Front(text[i - 1]), b[i][1])
                    ELSE Append(text[i - 1], Bad)
            IN  text[Len(b)]
        trim(text) == IF StripsSpace /\ text # <<>> /\ Head(text) = Space THEN Tail(text)
                      ELSE text
    IN  [ids \in BoundedSeq(DOMAIN Bytes, MaxIds) |-> trim(chars(bytes(ids)))]

_is_chinese_char(c) == c = CJK

(* find_printable_text: the longest part of the text that further tokens    *)
(* are not expected to change.                                              *)
find_printable_text(text) ==
    LET n == Len(text)
        words == {i \in 1..n : text[i] = Space}
    IN  IF n > 0 /\ text[n] = NewLine THEN text
        ELSE IF n > 0 /\ _is_chinese_char(text[n]) THEN text
        ELSE IF n > 1 /\ _is_chinese_char(text[n - 1]) THEN Front(text)
        ELSE SubSeq(text, 1, IF words = {} THEN 0 ELSE CHOOSE i \in words : \A j \in words : j <= i)

NewStatus == [decoded_ids |-> <<>>, decoded_str |-> <<>>,
              read_offset |-> 0, surr_offset |-> 0, sent_offset |-> 0]

(* Seeded faults, here and below: used by no specification, each shows that *)
(* a property notices what it is named after.                               *)
Offsets_NoSurround(s) == [s EXCEPT !.surr_offset = Len(s.decoded_ids),
                                   !.read_offset = Len(s.decoded_ids)]

(* The offsets once the new text has been decoded to its end. *)
Offsets(s) == [s EXCEPT !.surr_offset = s.read_offset,
                        !.read_offset = Len(s.decoded_ids)]

AddToken(s, id, finished) ==
    IF finished /\ id = eos_token_id THEN s
    ELSE [s EXCEPT !.decoded_ids = Append(@, id)]

(* One message of detokenize: the text to send and the status after it. *)
Detokenized(status, id, finished) ==
    LET s == AddToken(status, id, finished)
        read_str == Decode[SubSeq(s.decoded_ids, s.surr_offset + 1, Len(s.decoded_ids))]
        surr_str == Decode[SubSeq(s.decoded_ids, s.surr_offset + 1, s.read_offset)]
        new_text == SubSeq(read_str, Len(surr_str) + 1, Len(read_str))
        complete == new_text # <<>> /\ Last(new_text) # Bad
        output_str == s.decoded_str \o (IF complete THEN new_text
                                        ELSE find_printable_text(new_text))
        moved == IF complete THEN [Offsets(s) EXCEPT !.decoded_str = output_str] ELSE s
    IN  [text |-> SubSeq(output_str, s.sent_offset + 1, Len(output_str)),
         status |-> [moved EXCEPT !.sent_offset = Len(output_str)]]

-----------------------------------------------------------------------------
(* One request, token by token. *)

VARIABLES
    decode_status,  \* decode_map[uid]
    received,       \* what the client has been sent
    cut_back        \* ghost: text already sent was held back again

detok_vars == <<decode_status, received, cut_back>>

DetokInit == decode_status = NewStatus /\ received = <<>> /\ cut_back = FALSE

DetokNext ==
    \E id \in DOMAIN Bytes :
        LET d == Detokenized(decode_status, id, FALSE)
        IN  /\ Len(decode_status.decoded_ids) < MaxIds
            /\ decode_status' = d.status
            /\ received' = received \o d.text
            /\ cut_back' = (cut_back \/ d.status.sent_offset < decode_status.sent_offset)

(* What a client was sent is the beginning of what its tokens decode to     *)
(* together, although each reply decodes a few of them, and all of it when   *)
(* the last token ended a character: no text is sent twice or skipped, and   *)
(* no unfinished character is sent.  The case left out is                   *)
(* find_printable_text taking back a CJK character it had released, when    *)
(* one token ends a character and begins the next.                          *)
SentTextIsDecoded ==
    LET all == Decode[decode_status.decoded_ids]
    IN  ~cut_back => /\ IsPrefix(received, all)
                     /\ all # <<>> /\ Last(all) # Bad => received = all

=============================================================================
