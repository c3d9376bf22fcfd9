------------------------------- MODULE Tokens -------------------------------
(***************************************************************************)
(* The texts the agent gives out or stores and takes back later, when only *)
(* the text tells it what was meant: otpauth URLs, the next_marker of a    *)
(* page, and the ids of files and jobs (agent/state.rs).                   *)
(*                                                                         *)
(* A token is made, may be altered or brought to another place while it is *)
(* away, and comes back.  Bytes are numbers and a text is a sequence of    *)
(* characters only where the code looks at them one by one.                *)
(***************************************************************************)
EXTENDS Integers, Sequences
LOCAL INSTANCE SequencesExt

CONSTANTS
    Urls,       \* otpauth URLs
    MacBytes,   \* what HMAC gives for an algorithm and a counter
    Moments,    \* times at which a code is asked for
    Listings,   \* listings that have pages
    Rows,       \* the rows a page may end at: ids or email addresses
    Vaults,     \* file encryption keys
    Ids,        \* random ids, sequences of bytes
    MaxSealed   \* bound: i32::MAX, what OpenSSL takes in one call

VARIABLES
    token,      \* the text, as it is now
    origin,     \* history: what it was made from and for
    uses        \* history: what the agent made of it, each time it came back

tokenVars == <<token, origin, uses>>

NoToken == [kind |-> "none"]

-----------------------------------------------------------------------------
(***************************************************************************)
(* parse_totp_url: the parameters in their order, a later one in the place *)
(* of an earlier one, each of them valid.  BASE32_NOPAD takes the lengths  *)
(* that whole bytes have, and no padding, space or foreign character.      *)
(***************************************************************************)
Pair(name, value) == [name |-> name, value |-> value]

DecodesBase32(secret) ==
    /\ secret.length > 0
    /\ secret.length % 8 \in {0, 2, 4, 5, 7}
    /\ secret.flaw = "none"

ValidPair(pair) ==
    CASE pair.name = "secret" -> DecodesBase32(pair.value)
      [] pair.name = "digits" -> pair.value \in 1 .. 10
      [] pair.name = "period" -> pair.value > 0
      [] pair.name = "algorithm" -> pair.value \in {"SHA1", "SHA256", "SHA512"}
      [] OTHER -> TRUE

LastOf(pairs, name, default) ==
    LET named == SelectSeq(pairs, LAMBDA pair : pair.name = name)
    IN  IF named = <<>> THEN default ELSE Last(named).value

ParsesTotp(url) ==
    /\ url.scheme = "otpauth" /\ url.host = "totp"
    /\ \A k \in DOMAIN url.pairs : ValidPair(url.pairs[k])
    /\ \E k \in DOMAIN url.pairs : url.pairs[k].name = "secret"

TotpParams(url) ==
    [secret |-> LastOf(url.pairs, "secret", NoToken),
     digits |-> LastOf(url.pairs, "digits", 6),
     period |-> LastOf(url.pairs, "period", 30),
     algorithm |-> LastOf(url.pairs, "algorithm", "SHA1")]

(***************************************************************************)
(* generate_totp_at: the 31 bits at the offset which the last byte names,  *)
(* and as many decimal places of them, with leading zeros.  (10^10 is more *)
(* than 31 bits hold, so that ten digits are the number itself.)           *)
(***************************************************************************)
TruncateHmac(bytes, digits) ==
    LET offset == bytes[Len(bytes)] % 16
        binary == (bytes[offset + 1] % 128) * 16777216 + bytes[offset + 2] * 65536
                  + bytes[offset + 3] * 256 + bytes[offset + 4]
    IN  IF digits = 10 THEN binary ELSE binary % 10^digits

Padded(code, digits) == [k \in 1 .. digits |-> (code \div 10^(digits - k)) % 10]

GenerateTotpAt(url, time) ==
    LET params == TotpParams(url)
    IN  Padded(TruncateHmac(MacBytes[params.algorithm, time \div params.period], params.digits),
               params.digits)

(***************************************************************************)
(* validate_totp_url when the field is stored, current_totp when it is     *)
(* read; what was stored is read any time later.                           *)
(***************************************************************************)
StoreTotp ==
    \E url \in Urls :
        /\ origin = NoToken
        /\ origin' = [kind |-> "totp", url |-> url]
        /\ token' = IF ParsesTotp(url) THEN [kind |-> "totp", url |-> url] ELSE NoToken
        /\ UNCHANGED uses

CurrentTotp ==
    /\ token.kind = "totp"
    /\ Len(uses) < 2
    /\ \E time \in Moments :
           /\ uses # <<>> => Last(uses).time <= time
           /\ uses' = Append(uses, [time |-> time,
                  code |-> IF ParsesTotp(token.url) THEN GenerateTotpAt(token.url, time)
                           ELSE <<>>])
    /\ UNCHANGED <<token, origin>>

-----------------------------------------------------------------------------
(***************************************************************************)
(* AES-256-GCM: who has the key and the nonce reads what was written, and  *)
(* the tag is that of these bytes with this associated data, or none.      *)
(***************************************************************************)
TagOf(key, nonce, plain, aad) == <<key, nonce, plain, aad>>

Aes256GcmEncrypt(key, nonce, plain, aad) ==
    IF Len(plain) > MaxSealed THEN NoToken
    ELSE [kind |-> "sealed", cipher |-> [key |-> key, nonce |-> nonce, plain |-> plain],
          tag |-> TagOf(key, nonce, plain, aad)]

Aes256GcmDecrypts(key, nonce, cipher, aad, tag) ==
    /\ Len(cipher.plain) <= MaxSealed
    /\ tag = TagOf(key, nonce, cipher.plain, aad)
    /\ <<cipher.key, cipher.nonce>> = <<key, nonce>>

(***************************************************************************)
(* PageMarkerScope: what a marker is sealed for.  The items of a directory *)
(* in their usual order have no hash of a query.                           *)
(***************************************************************************)
UnorderedScope(listing) ==
    IF listing.list # "items" \/ (listing.glob = <<>> /\ listing.direction = "asc") THEN <<>>
    ELSE << <<listing.glob>> >>

ItemMarkerScope(listing) ==
    IF listing.list # "items" \/ (listing.glob = <<>> /\ listing.direction = "asc") THEN <<>>
    ELSE << <<listing.direction, listing.glob>> >>

AssociatedData(listing) ==
    CASE listing.list = "dirs" -> <<"monopass:dirs">>
      [] listing.list = "contacts" -> <<"monopass:contacts">>
      [] listing.list = "items" -> <<"monopass:items:", listing.of>> \o ItemMarkerScope(listing)
      [] listing.list = "versions" -> <<"monopass:item-versions:", listing.of>>

IsText(listing) == listing.list = "contacts"

(***************************************************************************)
(* encrypt_page_marker, and for the contacts encrypt_text_page_marker: a   *)
(* version byte, a new nonce, the sealed row and the tag, in base64.  A    *)
(* row id has eight bytes, and so may an email address.                    *)
(***************************************************************************)
EncryptPageMarker ==
    \E listing \in Listings, key \in Vaults, row \in Rows :
        LET sealed == Aes256GcmEncrypt(key, "nonce", row.bytes, AssociatedData(listing))
        IN  /\ origin = NoToken
            /\ row.text = IsText(listing)
            /\ origin' = [kind |-> "marker", listing |-> listing, key |-> key, row |-> row]
            /\ token' = IF sealed = NoToken THEN NoToken
                        ELSE [kind |-> "marker", base64 |-> TRUE, version |-> 1, nonce |-> "nonce",
                              cipher |-> sealed.cipher, tag |-> sealed.tag]
            /\ UNCHANGED uses

(***************************************************************************)
(* On its way a marker is altered somewhere.                               *)
(***************************************************************************)
Altered(t) ==
    {[t EXCEPT !.base64 = FALSE], [t EXCEPT !.version = 2], [t EXCEPT !.nonce = "other"],
     [t EXCEPT !.tag = Append(@, "other")], [t EXCEPT !.cipher.plain = Append(@, 0)],
     [t EXCEPT !.cipher.plain = SubSeq(@, 1, Len(@) - 1)],
     [t EXCEPT !.cipher.plain[1] = 1 - @]}

Unaltered(t, row) ==
    /\ t.base64 /\ t.version = 1 /\ t.nonce = "nonce"
    /\ t.cipher.plain = row.bytes /\ Len(t.tag) = 4

AlterMarker ==
    /\ token.kind = "marker" /\ uses = <<>>
    /\ Unaltered(token, origin.row)
    /\ token' \in Altered(token)
    /\ UNCHANGED <<origin, uses>>

(***************************************************************************)
(* decrypt_page_marker and decrypt_text_page_marker, for the listing and   *)
(* in the vault of the request the marker comes with.                      *)
(***************************************************************************)
RowBytes == 8

LengthFits(listing, cipher) ==
    IF IsText(listing) THEN Len(cipher.plain) > 0 ELSE Len(cipher.plain) = RowBytes

DecryptPageMarker ==
    /\ token.kind = "marker" /\ uses = <<>>
    /\ \E listing \in Listings, key \in Vaults :
           uses' = << [listing |-> listing, key |-> key,
                       row |-> IF /\ token.base64 /\ token.version = 1
                                  /\ LengthFits(listing, token.cipher)
                                  /\ Aes256GcmDecrypts(key, token.nonce, token.cipher,
                                                       AssociatedData(listing), token.tag)
                               THEN token.cipher.plain ELSE <<>>] >>
    /\ UNCHANGED <<token, origin>>

-----------------------------------------------------------------------------
(***************************************************************************)
(* hex_encode and hex_decode_exact: two characters for a byte, and only    *)
(* the small letters are taken back.                                       *)
(***************************************************************************)
Hex == <<"0", "1", "2", "3", "4", "5", "6", "7", "8", "9", "a", "b", "c", "d", "e", "f">>
Capitals == [c \in {"a", "b", "c", "d", "e", "f"} |->
                CASE c = "a" -> "A" [] c = "b" -> "B" [] c = "c" -> "C"
                  [] c = "d" -> "D" [] c = "e" -> "E" [] c = "f" -> "F"]

HexEncode(bytes) ==
    FlattenSeq([k \in DOMAIN bytes |-> <<Hex[bytes[k] \div 16 + 1], Hex[(bytes[k] % 16) + 1]>>])

IsHex(text, n) == Len(text) = 2 * n /\ \A k \in DOMAIN text : text[k] \in Range(Hex)
HexValue(c) == CHOOSE v \in 0 .. 15 : Hex[v + 1] = c
HexDecodeExact(text, n) ==
    IF IsHex(text, n)
    THEN [k \in 1 .. n |-> HexValue(text[2 * k - 1]) * 16 + HexValue(text[2 * k])]
    ELSE <<>>

BlobPath(text) == <<SubSeq(text, 1, 2), text>>

(***************************************************************************)
(* A file is named by its id; the client writes the name as it likes, and  *)
(* the file is looked up by the bytes of it and opened by its text.        *)
(***************************************************************************)
GiveId ==
    \E id \in Ids :
        /\ origin = NoToken
        /\ origin' = [kind |-> "id", id |-> id, path |-> BlobPath(HexEncode(id))]
        /\ token' = [kind |-> "id", text |-> HexEncode(id)]
        /\ UNCHANGED uses

InCapitals(text) ==
    [k \in DOMAIN text |-> IF text[k] \in DOMAIN Capitals THEN Capitals[text[k]] ELSE text[k]]

AlterId ==
    /\ token.kind = "id" /\ uses = <<>>
    /\ token.text = HexEncode(origin.id)
    /\ token' \in {[token EXCEPT !.text = InCapitals(@)], [token EXCEPT !.text = Tail(@)],
                   [token EXCEPT !.text = Append(@, "0")], [token EXCEPT !.text[1] = "g"],
                   [token EXCEPT !.text = Tail(@) \o <<Head(@)>>]}
    /\ UNCHANGED <<origin, uses>>

TakeId ==
    /\ token.kind = "id" /\ uses = <<>>
    /\ uses' = << [id |-> HexDecodeExact(token.text, Len(origin.id)),
                   path |-> IF IsHex(token.text, Len(origin.id))
                            THEN BlobPath(HexEncode(HexDecodeExact(token.text, Len(origin.id))))
                            ELSE <<>>] >>
    /\ UNCHANGED <<token, origin>>

InitTokens == token = NoToken /\ origin = NoToken /\ uses = <<>>

NextTokens ==
    \/ StoreTotp \/ CurrentTotp
    \/ EncryptPageMarker \/ AlterMarker \/ DecryptPageMarker
    \/ GiveId \/ AlterId \/ TakeId

-----------------------------------------------------------------------------
(***************************************************************************)
(* A URL that was stored gives a code at every time (a field which once    *)
(* was accepted can be read ever after): the number of digits it asks for, *)
(* which are the last ones of the longest code of the same secret, and the *)
(* same ones throughout a period.                                          *)
(***************************************************************************)
LongCode(url, time) ==
    GenerateTotpAt([url EXCEPT !.pairs = Append(@, Pair("digits", 10))], time)

CodesAgree ==
    token.kind = "totp" =>
        LET params == TotpParams(token.url)
        IN  \A k \in DOMAIN uses :
               /\ uses[k].code = SubSeq(LongCode(token.url, uses[k].time),
                                        11 - params.digits, 10)
               /\ \A j \in DOMAIN uses :
                      uses[j].time \div params.period = uses[k].time \div params.period
                          => uses[j].code = uses[k].code

(***************************************************************************)
(* A marker continues the listing it was given for and no other: neither   *)
(* another list, another parent, another filter, the other direction nor   *)
(* another vault, and nobody can make it name another row.                 *)
(***************************************************************************)
SameListing(one, other) ==
    /\ one.list = other.list
    /\ one.list \in {"items", "versions"} => one.of = other.of
    /\ one.list = "items" => <<one.glob, one.direction>> = <<other.glob, other.direction>>

MarkersBind ==
    (origin.kind = "marker" /\ uses # <<>>) =>
        \/ uses[1].row = <<>>
        \/ /\ uses[1].row = origin.row.bytes
           /\ uses[1].key = origin.key
           /\ SameListing(uses[1].listing, origin.listing)

(***************************************************************************)
(* An unaltered marker comes back where it belongs: paging never breaks    *)
(* off before the end.                                                     *)
(***************************************************************************)
MarkersContinue ==
    (/\ token.kind = "marker" /\ uses # <<>>
     /\ Unaltered(token, origin.row)
     /\ uses[1].key = origin.key
     /\ SameListing(uses[1].listing, origin.listing)) => uses[1].row = origin.row.bytes

(***************************************************************************)
(* A text names at most one file, an id is written in one way only, and    *)
(* the text that was given out names the file it was given for.            *)
(***************************************************************************)
IdsAgree ==
    (origin.kind = "id" /\ uses # <<>>) =>
        /\ uses[1].id # <<>> => HexEncode(uses[1].id) = token.text
        /\ token.text = HexEncode(origin.id) => uses[1] = [id |-> origin.id, path |-> origin.path]
        /\ uses[1].id = origin.id <=> uses[1].path = origin.path

(***************************************************************************)
(* What comes back is what was given out, or nothing: the conditions above *)
(* for codes, markers and ids.                                             *)
(***************************************************************************)
TokensAgree == CodesAgree /\ MarkersBind /\ MarkersContinue /\ IdsAgree
==============================================================================
