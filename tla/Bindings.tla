------------------------------ MODULE Bindings ------------------------------
(***************************************************************************)
(* The C interface as trustm-sys/src/bindings.rs declares it: constants,   *)
(* the structs passed by pointer, and the functions the crate calls.       *)
(*                                                                         *)
(* A call is what the C side gets to see: the numbers, each in the width   *)
(* of its parameter; what a void pointer points to, with the flag that     *)
(* tells C how to read it; and the room it is told to have for each        *)
(* output, 0 where the signature has no length.  Byte buffers are left     *)
(* out, `me` and the handler belong to Trustm.                             *)
(***************************************************************************)
EXTENDS Naturals, Sequences

(* The first number that does not fit a u32: TLC has no 2^32. *)
CONSTANT U32Size

ASSUME U32SizeAssumption == U32Size \in Nat /\ U32Size > 65536

U8(n)  == n % 256
U16(n) == n % 65536
U32(n) == n % U32Size

OPTIGA_CRYPT_HOST_DATA == 1
OPTIGA_CRYPT_OID_DATA == 0
OPTIGA_UTIL_WRITE_ONLY == 0
OPTIGA_UTIL_ERASE_AND_WRITE == 64
OPTIGA_HASH_TYPE_SHA_256 == 226
OPTIGA_RSAES_PKCS1_V15 == 17

optiga_key_id ==
  [E0F0 |-> 57584, E0F1 |-> 57585, E0F2 |-> 57586, E0F3 |-> 57587,
   E0FC |-> 57596, E0FD |-> 57597, SESSION_BASED |-> 0, SECRET_BASED |-> 57856]

optiga_key_usage ==
  [AUTHENTICATION |-> 1, ENCRYPTION |-> 2, SIGN |-> 16, KEY_AGREEMENT |-> 32]

optiga_ecc_curve ==
  [NIST_P_256 |-> 3, NIST_P_384 |-> 4, NIST_P_521 |-> 5,
   BRAIN_POOL_P_256R1 |-> 19, BRAIN_POOL_P_384R1 |-> 21, BRAIN_POOL_P_512R1 |-> 22]

optiga_rsa_key_type ==
  [RSA_KEY_1024_BIT_EXPONENTIAL |-> 65, RSA_KEY_2048_BIT_EXPONENTIAL |-> 66]

optiga_rsa_signature_scheme == [SHA256 |-> 1, SHA384 |-> 2, SHA512 |-> 3]
optiga_rng_type             == [TRNG |-> 0, DRNG |-> 1]
optiga_hmac_type            == [SHA_256 |-> 32, SHA_384 |-> 33, SHA_512 |-> 34]
optiga_hkdf_type            == [SHA_256 |-> 8, SHA_384 |-> 9, SHA_512 |-> 10]
optiga_tls_prf_type         == [SHA_256 |-> 1, SHA_384 |-> 2, SHA_512 |-> 3]
optiga_symmetric_key_type   == [AES_128 |-> 129, AES_192 |-> 130, AES_256 |-> 131]

-----------------------------------------------------------------------------
(* What a void pointer may point to. *)

hash_data_from_host(length) ==
  [type |-> "hash_data_from_host", is |-> <<U32(length)>>]

hash_data_in_optiga(oid, offset, length) ==
  [type |-> "hash_data_in_optiga", is |-> <<U16(oid), U16(offset), U16(length)>>]

public_key_from_host(length, key_type) ==
  [type |-> "public_key_from_host", is |-> <<U16(length), U8(key_type)>>]

u16(n)        == [type |-> "u16", is |-> <<n>>]
KeyIdAt(id)   == [type |-> "optiga_key_id", is |-> <<id>>]
BufferAt      == [type |-> "buffer", is |-> <<>>]
Null          == [type |-> "none", is |-> <<>>]

C(function, numbers, flag, pointee, room) ==
  [f |-> function, n |-> numbers, flag |-> flag, at |-> pointee, room |-> room]

-----------------------------------------------------------------------------
(* Data objects. *)

optiga_util_read_data(optiga_oid, offset, length) ==
  C("read_data", <<U16(optiga_oid), U16(offset)>>, 0, Null, <<U16(length)>>)

optiga_util_read_metadata(optiga_oid, length) ==
  C("read_metadata", <<U16(optiga_oid)>>, 0, Null, <<U16(length)>>)

optiga_util_write_data(optiga_oid, write_type, offset, length) ==
  C("write_data", <<U16(optiga_oid), U8(write_type), U16(offset), U16(length)>>,
    0, Null, <<>>)

optiga_util_write_metadata(optiga_oid, length) ==
  C("write_metadata", <<U16(optiga_oid), U8(length)>>, 0, Null, <<>>)

optiga_util_update_count(optiga_counter_oid, count) ==
  C("update_count", <<U16(optiga_counter_oid), U8(count)>>, 0, Null, <<>>)

-----------------------------------------------------------------------------
(* Random and hash. *)

optiga_crypt_random(rng_type, random_data_length) ==
  C("random", <<U32(rng_type), U16(random_data_length)>>, 0, Null, <<0>>)

optiga_crypt_hash(hash_algorithm, source_of_data_to_hash, data_to_hash) ==
  C("hash", <<U32(hash_algorithm)>>, U8(source_of_data_to_hash), data_to_hash, <<0>>)

-----------------------------------------------------------------------------
(* ECC. *)

optiga_crypt_ecc_generate_keypair(curve_id, key_usage, export_key, private_key, public_len) ==
  C("ecc_generate_keypair", <<U32(curve_id), U8(key_usage)>>,
    U8(export_key), private_key, <<0, U16(public_len)>>)

optiga_crypt_ecdsa_sign(digest_len, private_key, signature_len) ==
  C("ecdsa_sign", <<U8(digest_len), U32(private_key)>>, 0, Null,
    <<U16(signature_len)>>)

optiga_crypt_ecdsa_verify(digest_len, signature_len, source_type, public_key) ==
  C("ecdsa_verify", <<U8(digest_len), U16(signature_len)>>,
    U8(source_type), public_key, <<>>)

optiga_crypt_ecdh(private_key, public_key, export_to_host) ==
  C("ecdh", <<U32(private_key), U8(export_to_host)>>, 0,
    public_key, <<0>>)

-----------------------------------------------------------------------------
(* RSA. *)

optiga_crypt_rsa_generate_keypair(key_type, key_usage, export_key, private_key, public_len) ==
  C("rsa_generate_keypair", <<U32(key_type), U8(key_usage)>>,
    U8(export_key), private_key, <<0, U16(public_len)>>)

optiga_crypt_rsa_sign(scheme, digest_len, private_key, signature_len, salt_len) ==
  C("rsa_sign", <<U32(scheme), U8(digest_len), U32(private_key),
                  U16(salt_len)>>, 0, Null, <<U16(signature_len)>>)

optiga_crypt_rsa_verify(scheme, digest_len, signature_len, source_type, public_key, salt_len) ==
  C("rsa_verify", <<U32(scheme), U8(digest_len),
                    U16(signature_len), U16(salt_len)>>,
    U8(source_type), public_key, <<>>)

optiga_crypt_rsa_encrypt_message(scheme, message_len, label_len, source_type, public_key, encrypted_len) ==
  C("rsa_encrypt_message", <<U32(scheme), U16(message_len),
                             U16(label_len)>>,
    U8(source_type), public_key, <<U16(encrypted_len)>>)

optiga_crypt_rsa_decrypt_and_export(scheme, encrypted_len, label_len, private_key, message_len) ==
  C("rsa_decrypt_and_export", <<U32(scheme),
      U16(encrypted_len), U16(label_len), U32(private_key)>>,
    0, Null, <<U16(message_len)>>)

-----------------------------------------------------------------------------
(* Symmetric, MAC and key derivation. *)

optiga_crypt_hmac(type_, secret, input_data_length, mac_length) ==
  C("hmac", <<U32(type_), U16(secret), U32(input_data_length)>>, 0, Null,
    <<U32(mac_length)>>)

optiga_crypt_hkdf(type_, secret, salt_len, info_len, derived_len, export_to_host) ==
  C("hkdf", <<U32(type_), U16(secret), U16(salt_len), U16(info_len),
              U16(derived_len), U8(export_to_host)>>, 0, Null, <<0>>)

optiga_crypt_tls_prf(type_, secret, label_len, seed_len, derived_len, export_to_host) ==
  C("tls_prf", <<U32(type_), U16(secret), U16(label_len), U16(seed_len),
                 U16(derived_len), U8(export_to_host)>>, 0, Null, <<0>>)

optiga_crypt_symmetric_generate_key(key_type, key_usage, export_key, symmetric_key) ==
  C("symmetric_generate_key", <<U32(key_type), U8(key_usage)>>,
    U8(export_key), symmetric_key, <<>>)

optiga_crypt_symmetric_encrypt_ecb(symmetric_key_oid, plain_len, encrypted_len) ==
  C("symmetric_encrypt_ecb", <<U32(symmetric_key_oid), U32(plain_len)>>,
    0, Null, <<U32(encrypted_len)>>)

optiga_crypt_symmetric_decrypt_ecb(symmetric_key_oid, encrypted_len, plain_len) ==
  C("symmetric_decrypt_ecb", <<U32(symmetric_key_oid), U32(encrypted_len)>>,
    0, Null, <<U32(plain_len)>>)
=============================================================================
