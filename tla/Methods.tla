------------------------------ MODULE Methods ------------------------------
(***************************************************************************)
(* The command methods of Trustm (trustm/src/lib.rs), one operator each:   *)
(* the checks before its run, the C call it makes, and the buffers it      *)
(* hands over.  A slice is given by its length.                            *)
(***************************************************************************)
EXTENDS Types, FormatHelpers

(* inst: the instance of the call.  asked: the method with the caller's     *)
(* arguments.  valid: the checks pass.  c: the call.  outs: its buffers.    *)
Method(inst, asked, valid, c, outs) ==
  [inst |-> inst, asked |-> asked, valid |-> valid, c |-> c, outs |-> outs]

(* An output buffer of so many bytes, and what of it the method returns:    *)
(* as many bytes as the library reports, all of them, or one DER element.   *)
Buffer(cap, kept) == [cap |-> cap, kept |-> kept]
Reported(cap) == Buffer(cap, "reported")
Whole(cap) == Buffer(cap, "whole")

(* u8::try_from, u16::try_from and u32::try_from succeed. *)
FitsU8(n)  == n < 256
FitsU16(n) == n < 65536
FitsU32(n) == n < U32Size

-----------------------------------------------------------------------------
(* Data objects. *)

read_data(oid, offset) ==
  Method("util", <<"read_data", oid, offset>>, TRUE,
    optiga_util_read_data(oid, offset, U16(2048)), <<Reported(2048)>>)

write_data(oid, mode, offset, data) ==
  Method("util", <<"write_data", oid, mode, offset, data>>, FitsU16(data),
    optiga_util_write_data(oid, WriteType[mode], offset, data), <<>>)

read_metadata(oid) ==
  Method("util", <<"read_metadata", oid>>, TRUE,
    optiga_util_read_metadata(oid, U16(256)), <<Reported(256)>>)

write_metadata(oid, metadata) ==
  Method("util", <<"write_metadata", oid, metadata>>, FitsU8(metadata),
    optiga_util_write_metadata(oid, metadata), <<>>)

update_counter(oid, count) ==
  Method("util", <<"update_counter", oid, count>>, TRUE,
    optiga_util_update_count(oid, count), <<>>)

-----------------------------------------------------------------------------
(* Random and hash. *)

random(rng, len) ==
  Method("crypt", <<"random", rng, len>>, len \in 8 .. 256,
    optiga_crypt_random(RngType[rng], len), <<Whole(len)>>)

hash_sha256(data) ==
  Method("crypt", <<"hash_sha256", data>>, FitsU32(data),
    optiga_crypt_hash(OPTIGA_HASH_TYPE_SHA_256, OPTIGA_CRYPT_HOST_DATA,
                      hash_data_from_host(data)), <<Whole(32)>>)

(* The mutated form of hash_sha256_oid with the flag of host data. *)
HashOidAsHost(oid, offset, len) ==
  Method("crypt", <<"hash_sha256_oid", oid, offset, len>>, TRUE,
    optiga_crypt_hash(OPTIGA_HASH_TYPE_SHA_256, OPTIGA_CRYPT_HOST_DATA,
                      hash_data_in_optiga(oid, offset, len)), <<Whole(32)>>)

hash_sha256_oid(oid, offset, len) ==
  Method("crypt", <<"hash_sha256_oid", oid, offset, len>>, TRUE,
    optiga_crypt_hash(OPTIGA_HASH_TYPE_SHA_256, OPTIGA_CRYPT_OID_DATA,
                      hash_data_in_optiga(oid, offset, len)), <<Whole(32)>>)

-----------------------------------------------------------------------------
(* ECC. *)

(* Without export the private key's place in the call holds the key id:     *)
(* the library writes nothing there, and nothing of it is returned.         *)
ecc_generate_keypair(curve, usage, key) ==
  Method("crypt", <<"ecc_generate_keypair", curve, usage, key>>, TRUE,
    optiga_crypt_ecc_generate_keypair(EccCurve[curve], usage, 0,
                                      KeyIdAt(KeyId[key]), U16(256)),
    <<Whole(0), Reported(256)>>)

(* The mutated form of ecc_generate_keypair_exported that returns all of    *)
(* the private key's buffer.                                                *)
ExportKeepsBuffer(curve) ==
  Method("crypt", <<"ecc_generate_keypair_exported", curve>>, TRUE,
    optiga_crypt_ecc_generate_keypair(EccCurve[curve], 0, 1, BufferAt, U16(256)),
    <<Whole(256), Reported(256)>>)

ecc_generate_keypair_exported(curve) ==
  Method("crypt", <<"ecc_generate_keypair_exported", curve>>, TRUE,
    optiga_crypt_ecc_generate_keypair(EccCurve[curve], 0, 1, BufferAt, U16(256)),
    <<Buffer(256, "der"), Reported(256)>>)

(* The mutated form of ecdsa_sign with room for the NIST curves up to 384.  *)
SignInto112(key, digest) ==
  Method("crypt", <<"ecdsa_sign", key, digest>>, FitsU8(digest),
    optiga_crypt_ecdsa_sign(digest, KeyId[key], U16(112)), <<Reported(112)>>)

ecdsa_sign(key, digest) ==
  Method("crypt", <<"ecdsa_sign", key, digest>>, FitsU8(digest),
    optiga_crypt_ecdsa_sign(digest, KeyId[key], U16(160)), <<Reported(160)>>)

ecdsa_verify(curve, public_key, digest, signature) ==
  Method("crypt", <<"ecdsa_verify", curve, public_key, digest, signature>>,
    FitsU8(digest) /\ FitsU16(signature) /\ FitsU16(public_key),
    optiga_crypt_ecdsa_verify(digest, signature, OPTIGA_CRYPT_HOST_DATA,
      public_key_from_host(public_key, U8(EccCurve[curve]))), <<>>)

ecdsa_verify_oid(public_key_oid, digest, signature) ==
  Method("crypt", <<"ecdsa_verify_oid", public_key_oid, digest, signature>>,
    FitsU8(digest) /\ FitsU16(signature),
    optiga_crypt_ecdsa_verify(digest, signature, OPTIGA_CRYPT_OID_DATA,
                              u16(public_key_oid)), <<>>)

(* The mutated form of ecdh with a secret of 32 bytes. *)
EcdhInto32(key, curve, peer_public_key) ==
  Method("crypt", <<"ecdh", key, curve, peer_public_key>>, FitsU16(peer_public_key),
    optiga_crypt_ecdh(KeyId[key],
      public_key_from_host(peer_public_key, U8(EccCurve[curve])), 1), <<Whole(32)>>)

ecdh(key, curve, peer_public_key) ==
  Method("crypt", <<"ecdh", key, curve, peer_public_key>>, FitsU16(peer_public_key),
    optiga_crypt_ecdh(KeyId[key],
      public_key_from_host(peer_public_key, U8(EccCurve[curve])), 1),
    <<Whole(component_len[curve])>>)

-----------------------------------------------------------------------------
(* RSA. *)

rsa_generate_keypair(key_type, usage, key) ==
  Method("crypt", <<"rsa_generate_keypair", key_type, usage, key>>, TRUE,
    optiga_crypt_rsa_generate_keypair(RsaKeyType[key_type], usage, 0,
                                      KeyIdAt(KeyId[key]), U16(512)),
    <<Whole(0), Reported(512)>>)

rsa_sign(scheme, key, digest) ==
  Method("crypt", <<"rsa_sign", scheme, key, digest>>, FitsU8(digest),
    optiga_crypt_rsa_sign(RsaSignatureScheme[scheme], digest, KeyId[key],
                          U16(256), 0), <<Reported(256)>>)

rsa_verify(scheme, key_type, public_key, digest, signature) ==
  Method("crypt", <<"rsa_verify", scheme, key_type, public_key, digest, signature>>,
    FitsU8(digest) /\ FitsU16(signature) /\ FitsU16(public_key),
    optiga_crypt_rsa_verify(RsaSignatureScheme[scheme], digest, signature,
      OPTIGA_CRYPT_HOST_DATA,
      public_key_from_host(public_key, U8(RsaKeyType[key_type])), 0), <<>>)

rsa_encrypt(key_type, public_key, message) ==
  Method("crypt", <<"rsa_encrypt", key_type, public_key, message>>,
    FitsU16(message) /\ FitsU16(public_key),
    optiga_crypt_rsa_encrypt_message(OPTIGA_RSAES_PKCS1_V15, message, 0,
      OPTIGA_CRYPT_HOST_DATA,
      public_key_from_host(public_key, U8(RsaKeyType[key_type])),
      U16(modulus_len[key_type])), <<Reported(modulus_len[key_type])>>)

rsa_decrypt(key, ciphertext) ==
  Method("crypt", <<"rsa_decrypt", key, ciphertext>>, FitsU16(ciphertext),
    optiga_crypt_rsa_decrypt_and_export(OPTIGA_RSAES_PKCS1_V15, ciphertext, 0,
                                        KeyId[key], U16(256)), <<Reported(256)>>)

-----------------------------------------------------------------------------
(* Symmetric, MAC and key derivation. *)

hmac(kind, secret_oid, data) ==
  Method("crypt", <<"hmac", kind, secret_oid, data>>, FitsU32(data),
    optiga_crypt_hmac(HmacType[kind], secret_oid, data, U32(mac_len[kind])),
    <<Reported(mac_len[kind])>>)

(* The mutated form of hkdf with the two lengths the other way round. *)
HkdfSwaps(kind, secret_oid, salt, info, len) ==
  Method("crypt", <<"hkdf", kind, secret_oid, salt, info, len>>,
    FitsU16(salt) /\ FitsU16(info),
    optiga_crypt_hkdf(HkdfType[kind], secret_oid, info, salt, len, 1),
    <<Whole(len)>>)

hkdf(kind, secret_oid, salt, info, len) ==
  Method("crypt", <<"hkdf", kind, secret_oid, salt, info, len>>,
    FitsU16(salt) /\ FitsU16(info),
    optiga_crypt_hkdf(HkdfType[kind], secret_oid, salt, info, len, 1),
    <<Whole(len)>>)

tls_prf(kind, secret_oid, label, seed, len) ==
  Method("crypt", <<"tls_prf", kind, secret_oid, label, seed, len>>,
    FitsU16(label) /\ FitsU16(seed),
    optiga_crypt_tls_prf(TlsPrfType[kind], secret_oid, label, seed, len, 1),
    <<Whole(len)>>)

symmetric_generate_key(key_type, usage) ==
  Method("crypt", <<"symmetric_generate_key", key_type, usage>>, TRUE,
    optiga_crypt_symmetric_generate_key(SymmetricKeyType[key_type], usage,
                                        0, KeyIdAt(KeyId.SecretBased)), <<>>)

aes_ecb_encrypt(plain) ==
  Method("crypt", <<"aes_ecb_encrypt", plain>>, FitsU32(plain),
    optiga_crypt_symmetric_encrypt_ecb(KeyId.SecretBased, plain, U32(plain)),
    <<Reported(plain)>>)

aes_ecb_decrypt(cipher) ==
  Method("crypt", <<"aes_ecb_decrypt", cipher>>, FitsU32(cipher),
    optiga_crypt_symmetric_decrypt_ecb(KeyId.SecretBased, cipher, U32(cipher)),
    <<Reported(cipher)>>)
=============================================================================
