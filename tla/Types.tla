------------------------------- MODULE Types -------------------------------
(***************************************************************************)
(* trustm/src/types.rs: the enums and the C constants they stand for, each *)
(* enum a function from its variants.                                      *)
(***************************************************************************)
EXTENDS Bindings

KeyId ==
  [E0F0 |-> optiga_key_id.E0F0, E0F1 |-> optiga_key_id.E0F1,
   E0F2 |-> optiga_key_id.E0F2, E0F3 |-> optiga_key_id.E0F3,
   E0FC |-> optiga_key_id.E0FC, E0FD |-> optiga_key_id.E0FD,
   SecretBased |-> optiga_key_id.SECRET_BASED,
   SessionBased |-> optiga_key_id.SESSION_BASED]

(* A usage is a byte.  These are the named ones; | combines any two. *)
KeyUsage ==
  [AUTHENTICATION |-> U8(optiga_key_usage.AUTHENTICATION),
   ENCRYPTION     |-> U8(optiga_key_usage.ENCRYPTION),
   SIGN           |-> U8(optiga_key_usage.SIGN),
   KEY_AGREEMENT  |-> U8(optiga_key_usage.KEY_AGREEMENT)]

bitor(a, b) ==
  LET set(n, bit) == (n \div bit) % 2 = 1
  IN  CHOOSE n \in 0 .. 255 : \A bit \in {1, 2, 4, 8, 16, 32, 64, 128} :
        set(n, bit) <=> set(a, bit) \/ set(b, bit)

EccCurve ==
  [NistP256        |-> optiga_ecc_curve.NIST_P_256,
   NistP384        |-> optiga_ecc_curve.NIST_P_384,
   NistP521        |-> optiga_ecc_curve.NIST_P_521,
   BrainpoolP256r1 |-> optiga_ecc_curve.BRAIN_POOL_P_256R1,
   BrainpoolP384r1 |-> optiga_ecc_curve.BRAIN_POOL_P_384R1,
   BrainpoolP512r1 |-> optiga_ecc_curve.BRAIN_POOL_P_512R1]

(* The bytes of one field element. *)
component_len ==
  [NistP256 |-> 32, BrainpoolP256r1 |-> 32, NistP384 |-> 48,
   BrainpoolP384r1 |-> 48, NistP521 |-> 66, BrainpoolP512r1 |-> 64]

RsaKeyType ==
  [Rsa1024 |-> optiga_rsa_key_type.RSA_KEY_1024_BIT_EXPONENTIAL,
   Rsa2048 |-> optiga_rsa_key_type.RSA_KEY_2048_BIT_EXPONENTIAL]

modulus_len == [Rsa1024 |-> 128, Rsa2048 |-> 256]

RsaSignatureScheme ==
  [Pkcs1v15Sha256 |-> optiga_rsa_signature_scheme.SHA256,
   Pkcs1v15Sha384 |-> optiga_rsa_signature_scheme.SHA384,
   Pkcs1v15Sha512 |-> optiga_rsa_signature_scheme.SHA512]

HmacType ==
  [Sha256 |-> optiga_hmac_type.SHA_256, Sha384 |-> optiga_hmac_type.SHA_384,
   Sha512 |-> optiga_hmac_type.SHA_512]

mac_len == [Sha256 |-> 32, Sha384 |-> 48, Sha512 |-> 64]

HkdfType ==
  [Sha256 |-> optiga_hkdf_type.SHA_256, Sha384 |-> optiga_hkdf_type.SHA_384,
   Sha512 |-> optiga_hkdf_type.SHA_512]

TlsPrfType ==
  [Sha256 |-> optiga_tls_prf_type.SHA_256, Sha384 |-> optiga_tls_prf_type.SHA_384,
   Sha512 |-> optiga_tls_prf_type.SHA_512]

SymmetricKeyType ==
  [Aes128 |-> optiga_symmetric_key_type.AES_128,
   Aes192 |-> optiga_symmetric_key_type.AES_192,
   Aes256 |-> optiga_symmetric_key_type.AES_256]

RngType == [Trng |-> optiga_rng_type.TRNG, Drng |-> optiga_rng_type.DRNG]

WriteType ==
  [WriteOnly |-> U8(OPTIGA_UTIL_WRITE_ONLY),
   EraseAndWrite |-> U8(OPTIGA_UTIL_ERASE_AND_WRITE)]
=============================================================================
