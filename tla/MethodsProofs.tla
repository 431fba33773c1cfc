---------------------------- MODULE MethodsProofs ----------------------------
(***************************************************************************)
(* Lemmas about the command methods, for every argument their callers may  *)
(* pass: what C takes a call for is what was asked, a void pointer points  *)
(* to what the flag beside it says, and the call's buffers take every      *)
(* answer of the chip.                                                     *)
(***************************************************************************)
EXTENDS Commands, TLAPS

(* Casts that lose nothing.                                                *)
LEMMA FitsWidth ==
  ASSUME NEW n \in Nat
  PROVE /\ FitsU8(n) => U8(n) = n
        /\ FitsU16(n) => U16(n) = n /\ U32(n) = n
        /\ FitsU32(n) => U32(n) = n
BY U32SizeAssumption DEF FitsU8, FitsU16, FitsU32, U8, U16, U32

LEMMA One == U8(1) = 1
BY DEF U8

(* The arguments' own types are those of the C parameters they go to.      *)
LEMMA Arguments ==
  /\ \A n \in Oids \cup Draws : n \in Nat /\ FitsU16(n) /\ U16(n) = n
  /\ \A n \in Counts \cup Usages : U8(n) = n
  /\ Lengths \subseteq Nat
BY FitsWidth, CommandsAssumption

-----------------------------------------------------------------------------
(* The constants. *)

(* No two variants share a constant, and none is too big for its parameter. *)
Table(table) ==
  /\ \A v, w \in DOMAIN table : table[v] = table[w] => v = w
  /\ \A v \in DOMAIN table : table[v] \in Nat /\ FitsU16(table[v])

LEMMA Tables ==
  /\ Table(KeyId) /\ Table(EccCurve) /\ Table(RsaKeyType) /\ Table(RsaSignatureScheme)
  /\ Table(HmacType) /\ Table(HkdfType) /\ Table(TlsPrfType) /\ Table(SymmetricKeyType)
  /\ Table(RngType) /\ Table(WriteType)
<1> USE DEF Table, FitsU16
<1>1. Table(KeyId) BY DEF KeyId, optiga_key_id
<1>2. Table(EccCurve) BY DEF EccCurve, optiga_ecc_curve
<1>3. Table(RsaKeyType) BY DEF RsaKeyType, optiga_rsa_key_type
<1>4. Table(RsaSignatureScheme) BY
   DEF RsaSignatureScheme, optiga_rsa_signature_scheme
<1>5. Table(HmacType) BY DEF HmacType, optiga_hmac_type
<1>6. Table(HkdfType) BY DEF HkdfType, optiga_hkdf_type
<1>7. Table(TlsPrfType) BY DEF TlsPrfType, optiga_tls_prf_type
<1>8. Table(SymmetricKeyType) BY DEF SymmetricKeyType, optiga_symmetric_key_type
<1>9. Table(RngType) BY DEF RngType, optiga_rng_type
<1>10. Table(WriteType)
  BY DEF WriteType, U8, OPTIGA_UTIL_WRITE_ONLY, OPTIGA_UTIL_ERASE_AND_WRITE
<1> HIDE DEF Table
<1>11. QED BY <1>1, <1>2, <1>3, <1>4, <1>5, <1>6, <1>7, <1>8, <1>9, <1>10

(* The variants whose number goes through a parameter of one byte. *)
LEMMA Bytes ==
  /\ \A v \in DOMAIN EccCurve : U8(EccCurve[v]) = EccCurve[v]
  /\ \A v \in DOMAIN RsaKeyType : U8(RsaKeyType[v]) = RsaKeyType[v]
  /\ \A v \in DOMAIN WriteType : U8(WriteType[v]) = WriteType[v]
<1> USE DEF FitsU8
<1>1. \A v \in DOMAIN EccCurve : EccCurve[v] \in Nat /\ FitsU8(EccCurve[v])
  BY DEF EccCurve, optiga_ecc_curve
<1>2. \A v \in DOMAIN RsaKeyType : RsaKeyType[v] \in Nat /\ FitsU8(RsaKeyType[v])
  BY DEF RsaKeyType, optiga_rsa_key_type
<1>3. \A v \in DOMAIN WriteType : WriteType[v] \in Nat /\ FitsU8(WriteType[v])
  BY DEF WriteType, U8, OPTIGA_UTIL_WRITE_ONLY, OPTIGA_UTIL_ERASE_AND_WRITE
<1>4. QED BY <1>1, <1>2, <1>3, FitsWidth

LEMMA OfTable ==
  ASSUME NEW table, Table(table), NEW v \in DOMAIN table
  PROVE  NumberOf(table, table[v]) = v /\ U32(table[v]) = table[v]
<1>1. NumberOf(table, table[v]) = v
  BY DEF Table, NumberOf
<1>2. QED BY <1>1, FitsWidth DEF Table

LEMMA OfTables ==
  /\ \A v \in DOMAIN KeyId :
       NumberOf(KeyId, KeyId[v]) = v /\ U32(KeyId[v]) = KeyId[v]
  /\ \A v \in DOMAIN EccCurve :
       NumberOf(EccCurve, EccCurve[v]) = v /\ U32(EccCurve[v]) = EccCurve[v]
  /\ \A v \in DOMAIN RsaKeyType :
       /\ NumberOf(RsaKeyType, RsaKeyType[v]) = v
       /\ U32(RsaKeyType[v]) = RsaKeyType[v]
  /\ \A v \in DOMAIN RsaSignatureScheme :
       /\ NumberOf(RsaSignatureScheme, RsaSignatureScheme[v]) = v
       /\ U32(RsaSignatureScheme[v]) = RsaSignatureScheme[v]
  /\ \A v \in DOMAIN HmacType :
       NumberOf(HmacType, HmacType[v]) = v /\ U32(HmacType[v]) = HmacType[v]
  /\ \A v \in DOMAIN HkdfType :
       NumberOf(HkdfType, HkdfType[v]) = v /\ U32(HkdfType[v]) = HkdfType[v]
  /\ \A v \in DOMAIN TlsPrfType :
       /\ NumberOf(TlsPrfType, TlsPrfType[v]) = v
       /\ U32(TlsPrfType[v]) = TlsPrfType[v]
  /\ \A v \in DOMAIN SymmetricKeyType :
       /\ NumberOf(SymmetricKeyType, SymmetricKeyType[v]) = v
       /\ U32(SymmetricKeyType[v]) = SymmetricKeyType[v]
  /\ \A v \in DOMAIN RngType :
       NumberOf(RngType, RngType[v]) = v /\ U32(RngType[v]) = RngType[v]
  /\ \A v \in DOMAIN WriteType :
       NumberOf(WriteType, WriteType[v]) = v /\ U32(WriteType[v]) = WriteType[v]
BY Tables, OfTable

LEMMA SecretSlot == U32(KeyId.SecretBased) = KeyId.SecretBased
<1>1. "SecretBased" \in DOMAIN KeyId
  BY DEF KeyId
<1>2. QED BY <1>1, OfTables

-----------------------------------------------------------------------------
(* What C takes a call for. *)

(* C takes the call, if accepted, for what was asked.                      *)
ReadsBack(m) == m.valid => Understood(m.c) = m.asked

(* Group by group, method by method: what C gets, as the arguments and the *)
(* casts that are one-to-one on what the method accepts.                   *)
LEMMA DataObjectsReadBack == \A m \in DataObjectCalls : ReadsBack(m)
<1> USE DEF C, Method
<1>1. ASSUME NEW o \in Oids, NEW n \in Draws
      PROVE  ReadsBack(read_data(o, n))
  <2> DEFINE m == read_data(o, n)
  <2>1. U16(o) = o /\ U16(n) = n
    BY Arguments
  <2>2. /\ m.c.f = "read_data"
        /\ m.c.n = <<o, n>>
        /\ m.asked = <<"read_data", o, n>>
    BY <2>1 DEF read_data, optiga_util_read_data
  <2> HIDE DEF m
  <2>3. ReadsBack(m) BY <2>2 DEF ReadsBack, Understood
  <2>4. QED BY <2>3 DEF m
<1>2. ASSUME NEW o \in Oids, NEW w \in DOMAIN WriteType, NEW n \in Draws,
            NEW d \in Lengths
      PROVE  ReadsBack(write_data(o, w, n, d))
  <2> DEFINE m == write_data(o, w, n, d)
  <2>1. NumberOf(WriteType, WriteType[w]) = w
    BY OfTables
  <2>2. U8(WriteType[w]) = WriteType[w] /\ U16(o) = o /\ U16(n) = n
    BY Arguments, Bytes
  <2>3. m.valid => U16(d) = d
    BY Arguments, FitsWidth DEF write_data
  <2>4. /\ m.c.f = "write_data"
        /\ m.c.n = <<o, WriteType[w], n, U16(d)>>
        /\ m.asked = <<"write_data", o, w, n, d>>
    BY <2>2 DEF write_data, optiga_util_write_data
  <2> HIDE DEF m
  <2>5. ReadsBack(m) BY <2>1, <2>3, <2>4 DEF ReadsBack, Understood
  <2>6. QED BY <2>5 DEF m
<1>3. ASSUME NEW o \in Oids
      PROVE  ReadsBack(read_metadata(o))
  <2> DEFINE m == read_metadata(o)
  <2>1. U16(o) = o
    BY Arguments
  <2>2. /\ m.c.f = "read_metadata"
        /\ m.c.n = <<o>>
        /\ m.asked = <<"read_metadata", o>>
    BY <2>1 DEF read_metadata, optiga_util_read_metadata
  <2> HIDE DEF m
  <2>3. ReadsBack(m) BY <2>2 DEF ReadsBack, Understood
  <2>4. QED BY <2>3 DEF m
<1>4. ASSUME NEW o \in Oids, NEW d \in Lengths
      PROVE  ReadsBack(write_metadata(o, d))
  <2> DEFINE m == write_metadata(o, d)
  <2>1. U16(o) = o
    BY Arguments
  <2>2. m.valid => U8(d) = d
    BY Arguments, FitsWidth DEF write_metadata
  <2>3. /\ m.c.f = "write_metadata"
        /\ m.c.n = <<o, U8(d)>>
        /\ m.asked = <<"write_metadata", o, d>>
    BY <2>1 DEF write_metadata, optiga_util_write_metadata
  <2> HIDE DEF m
  <2>4. ReadsBack(m) BY <2>2, <2>3 DEF ReadsBack, Understood
  <2>5. QED BY <2>4 DEF m
<1>5. ASSUME NEW o \in Oids, NEW n \in Counts
      PROVE  ReadsBack(update_counter(o, n))
  <2> DEFINE m == update_counter(o, n)
  <2>1. U16(o) = o /\ U8(n) = n
    BY Arguments
  <2>2. /\ m.c.f = "update_count"
        /\ m.c.n = <<o, n>>
        /\ m.asked = <<"update_counter", o, n>>
    BY <2>1 DEF update_counter, optiga_util_update_count
  <2> HIDE DEF m
  <2>3. ReadsBack(m) BY <2>2 DEF ReadsBack, Understood
  <2>4. QED BY <2>3 DEF m
<1>6. QED BY <1>1, <1>2, <1>3, <1>4, <1>5 DEF DataObjectCalls

LEMMA HashReadBack == \A m \in HashCalls : ReadsBack(m)
<1> USE DEF C, Method
<1>1. ASSUME NEW g \in DOMAIN RngType, NEW n \in Draws
      PROVE  ReadsBack(random(g, n))
  <2> DEFINE m == random(g, n)
  <2>1. NumberOf(RngType, RngType[g]) = g
    BY OfTables
  <2>2. U32(RngType[g]) = RngType[g] /\ U16(n) = n
    BY Arguments, OfTables
  <2>3. /\ m.c.f = "random"
        /\ m.c.n = <<RngType[g], n>>
        /\ m.asked = <<"random", g, n>>
    BY <2>2 DEF random, optiga_crypt_random
  <2> HIDE DEF m
  <2>4. ReadsBack(m) BY <2>1, <2>3 DEF ReadsBack, Understood
  <2>5. QED BY <2>4 DEF m
<1>2. ASSUME NEW d \in Lengths
      PROVE  ReadsBack(hash_sha256(d))
  <2> DEFINE m == hash_sha256(d)
  <2>1. m.valid => U32(d) = d
    BY Arguments, FitsWidth DEF hash_sha256
  <2>2. /\ m.c.f = "hash" /\ m.c.flag = 1
        /\ m.c.at.is = <<U32(d)>>
        /\ m.asked = <<"hash_sha256", d>>
    BY DEF hash_sha256, optiga_crypt_hash, hash_data_from_host,
       OPTIGA_CRYPT_HOST_DATA, U8
  <2> HIDE DEF m
  <2>3. ReadsBack(m) BY <2>1, <2>2 DEF ReadsBack, Understood
  <2>4. QED BY <2>3 DEF m
<1>3. ASSUME NEW o \in Oids, NEW n \in Draws, NEW d \in Draws
      PROVE  ReadsBack(hash_sha256_oid(o, n, d))
  <2> DEFINE m == hash_sha256_oid(o, n, d)
  <2>1. U16(o) = o /\ U16(n) = n /\ U16(d) = d
    BY Arguments
  <2>2. /\ m.c.f = "hash" /\ m.c.flag = 0
        /\ m.c.at.is = <<o, n, d>>
        /\ m.asked = <<"hash_sha256_oid", o, n, d>>
    BY <2>1 
       DEF hash_sha256_oid, optiga_crypt_hash, hash_data_in_optiga,
          OPTIGA_CRYPT_OID_DATA, U8
  <2> HIDE DEF m
  <2>3. ReadsBack(m) BY <2>2 DEF ReadsBack, Understood
  <2>4. QED BY <2>3 DEF m
<1>4. QED BY <1>1, <1>2, <1>3 DEF HashCalls

LEMMA EccReadBack == \A m \in EccCalls : ReadsBack(m)
<1> USE DEF C, Method
<1>1. ASSUME NEW c \in DOMAIN EccCurve, NEW u \in Usages, NEW k \in DOMAIN KeyId
      PROVE  ReadsBack(ecc_generate_keypair(c, u, k))
  <2> DEFINE m == ecc_generate_keypair(c, u, k)
  <2>1. /\ NumberOf(EccCurve, EccCurve[c]) = c
        /\ NumberOf(KeyId, KeyId[k]) = k
    BY OfTables
  <2>2. U32(EccCurve[c]) = EccCurve[c] /\ U8(u) = u
    BY OfTables, Arguments
  <2>3. /\ m.c.f = "ecc_generate_keypair" /\ m.c.flag = 0
        /\ m.c.n = <<EccCurve[c], u>>
        /\ m.c.at.is = <<KeyId[k]>>
        /\ m.asked = <<"ecc_generate_keypair", c, u, k>>
    BY <2>2 
       DEF ecc_generate_keypair, optiga_crypt_ecc_generate_keypair, KeyIdAt, U8
  <2> HIDE DEF m
  <2>4. ReadsBack(m) BY <2>1, <2>3 DEF ReadsBack, Understood
  <2>5. QED BY <2>4 DEF m
<1>2. ASSUME NEW c \in DOMAIN EccCurve
      PROVE  ReadsBack(ecc_generate_keypair_exported(c))
  <2> DEFINE m == ecc_generate_keypair_exported(c)
  <2>1. NumberOf(EccCurve, EccCurve[c]) = c
    BY OfTables
  <2>2. U32(EccCurve[c]) = EccCurve[c]
    BY OfTables
  <2>3. /\ m.c.f = "ecc_generate_keypair" /\ m.c.flag = 1
        /\ m.c.n = <<EccCurve[c], U8(0)>>
        /\ m.asked = <<"ecc_generate_keypair_exported", c>>
    BY <2>2 
       DEF ecc_generate_keypair_exported, optiga_crypt_ecc_generate_keypair,
          BufferAt, U8
  <2> HIDE DEF m
  <2>4. ReadsBack(m) BY <2>1, <2>3 DEF ReadsBack, Understood
  <2>5. QED BY <2>4 DEF m
<1>3. ASSUME NEW k \in DOMAIN KeyId, NEW d \in Lengths
      PROVE  ReadsBack(ecdsa_sign(k, d))
  <2> DEFINE m == ecdsa_sign(k, d)
  <2>1. NumberOf(KeyId, KeyId[k]) = k
    BY OfTables
  <2>2. U32(KeyId[k]) = KeyId[k]
    BY OfTables
  <2>3. m.valid => U8(d) = d
    BY Arguments, FitsWidth DEF ecdsa_sign
  <2>4. /\ m.c.f = "ecdsa_sign"
        /\ m.c.n = <<U8(d), KeyId[k]>>
        /\ m.asked = <<"ecdsa_sign", k, d>>
    BY <2>2 DEF ecdsa_sign, optiga_crypt_ecdsa_sign
  <2> HIDE DEF m
  <2>5. ReadsBack(m) BY <2>1, <2>3, <2>4 DEF ReadsBack, Understood
  <2>6. QED BY <2>5 DEF m
<1>4. ASSUME NEW c \in DOMAIN EccCurve, NEW p \in Lengths, NEW d \in Lengths,
            NEW s \in Lengths
      PROVE  ReadsBack(ecdsa_verify(c, p, d, s))
  <2> DEFINE m == ecdsa_verify(c, p, d, s)
  <2>1. NumberOf(EccCurve, EccCurve[c]) = c
    BY OfTables
  <2>2. U8(EccCurve[c]) = EccCurve[c]
    BY Bytes
  <2>3. m.valid => U8(d) = d /\ U16(s) = s /\ U16(p) = p
    BY Arguments, FitsWidth DEF ecdsa_verify
  <2>4. /\ m.c.f = "ecdsa_verify" /\ m.c.flag = 1
        /\ m.c.n = <<U8(d), U16(s)>>
        /\ m.c.at.is = <<U16(p), EccCurve[c]>>
        /\ m.asked = <<"ecdsa_verify", c, p, d, s>>
    BY <2>2 
       DEF ecdsa_verify, optiga_crypt_ecdsa_verify, public_key_from_host,
          OPTIGA_CRYPT_HOST_DATA, U8
  <2> HIDE DEF m
  <2>5. ReadsBack(m) BY <2>1, <2>3, <2>4 DEF ReadsBack, Understood
  <2>6. QED BY <2>5 DEF m
<1>5. ASSUME NEW o \in Oids, NEW d \in Lengths, NEW s \in Lengths
      PROVE  ReadsBack(ecdsa_verify_oid(o, d, s))
  <2> DEFINE m == ecdsa_verify_oid(o, d, s)
  <2>1. U16(o) = o
    BY Arguments
  <2>2. m.valid => U8(d) = d /\ U16(s) = s
    BY Arguments, FitsWidth DEF ecdsa_verify_oid
  <2>3. /\ m.c.f = "ecdsa_verify" /\ m.c.flag = 0
        /\ m.c.n = <<U8(d), U16(s)>>
        /\ m.c.at.is = <<o>>
        /\ m.asked = <<"ecdsa_verify_oid", o, d, s>>
    BY <2>1 
       DEF ecdsa_verify_oid, optiga_crypt_ecdsa_verify, u16,
          OPTIGA_CRYPT_OID_DATA, U8
  <2> HIDE DEF m
  <2>4. ReadsBack(m) BY <2>2, <2>3 DEF ReadsBack, Understood
  <2>5. QED BY <2>4 DEF m
<1>6. ASSUME NEW k \in DOMAIN KeyId, NEW c \in DOMAIN EccCurve,
            NEW p \in Lengths
      PROVE  ReadsBack(ecdh(k, c, p))
  <2> DEFINE m == ecdh(k, c, p)
  <2>1. NumberOf(KeyId, KeyId[k]) = k /\ NumberOf(EccCurve, EccCurve[c]) = c
    BY OfTables
  <2>2. U32(KeyId[k]) = KeyId[k] /\ U8(EccCurve[c]) = EccCurve[c]
    BY OfTables, Bytes
  <2>3. m.valid => U16(p) = p
    BY Arguments, FitsWidth DEF ecdh
  <2>4. /\ m.c.f = "ecdh"
        /\ m.c.n = <<KeyId[k], 1>>
        /\ m.c.at.is = <<U16(p), EccCurve[c]>>
        /\ m.asked = <<"ecdh", k, c, p>>
    BY <2>2, One DEF ecdh, optiga_crypt_ecdh, public_key_from_host
  <2> HIDE DEF m
  <2>5. ReadsBack(m) BY <2>1, <2>3, <2>4 DEF ReadsBack, Understood
  <2>6. QED BY <2>5 DEF m
<1>7. QED BY <1>1, <1>2, <1>3, <1>4, <1>5, <1>6 DEF EccCalls

LEMMA RsaReadBack == \A m \in RsaCalls : ReadsBack(m)
<1> USE DEF C, Method
<1>1. ASSUME NEW r \in DOMAIN RsaKeyType, NEW u \in Usages,
            NEW k \in DOMAIN KeyId
      PROVE  ReadsBack(rsa_generate_keypair(r, u, k))
  <2> DEFINE m == rsa_generate_keypair(r, u, k)
  <2>1. /\ NumberOf(RsaKeyType, RsaKeyType[r]) = r
        /\ NumberOf(KeyId, KeyId[k]) = k
    BY OfTables
  <2>2. U32(RsaKeyType[r]) = RsaKeyType[r] /\ U8(u) = u
    BY OfTables, Arguments
  <2>3. /\ m.c.f = "rsa_generate_keypair"
        /\ m.c.n = <<RsaKeyType[r], u>>
        /\ m.c.at.is = <<KeyId[k]>>
        /\ m.asked = <<"rsa_generate_keypair", r, u, k>>
    BY <2>2 
       DEF rsa_generate_keypair, optiga_crypt_rsa_generate_keypair, KeyIdAt
  <2> HIDE DEF m
  <2>4. ReadsBack(m) BY <2>1, <2>3 DEF ReadsBack, Understood
  <2>5. QED BY <2>4 DEF m
<1>2. ASSUME NEW h \in DOMAIN RsaSignatureScheme, NEW k \in DOMAIN KeyId,
            NEW d \in Lengths
      PROVE  ReadsBack(rsa_sign(h, k, d))
  <2> DEFINE m == rsa_sign(h, k, d)
  <2>1. /\ NumberOf(RsaSignatureScheme, RsaSignatureScheme[h]) = h
        /\ NumberOf(KeyId, KeyId[k]) = k
    BY OfTables
  <2>2. /\ U32(RsaSignatureScheme[h]) = RsaSignatureScheme[h]
        /\ U32(KeyId[k]) = KeyId[k]
    BY OfTables
  <2>3. m.valid => U8(d) = d
    BY Arguments, FitsWidth DEF rsa_sign
  <2>4. /\ m.c.f = "rsa_sign"
        /\ m.c.n = <<RsaSignatureScheme[h], U8(d), KeyId[k], U16(0)>>
        /\ m.asked = <<"rsa_sign", h, k, d>>
    BY <2>2 DEF rsa_sign, optiga_crypt_rsa_sign
  <2> HIDE DEF m
  <2>5. ReadsBack(m) BY <2>1, <2>3, <2>4 DEF ReadsBack, Understood
  <2>6. QED BY <2>5 DEF m
<1>3. ASSUME NEW h \in DOMAIN RsaSignatureScheme, NEW r \in DOMAIN RsaKeyType,
            NEW p \in Lengths, NEW d \in Lengths, NEW s \in Lengths
      PROVE  ReadsBack(rsa_verify(h, r, p, d, s))
  <2> DEFINE m == rsa_verify(h, r, p, d, s)
  <2>1. /\ NumberOf(RsaSignatureScheme, RsaSignatureScheme[h]) = h
        /\ NumberOf(RsaKeyType, RsaKeyType[r]) = r
    BY OfTables
  <2>2. /\ U32(RsaSignatureScheme[h]) = RsaSignatureScheme[h]
        /\ U8(RsaKeyType[r]) = RsaKeyType[r]
    BY OfTables, Bytes
  <2>3. m.valid => U8(d) = d /\ U16(s) = s /\ U16(p) = p
    BY Arguments, FitsWidth DEF rsa_verify
  <2>4. /\ m.c.f = "rsa_verify"
        /\ m.c.n = <<RsaSignatureScheme[h], U8(d), U16(s), U16(0)>>
        /\ m.c.at.is = <<U16(p), RsaKeyType[r]>>
        /\ m.asked = <<"rsa_verify", h, r, p, d, s>>
    BY <2>2 DEF rsa_verify, optiga_crypt_rsa_verify, public_key_from_host
  <2> HIDE DEF m
  <2>5. ReadsBack(m) BY <2>1, <2>3, <2>4 DEF ReadsBack, Understood
  <2>6. QED BY <2>5 DEF m
<1>4. ASSUME NEW r \in DOMAIN RsaKeyType, NEW p \in Lengths, NEW d \in Lengths
      PROVE  ReadsBack(rsa_encrypt(r, p, d))
  <2> DEFINE m == rsa_encrypt(r, p, d)
  <2>1. NumberOf(RsaKeyType, RsaKeyType[r]) = r
    BY OfTables
  <2>2. U8(RsaKeyType[r]) = RsaKeyType[r]
    BY Bytes
  <2>3. m.valid => U16(d) = d /\ U16(p) = p
    BY Arguments, FitsWidth DEF rsa_encrypt
  <2>4. /\ m.c.f = "rsa_encrypt_message"
        /\ m.c.n = <<U32(OPTIGA_RSAES_PKCS1_V15), U16(d), U16(0)>>
        /\ m.c.at.is = <<U16(p), RsaKeyType[r]>>
        /\ m.asked = <<"rsa_encrypt", r, p, d>>
    BY <2>2 
       DEF rsa_encrypt, optiga_crypt_rsa_encrypt_message, public_key_from_host
  <2> HIDE DEF m
  <2>5. ReadsBack(m) BY <2>1, <2>3, <2>4 DEF ReadsBack, Understood
  <2>6. QED BY <2>5 DEF m
<1>5. ASSUME NEW k \in DOMAIN KeyId, NEW d \in Lengths
      PROVE  ReadsBack(rsa_decrypt(k, d))
  <2> DEFINE m == rsa_decrypt(k, d)
  <2>1. NumberOf(KeyId, KeyId[k]) = k
    BY OfTables
  <2>2. U32(KeyId[k]) = KeyId[k]
    BY OfTables
  <2>3. m.valid => U16(d) = d
    BY Arguments, FitsWidth DEF rsa_decrypt
  <2>4. /\ m.c.f = "rsa_decrypt_and_export"
        /\ m.c.n = <<U32(OPTIGA_RSAES_PKCS1_V15), U16(d), U16(0), KeyId[k]>>
        /\ m.asked = <<"rsa_decrypt", k, d>>
    BY <2>2 DEF rsa_decrypt, optiga_crypt_rsa_decrypt_and_export
  <2> HIDE DEF m
  <2>5. ReadsBack(m) BY <2>1, <2>3, <2>4 DEF ReadsBack, Understood
  <2>6. QED BY <2>5 DEF m
<1>6. QED BY <1>1, <1>2, <1>3, <1>4, <1>5 DEF RsaCalls

LEMMA SecretReadBack == \A m \in SecretCalls : ReadsBack(m)
<1> USE DEF C, Method
<1>1. ASSUME NEW h \in DOMAIN HmacType, NEW o \in Oids, NEW d \in Lengths
      PROVE  ReadsBack(hmac(h, o, d))
  <2> DEFINE m == hmac(h, o, d)
  <2>1. NumberOf(HmacType, HmacType[h]) = h
    BY OfTables
  <2>2. U32(HmacType[h]) = HmacType[h] /\ U16(o) = o
    BY Arguments, OfTables
  <2>3. m.valid => U32(d) = d
    BY Arguments, FitsWidth DEF hmac
  <2>4. /\ m.c.f = "hmac"
        /\ m.c.n = <<HmacType[h], o, U32(d)>>
        /\ m.asked = <<"hmac", h, o, d>>
    BY <2>2 DEF hmac, optiga_crypt_hmac
  <2> HIDE DEF m
  <2>5. ReadsBack(m) BY <2>1, <2>3, <2>4 DEF ReadsBack, Understood
  <2>6. QED BY <2>5 DEF m
<1>2. ASSUME NEW h \in DOMAIN HkdfType, NEW o \in Oids, NEW s \in Lengths,
            NEW d \in Lengths, NEW n \in Draws
      PROVE  ReadsBack(hkdf(h, o, s, d, n))
  <2> DEFINE m == hkdf(h, o, s, d, n)
  <2>1. NumberOf(HkdfType, HkdfType[h]) = h
    BY OfTables
  <2>2. U32(HkdfType[h]) = HkdfType[h] /\ U16(o) = o /\ U16(n) = n
    BY Arguments, OfTables
  <2>3. m.valid => U16(s) = s /\ U16(d) = d
    BY Arguments, FitsWidth DEF hkdf
  <2>4. /\ m.c.f = "hkdf"
        /\ m.c.n = <<HkdfType[h], o, U16(s), U16(d), n, 1>>
        /\ m.asked = <<"hkdf", h, o, s, d, n>>
    BY <2>2, One DEF hkdf, optiga_crypt_hkdf
  <2> HIDE DEF m
  <2>5. ReadsBack(m) BY <2>1, <2>3, <2>4 DEF ReadsBack, Understood
  <2>6. QED BY <2>5 DEF m
<1>3. ASSUME NEW h \in DOMAIN TlsPrfType, NEW o \in Oids, NEW l \in Lengths,
            NEW s \in Lengths, NEW n \in Draws
      PROVE  ReadsBack(tls_prf(h, o, l, s, n))
  <2> DEFINE m == tls_prf(h, o, l, s, n)
  <2>1. NumberOf(TlsPrfType, TlsPrfType[h]) = h
    BY OfTables
  <2>2. U32(TlsPrfType[h]) = TlsPrfType[h] /\ U16(o) = o /\ U16(n) = n
    BY Arguments, OfTables
  <2>3. m.valid => U16(l) = l /\ U16(s) = s
    BY Arguments, FitsWidth DEF tls_prf
  <2>4. /\ m.c.f = "tls_prf"
        /\ m.c.n = <<TlsPrfType[h], o, U16(l), U16(s), n, 1>>
        /\ m.asked = <<"tls_prf", h, o, l, s, n>>
    BY <2>2, One DEF tls_prf, optiga_crypt_tls_prf
  <2> HIDE DEF m
  <2>5. ReadsBack(m) BY <2>1, <2>3, <2>4 DEF ReadsBack, Understood
  <2>6. QED BY <2>5 DEF m
<1>4. ASSUME NEW k \in DOMAIN SymmetricKeyType, NEW u \in Usages
      PROVE  ReadsBack(symmetric_generate_key(k, u))
  <2> DEFINE m == symmetric_generate_key(k, u)
  <2>1. /\ NumberOf(SymmetricKeyType, SymmetricKeyType[k]) = k
    BY OfTables
  <2>2. /\ U32(SymmetricKeyType[k]) = SymmetricKeyType[k]
        /\ U8(u) = u
    BY OfTables, Arguments
  <2>3. /\ m.c.f = "symmetric_generate_key"
        /\ m.c.n = <<SymmetricKeyType[k], u>>
        /\ m.asked = <<"symmetric_generate_key", k, u>>
    BY <2>2 
       DEF symmetric_generate_key, optiga_crypt_symmetric_generate_key, KeyIdAt
  <2> HIDE DEF m
  <2>4. ReadsBack(m) BY <2>1, <2>3 DEF ReadsBack, Understood
  <2>5. QED BY <2>4 DEF m
<1>5. ASSUME NEW d \in Lengths
      PROVE  ReadsBack(aes_ecb_encrypt(d))
  <2> DEFINE m == aes_ecb_encrypt(d)
  <2>1. m.valid => U32(d) = d
    BY Arguments, FitsWidth DEF aes_ecb_encrypt
  <2>2. /\ m.c.f = "symmetric_encrypt_ecb"
        /\ m.c.n = <<KeyId.SecretBased, U32(d)>>
        /\ m.asked = <<"aes_ecb_encrypt", d>>
    BY SecretSlot DEF aes_ecb_encrypt, optiga_crypt_symmetric_encrypt_ecb
  <2> HIDE DEF m
  <2>3. ReadsBack(m) BY <2>1, <2>2 DEF ReadsBack, Understood
  <2>4. QED BY <2>3 DEF m
<1>6. ASSUME NEW d \in Lengths
      PROVE  ReadsBack(aes_ecb_decrypt(d))
  <2> DEFINE m == aes_ecb_decrypt(d)
  <2>1. m.valid => U32(d) = d
    BY Arguments, FitsWidth DEF aes_ecb_decrypt
  <2>2. /\ m.c.f = "symmetric_decrypt_ecb"
        /\ m.c.n = <<KeyId.SecretBased, U32(d)>>
        /\ m.asked = <<"aes_ecb_decrypt", d>>
    BY SecretSlot DEF aes_ecb_decrypt, optiga_crypt_symmetric_decrypt_ecb
  <2> HIDE DEF m
  <2>3. ReadsBack(m) BY <2>1, <2>2 DEF ReadsBack, Understood
  <2>4. QED BY <2>3 DEF m
<1>7. QED BY <1>1, <1>2, <1>3, <1>4, <1>5, <1>6 DEF SecretCalls

(* Of every method at once.                                                *)
LEMMA CallsReadBack == \A m \in Accepted : Understood(m.c) = m.asked
BY DataObjectsReadBack, HashReadBack, EccReadBack, RsaReadBack, SecretReadBack
   DEF Accepted, Invocations, ReadsBack

-----------------------------------------------------------------------------
(* What a void pointer points to. *)

(* C takes the pointer for what it is.                                     *)
PointsRight(m) == m.c.at.type = ReadAs(m.c.f, m.c.flag)

LEMMA DataObjectsPoint == \A m \in DataObjectCalls : PointsRight(m)
BY DEF DataObjectCalls, PointsRight, ReadAs, C, Method, read_data, write_data,
  read_metadata, write_metadata, update_counter, optiga_util_read_data,
  optiga_util_write_data, optiga_util_read_metadata, optiga_util_write_metadata,
  optiga_util_update_count, Null

LEMMA HashPoint == \A m \in HashCalls : PointsRight(m)
BY DEF HashCalls, PointsRight, ReadAs, C, Method, random, hash_sha256,
  hash_sha256_oid, optiga_crypt_random, optiga_crypt_hash, Null,
  hash_data_from_host, hash_data_in_optiga, OPTIGA_CRYPT_HOST_DATA,
  OPTIGA_CRYPT_OID_DATA, U8

LEMMA EccPoint == \A m \in EccCalls : PointsRight(m)
BY DEF EccCalls, PointsRight, ReadAs, C, Method, ecc_generate_keypair,
  ecc_generate_keypair_exported, ecdsa_sign, ecdsa_verify, ecdsa_verify_oid,
  ecdh, optiga_crypt_ecc_generate_keypair, optiga_crypt_ecdsa_sign,
  optiga_crypt_ecdsa_verify, optiga_crypt_ecdh, Null, KeyIdAt, BufferAt, u16,
  public_key_from_host, OPTIGA_CRYPT_HOST_DATA, OPTIGA_CRYPT_OID_DATA, U8

LEMMA RsaPoint == \A m \in RsaCalls : PointsRight(m)
BY DEF RsaCalls, PointsRight, ReadAs, C, Method, rsa_generate_keypair, rsa_sign,
  rsa_verify, rsa_encrypt, rsa_decrypt, optiga_crypt_rsa_generate_keypair,
  optiga_crypt_rsa_sign, optiga_crypt_rsa_verify,
  optiga_crypt_rsa_encrypt_message, optiga_crypt_rsa_decrypt_and_export, Null,
  KeyIdAt, public_key_from_host, OPTIGA_CRYPT_HOST_DATA, U8

LEMMA SecretPoint == \A m \in SecretCalls : PointsRight(m)
BY DEF SecretCalls, PointsRight, ReadAs, C, Method, hmac, hkdf, tls_prf,
  symmetric_generate_key, aes_ecb_encrypt, aes_ecb_decrypt, optiga_crypt_hmac,
  optiga_crypt_hkdf, optiga_crypt_tls_prf, optiga_crypt_symmetric_generate_key,
  optiga_crypt_symmetric_encrypt_ecb, optiga_crypt_symmetric_decrypt_ecb, Null,
  KeyIdAt, U8

LEMMA CallsPoint == \A m \in Accepted : PointsRight(m)
BY DataObjectsPoint, HashPoint, EccPoint, RsaPoint, SecretPoint
   DEF Accepted, Invocations

-----------------------------------------------------------------------------
(* What the chip writes. *)

LEMMA CurveNumbers ==
  ASSUME NEW c \in DOMAIN EccCurve
  PROVE  /\ U8(EccCurve[c]) = EccCurve[c]
         /\ U32(EccCurve[c]) = EccCurve[c]
         /\ CurveBytes(EccCurve[c]) = component_len[c]
         /\ component_len[c] \in {32, 48, 64, 66}
<1>1. EccCurve[c] \in {3, 4, 5, 19, 21, 22}
  BY DEF EccCurve, optiga_ecc_curve
<1>2. QED
  BY <1>1, FitsWidth
     DEF FitsU8, FitsU16, EccCurve, optiga_ecc_curve, CurveBytes, component_len

LEMMA RsaNumbers ==
  ASSUME NEW r \in DOMAIN RsaKeyType
  PROVE  /\ U8(RsaKeyType[r]) = RsaKeyType[r]
         /\ U32(RsaKeyType[r]) = RsaKeyType[r]
         /\ modulus_len[r] = IF RsaKeyType[r] = 65 THEN 128 ELSE 256
         /\ U16(modulus_len[r]) = modulus_len[r]
<1>1. RsaKeyType[r] \in {65, 66} /\ modulus_len[r] \in {128, 256}
  BY DEF RsaKeyType, modulus_len, optiga_rsa_key_type
<1>2. QED
  BY <1>1, FitsWidth
     DEF FitsU8, FitsU16, RsaKeyType, modulus_len, optiga_rsa_key_type

LEMMA MacNumbers ==
  ASSUME NEW h \in DOMAIN HmacType
  PROVE  /\ U32(HmacType[h]) = HmacType[h]
         /\ mac_len[h] = CASE HmacType[h] = 32 -> 32 [] HmacType[h] = 33 -> 48 [] OTHER -> 64
         /\ U32(mac_len[h]) = mac_len[h]
<1>1. HmacType[h] \in {32, 33, 34} /\ mac_len[h] \in {32, 48, 64}
  BY DEF HmacType, mac_len, optiga_hmac_type
<1>2. QED
  BY <1>1, FitsWidth DEF FitsU16, HmacType, mac_len, optiga_hmac_type

(* The sizes of the fixed buffers go through a parameter of two bytes.     *)
LEMMA Sizes == U16(2048) = 2048 /\ U16(256) = 256 /\ U16(512) = 512 /\ U16(160) = 160
BY FitsWidth DEF FitsU16

(* A buffer o, of which C is told room, takes n bytes of an answer.         *)
Served(o, room, n) ==
  /\ n \in Nat /\ room \in Nat /\ o.cap \in Nat
  /\ o.kept \in {"whole", "reported", "der"}
  /\ o.kept = "whole"    => room = 0 /\ n = o.cap
  /\ o.kept = "reported" => n <= room /\ room <= o.cap
  /\ o.kept = "der"      => room = 0 /\ n <= o.cap /\ (n = 0 \/ n - 2 \in 1 .. 127)

(* The call's buffers take whatever the chip answers it with; a buffer of   *)
(* which one DER element is kept comes first.                               *)
Answered(m) ==
  /\ Answers(m.c) # {}
  /\ \A b \in Answers(m.c) :
       /\ b \in Seq(Nat)
       /\ DOMAIN b = DOMAIN m.outs
       /\ \A k \in DOMAIN b :
            /\ Served(m.outs[k], m.c.room[k], b[k])
            /\ m.outs[k].kept = "der" => k = 1

LEMMA NoAnswer ==
  ASSUME NEW m, m.outs = <<>>, Answers(m.c) = {<<>>}
  PROVE  Answered(m)
BY DEF Answered

LEMMA OneAnswer ==
  ASSUME NEW m, NEW o, NEW r, m.outs = <<o>>, m.c.room = <<r>>, Answers(m.c) # {},
         \A b \in Answers(m.c) : \E n : b = <<n>> /\ Served(o, r, n)
  PROVE  Answered(m)
<1>1. ASSUME NEW b \in Answers(m.c), NEW n, b = <<n>>, Served(o, r, n)
      PROVE  /\ b \in Seq(Nat) /\ DOMAIN b = {1} /\ DOMAIN m.outs = {1}
             /\ Served(m.outs[1], m.c.room[1], b[1])
  <2>1. n \in Nat
    BY <1>1 DEF Served
  <2>2. QED BY <1>1, <2>1
<1>2. QED BY <1>1 DEF Answered

LEMMA TwoAnswers ==
  ASSUME NEW m, NEW o, NEW r, NEW p, NEW q, m.outs = <<o, p>>, m.c.room = <<r, q>>,
         Answers(m.c) # {}, p.kept # "der",
         \A b \in Answers(m.c) :
           \E n, l : b = <<n, l>> /\ Served(o, r, n) /\ Served(p, q, l)
  PROVE  Answered(m)
<1>1. ASSUME NEW b \in Answers(m.c), NEW n, NEW l, b = <<n, l>>,
             Served(o, r, n), Served(p, q, l)
      PROVE  /\ b \in Seq(Nat) /\ DOMAIN b = {1, 2} /\ DOMAIN m.outs = {1, 2}
             /\ Served(m.outs[1], m.c.room[1], b[1])
             /\ Served(m.outs[2], m.c.room[2], b[2])
  <2>1. n \in Nat /\ l \in Nat
    BY <1>1 DEF Served
  <2>2. QED BY <1>1, <2>1
<1>2. m.outs[2].kept # "der"
  OBVIOUS
<1>3. QED BY <1>1, <1>2 DEF Answered

(* Method by method: its buffers, the answers the chip may give, and that  *)
(* they match.                                                             *)
LEMMA DataObjectsAnswered == \A m \in DataObjectCalls : m.valid => Answered(m)
<1> USE DEF C, Method
<1>1. ASSUME NEW o \in Oids, NEW n \in Draws
      PROVE  Answered(read_data(o, n))
  <2> DEFINE m == read_data(o, n)
  <2>1. m.outs = <<Reported(2048)>> /\ m.c.room = <<2048>>
    BY Sizes DEF read_data, optiga_util_read_data
  <2>2. Answers(m.c) = {<<0>>, <<1728>>}
    BY DEF Answers, read_data, optiga_util_read_data
  <2>3. \A b \in Answers(m.c) : \E l : b = <<l>> /\ Served(Reported(2048), 2048, l)
    BY <2>2 DEF Served, Reported, Buffer
  <2> HIDE DEF m
  <2>4. <<0>> \in Answers(m.c)
    BY <2>2
  <2>5. Answered(m) BY <2>1, <2>4, <2>3, OneAnswer
  <2>6. QED BY <2>5 DEF m
<1>2. ASSUME NEW o \in Oids, NEW w \in DOMAIN WriteType, NEW n \in Draws,
            NEW d \in Lengths
      PROVE  Answered(write_data(o, w, n, d))
  <2> DEFINE m == write_data(o, w, n, d)
  <2>1. m.outs = <<>>
    BY DEF write_data, optiga_util_write_data
  <2>2. Answers(m.c) = {<<>>}
    BY DEF Answers, write_data, optiga_util_write_data
  <2> HIDE DEF m
  <2>3. QED BY <2>1, <2>2, NoAnswer DEF m
<1>3. ASSUME NEW o \in Oids
      PROVE  Answered(read_metadata(o))
  <2> DEFINE m == read_metadata(o)
  <2>1. m.outs = <<Reported(256)>> /\ m.c.room = <<256>>
    BY Sizes DEF read_metadata, optiga_util_read_metadata
  <2>2. Answers(m.c) = {<<2>>, <<44>>}
    BY DEF Answers, read_metadata, optiga_util_read_metadata
  <2>3. \A b \in Answers(m.c) : \E n : b = <<n>> /\ Served(Reported(256), 256, n)
    BY <2>2 DEF Served, Reported, Buffer
  <2> HIDE DEF m
  <2>4. <<2>> \in Answers(m.c)
    BY <2>2
  <2>5. Answered(m) BY <2>1, <2>4, <2>3, OneAnswer
  <2>6. QED BY <2>5 DEF m
<1>4. ASSUME NEW o \in Oids, NEW d \in Lengths
      PROVE  Answered(write_metadata(o, d))
  <2> DEFINE m == write_metadata(o, d)
  <2>1. m.outs = <<>>
    BY DEF write_metadata, optiga_util_write_metadata
  <2>2. Answers(m.c) = {<<>>}
    BY DEF Answers, write_metadata, optiga_util_write_metadata
  <2> HIDE DEF m
  <2>3. QED BY <2>1, <2>2, NoAnswer DEF m
<1>5. ASSUME NEW o \in Oids, NEW n \in Counts
      PROVE  Answered(update_counter(o, n))
  <2> DEFINE m == update_counter(o, n)
  <2>1. m.outs = <<>>
    BY DEF update_counter, optiga_util_update_count
  <2>2. Answers(m.c) = {<<>>}
    BY DEF Answers, update_counter, optiga_util_update_count
  <2> HIDE DEF m
  <2>3. QED BY <2>1, <2>2, NoAnswer DEF m
<1>6. QED BY <1>1, <1>2, <1>3, <1>4, <1>5 DEF DataObjectCalls

LEMMA HashAnswered == \A m \in HashCalls : m.valid => Answered(m)
<1> USE DEF C, Method
<1>1. ASSUME NEW g \in DOMAIN RngType, NEW n \in Draws
      PROVE  Answered(random(g, n))
  <2> DEFINE m == random(g, n)
  <2>1. m.outs = <<Whole(n)>> /\ m.c.room = <<0>>
    BY DEF random, optiga_crypt_random
  <2>2. Answers(m.c) = {<<n>>}
    BY Arguments DEF Answers, random, optiga_crypt_random
  <2>3. \A b \in Answers(m.c) : \E l : b = <<l>> /\ Served(Whole(n), 0, l)
    BY <2>2, Arguments DEF Served, Whole, Buffer
  <2> HIDE DEF m
  <2>4. <<n>> \in Answers(m.c)
    BY <2>2
  <2>5. Answered(m) BY <2>1, <2>4, <2>3, OneAnswer
  <2>6. QED BY <2>5 DEF m
<1>2. ASSUME NEW d \in Lengths
      PROVE  Answered(hash_sha256(d))
  <2> DEFINE m == hash_sha256(d)
  <2>1. m.outs = <<Whole(32)>> /\ m.c.room = <<0>>
    BY DEF hash_sha256, optiga_crypt_hash
  <2>2. Answers(m.c) = {<<32>>}
    BY DEF Answers, hash_sha256, optiga_crypt_hash
  <2>3. \A b \in Answers(m.c) : \E n : b = <<n>> /\ Served(Whole(32), 0, n)
    BY <2>2 DEF Served, Whole, Buffer
  <2> HIDE DEF m
  <2>4. <<32>> \in Answers(m.c)
    BY <2>2
  <2>5. Answered(m) BY <2>1, <2>4, <2>3, OneAnswer
  <2>6. QED BY <2>5 DEF m
<1>3. ASSUME NEW o \in Oids, NEW n \in Draws, NEW d \in Draws
      PROVE  Answered(hash_sha256_oid(o, n, d))
  <2> DEFINE m == hash_sha256_oid(o, n, d)
  <2>1. m.outs = <<Whole(32)>> /\ m.c.room = <<0>>
    BY DEF hash_sha256_oid, optiga_crypt_hash
  <2>2. Answers(m.c) = {<<32>>}
    BY DEF Answers, hash_sha256_oid, optiga_crypt_hash
  <2>3. \A b \in Answers(m.c) : \E l : b = <<l>> /\ Served(Whole(32), 0, l)
    BY <2>2 DEF Served, Whole, Buffer
  <2> HIDE DEF m
  <2>4. <<32>> \in Answers(m.c)
    BY <2>2
  <2>5. Answered(m) BY <2>1, <2>4, <2>3, OneAnswer
  <2>6. QED BY <2>5 DEF m
<1>4. QED BY <1>1, <1>2, <1>3 DEF HashCalls

LEMMA EccAnswered == \A m \in EccCalls : m.valid => Answered(m)
<1> USE DEF C, Method
<1>1. ASSUME NEW c \in DOMAIN EccCurve, NEW u \in Usages, NEW k \in DOMAIN KeyId
      PROVE  Answered(ecc_generate_keypair(c, u, k))
  <2> DEFINE m == ecc_generate_keypair(c, u, k)
  <2>1. m.outs = <<Whole(0), Reported(256)>> /\ m.c.room = <<0, 256>>
    BY Sizes DEF ecc_generate_keypair, optiga_crypt_ecc_generate_keypair
  <2>2. Answers(m.c) = {<<0, PointDer(component_len[c])>>}
    BY CurveNumbers
       DEF Answers, ecc_generate_keypair, optiga_crypt_ecc_generate_keypair, U8
  <2>3. \A b \in Answers(m.c) : \E n, l :
          b = <<n, l>> /\ Served(Whole(0), 0, n) /\ Served(Reported(256), 256, l)
    BY <2>2, CurveNumbers DEF Served, Reported, Whole, Buffer, PointDer
  <2> HIDE DEF m
  <2>4. Answers(m.c) # {}
    BY <2>2
  <2>5. Reported(256).kept # "der"
    BY DEF Reported, Buffer
  <2>6. Answered(m) BY <2>1, <2>4, <2>3, <2>5, TwoAnswers
  <2>7. QED BY <2>6 DEF m
<1>2. ASSUME NEW c \in DOMAIN EccCurve
      PROVE  Answered(ecc_generate_keypair_exported(c))
  <2> DEFINE m == ecc_generate_keypair_exported(c)
  <2>1. m.outs = <<Buffer(256, "der"), Reported(256)>> /\ m.c.room = <<0, 256>>
    BY Sizes
       DEF ecc_generate_keypair_exported, optiga_crypt_ecc_generate_keypair
  <2>2. Answers(m.c) = {<<component_len[c] + 2, PointDer(component_len[c])>>,
                        <<0, PointDer(component_len[c])>>}
    BY CurveNumbers DEF Answers, ecc_generate_keypair_exported,
       optiga_crypt_ecc_generate_keypair, U8
  <2>3. \A b \in Answers(m.c) : \E n, l :
          b = <<n, l>> /\ Served(Buffer(256, "der"), 0, n) /\ Served(Reported(256), 256, l)
    BY <2>2, CurveNumbers DEF Served, Reported, Buffer, PointDer
  <2> HIDE DEF m
  <2>4. Answers(m.c) # {}
    BY <2>2
  <2>5. Reported(256).kept # "der"
    BY DEF Reported, Buffer
  <2>6. Answered(m) BY <2>1, <2>4, <2>3, <2>5, TwoAnswers
  <2>7. QED BY <2>6 DEF m
<1>3. ASSUME NEW k \in DOMAIN KeyId, NEW d \in Lengths
      PROVE  Answered(ecdsa_sign(k, d))
  <2> DEFINE m == ecdsa_sign(k, d)
  <2>1. m.outs = <<Reported(160)>> /\ m.c.room = <<160>>
    BY Sizes DEF ecdsa_sign, optiga_crypt_ecdsa_sign
  <2>2. Answers(m.c) = {<<6>>, <<70>>, <<102>>, <<134>>, <<138>>}
    BY DEF Answers, ecdsa_sign, optiga_crypt_ecdsa_sign
  <2>3. \A b \in Answers(m.c) : \E n : b = <<n>> /\ Served(Reported(160), 160, n)
    BY <2>2 DEF Served, Reported, Buffer
  <2> HIDE DEF m
  <2>4. <<6>> \in Answers(m.c)
    BY <2>2
  <2>5. Answered(m) BY <2>1, <2>4, <2>3, OneAnswer
  <2>6. QED BY <2>5 DEF m
<1>4. ASSUME NEW c \in DOMAIN EccCurve, NEW p \in Lengths, NEW d \in Lengths,
            NEW s \in Lengths
      PROVE  Answered(ecdsa_verify(c, p, d, s))
  <2> DEFINE m == ecdsa_verify(c, p, d, s)
  <2>1. m.outs = <<>>
    BY DEF ecdsa_verify, optiga_crypt_ecdsa_verify
  <2>2. Answers(m.c) = {<<>>}
    BY DEF Answers, ecdsa_verify, optiga_crypt_ecdsa_verify
  <2> HIDE DEF m
  <2>3. QED BY <2>1, <2>2, NoAnswer DEF m
<1>5. ASSUME NEW o \in Oids, NEW d \in Lengths, NEW s \in Lengths
      PROVE  Answered(ecdsa_verify_oid(o, d, s))
  <2> DEFINE m == ecdsa_verify_oid(o, d, s)
  <2>1. m.outs = <<>>
    BY DEF ecdsa_verify_oid, optiga_crypt_ecdsa_verify
  <2>2. Answers(m.c) = {<<>>}
    BY DEF Answers, ecdsa_verify_oid, optiga_crypt_ecdsa_verify
  <2> HIDE DEF m
  <2>3. QED BY <2>1, <2>2, NoAnswer DEF m
<1>6. ASSUME NEW k \in DOMAIN KeyId, NEW c \in DOMAIN EccCurve,
            NEW p \in Lengths
      PROVE  Answered(ecdh(k, c, p))
  <2> DEFINE m == ecdh(k, c, p)
  <2>1. m.outs = <<Whole(component_len[c])>> /\ m.c.room = <<0>>
    BY DEF ecdh, optiga_crypt_ecdh
  <2>2. Answers(m.c) = {<<component_len[c]>>}
    BY CurveNumbers DEF Answers, ecdh, optiga_crypt_ecdh, public_key_from_host
  <2>3. \A b \in Answers(m.c) : \E n : b = <<n>> /\ Served(Whole(component_len[c]), 0, n)
    BY <2>2, CurveNumbers DEF Served, Whole, Buffer
  <2> HIDE DEF m
  <2>4. <<component_len[c]>> \in Answers(m.c)
    BY <2>2
  <2>5. Answered(m) BY <2>1, <2>4, <2>3, OneAnswer
  <2>6. QED BY <2>5 DEF m
<1>7. QED BY <1>1, <1>2, <1>3, <1>4, <1>5, <1>6 DEF EccCalls

LEMMA RsaAnswered == \A m \in RsaCalls : m.valid => Answered(m)
<1> USE DEF C, Method
<1>1. ASSUME NEW r \in DOMAIN RsaKeyType, NEW u \in Usages,
            NEW k \in DOMAIN KeyId
      PROVE  Answered(rsa_generate_keypair(r, u, k))
  <2> DEFINE m == rsa_generate_keypair(r, u, k)
  <2>1. m.outs = <<Whole(0), Reported(512)>> /\ m.c.room = <<0, 512>>
    BY Sizes DEF rsa_generate_keypair, optiga_crypt_rsa_generate_keypair
  <2>2. Answers(m.c) = {<<0, RsaKeyDer(RsaKeyType[r])>>}
    BY RsaNumbers
       DEF Answers, rsa_generate_keypair, optiga_crypt_rsa_generate_keypair
  <2>3. \A b \in Answers(m.c) : \E n, l :
          b = <<n, l>> /\ Served(Whole(0), 0, n) /\ Served(Reported(512), 512, l)
    BY <2>2, RsaNumbers DEF Served, Reported, Whole, Buffer, RsaKeyDer
  <2> HIDE DEF m
  <2>4. Answers(m.c) # {}
    BY <2>2
  <2>5. Reported(512).kept # "der"
    BY DEF Reported, Buffer
  <2>6. Answered(m) BY <2>1, <2>4, <2>3, <2>5, TwoAnswers
  <2>7. QED BY <2>6 DEF m
<1>2. ASSUME NEW h \in DOMAIN RsaSignatureScheme, NEW k \in DOMAIN KeyId,
            NEW d \in Lengths
      PROVE  Answered(rsa_sign(h, k, d))
  <2> DEFINE m == rsa_sign(h, k, d)
  <2>1. m.outs = <<Reported(256)>> /\ m.c.room = <<256>>
    BY Sizes DEF rsa_sign, optiga_crypt_rsa_sign
  <2>2. Answers(m.c) = {<<128>>, <<256>>}
    BY DEF Answers, rsa_sign, optiga_crypt_rsa_sign
  <2>3. \A b \in Answers(m.c) : \E n : b = <<n>> /\ Served(Reported(256), 256, n)
    BY <2>2 DEF Served, Reported, Buffer
  <2> HIDE DEF m
  <2>4. <<128>> \in Answers(m.c)
    BY <2>2
  <2>5. Answered(m) BY <2>1, <2>4, <2>3, OneAnswer
  <2>6. QED BY <2>5 DEF m
<1>3. ASSUME NEW h \in DOMAIN RsaSignatureScheme, NEW r \in DOMAIN RsaKeyType,
            NEW p \in Lengths, NEW d \in Lengths, NEW s \in Lengths
      PROVE  Answered(rsa_verify(h, r, p, d, s))
  <2> DEFINE m == rsa_verify(h, r, p, d, s)
  <2>1. m.outs = <<>>
    BY DEF rsa_verify, optiga_crypt_rsa_verify
  <2>2. Answers(m.c) = {<<>>}
    BY DEF Answers, rsa_verify, optiga_crypt_rsa_verify
  <2> HIDE DEF m
  <2>3. QED BY <2>1, <2>2, NoAnswer DEF m
<1>4. ASSUME NEW r \in DOMAIN RsaKeyType, NEW p \in Lengths, NEW d \in Lengths
      PROVE  Answered(rsa_encrypt(r, p, d))
  <2> DEFINE m == rsa_encrypt(r, p, d)
  <2>1. m.outs = <<Reported(modulus_len[r])>> /\ m.c.room = <<modulus_len[r]>>
    BY RsaNumbers DEF rsa_encrypt, optiga_crypt_rsa_encrypt_message
  <2>2. Answers(m.c) = {<<modulus_len[r]>>}
    BY RsaNumbers DEF Answers, rsa_encrypt, optiga_crypt_rsa_encrypt_message,
       public_key_from_host
  <2>3. \A b \in Answers(m.c) : \E n : b = <<n>> /\ Served(Reported(modulus_len[r]), modulus_len[r], n)
    BY <2>2, RsaNumbers DEF Served, Reported, Buffer
  <2> HIDE DEF m
  <2>4. <<modulus_len[r]>> \in Answers(m.c)
    BY <2>2
  <2>5. Answered(m) BY <2>1, <2>4, <2>3, OneAnswer
  <2>6. QED BY <2>5 DEF m
<1>5. ASSUME NEW k \in DOMAIN KeyId, NEW d \in Lengths
      PROVE  Answered(rsa_decrypt(k, d))
  <2> DEFINE m == rsa_decrypt(k, d)
  <2>1. m.outs = <<Reported(256)>> /\ m.c.room = <<256>>
    BY Sizes DEF rsa_decrypt, optiga_crypt_rsa_decrypt_and_export
  <2>2. Answers(m.c) = {<<0>>, <<245>>}
    BY DEF Answers, rsa_decrypt, optiga_crypt_rsa_decrypt_and_export
  <2>3. \A b \in Answers(m.c) : \E n : b = <<n>> /\ Served(Reported(256), 256, n)
    BY <2>2 DEF Served, Reported, Buffer
  <2> HIDE DEF m
  <2>4. <<0>> \in Answers(m.c)
    BY <2>2
  <2>5. Answered(m) BY <2>1, <2>4, <2>3, OneAnswer
  <2>6. QED BY <2>5 DEF m
<1>6. QED BY <1>1, <1>2, <1>3, <1>4, <1>5 DEF RsaCalls

LEMMA SecretAnswered == \A m \in SecretCalls : m.valid => Answered(m)
<1> USE DEF C, Method
<1>1. ASSUME NEW h \in DOMAIN HmacType, NEW o \in Oids, NEW d \in Lengths
      PROVE  Answered(hmac(h, o, d))
  <2> DEFINE m == hmac(h, o, d)
  <2>1. m.outs = <<Reported(mac_len[h])>> /\ m.c.room = <<mac_len[h]>>
    BY MacNumbers DEF hmac, optiga_crypt_hmac
  <2>2. Answers(m.c) = {<<mac_len[h]>>}
    BY MacNumbers DEF Answers, hmac, optiga_crypt_hmac
  <2>3. \A b \in Answers(m.c) : \E n : b = <<n>> /\ Served(Reported(mac_len[h]), mac_len[h], n)
    BY <2>2, MacNumbers DEF Served, Reported, Buffer
  <2> HIDE DEF m
  <2>4. <<mac_len[h]>> \in Answers(m.c)
    BY <2>2
  <2>5. Answered(m) BY <2>1, <2>4, <2>3, OneAnswer
  <2>6. QED BY <2>5 DEF m
<1>2. ASSUME NEW h \in DOMAIN HkdfType, NEW o \in Oids, NEW s \in Lengths,
            NEW d \in Lengths, NEW n \in Draws
      PROVE  Answered(hkdf(h, o, s, d, n))
  <2> DEFINE m == hkdf(h, o, s, d, n)
  <2>1. m.outs = <<Whole(n)>> /\ m.c.room = <<0>>
    BY DEF hkdf, optiga_crypt_hkdf
  <2>2. Answers(m.c) = {<<n>>}
    BY Arguments DEF Answers, hkdf, optiga_crypt_hkdf
  <2>3. \A b \in Answers(m.c) : \E l : b = <<l>> /\ Served(Whole(n), 0, l)
    BY <2>2, Arguments DEF Served, Whole, Buffer
  <2> HIDE DEF m
  <2>4. <<n>> \in Answers(m.c)
    BY <2>2
  <2>5. Answered(m) BY <2>1, <2>4, <2>3, OneAnswer
  <2>6. QED BY <2>5 DEF m
<1>3. ASSUME NEW h \in DOMAIN TlsPrfType, NEW o \in Oids, NEW l \in Lengths,
            NEW s \in Lengths, NEW n \in Draws
      PROVE  Answered(tls_prf(h, o, l, s, n))
  <2> DEFINE m == tls_prf(h, o, l, s, n)
  <2>1. m.outs = <<Whole(n)>> /\ m.c.room = <<0>>
    BY DEF tls_prf, optiga_crypt_tls_prf
  <2>2. Answers(m.c) = {<<n>>}
    BY Arguments DEF Answers, tls_prf, optiga_crypt_tls_prf
  <2>3. \A b \in Answers(m.c) : \E j : b = <<j>> /\ Served(Whole(n), 0, j)
    BY <2>2, Arguments DEF Served, Whole, Buffer
  <2> HIDE DEF m
  <2>4. <<n>> \in Answers(m.c)
    BY <2>2
  <2>5. Answered(m) BY <2>1, <2>4, <2>3, OneAnswer
  <2>6. QED BY <2>5 DEF m
<1>4. ASSUME NEW k \in DOMAIN SymmetricKeyType, NEW u \in Usages
      PROVE  Answered(symmetric_generate_key(k, u))
  <2> DEFINE m == symmetric_generate_key(k, u)
  <2>1. m.outs = <<>>
    BY DEF symmetric_generate_key, optiga_crypt_symmetric_generate_key
  <2>2. Answers(m.c) = {<<>>}
    BY DEF Answers, symmetric_generate_key, optiga_crypt_symmetric_generate_key
  <2> HIDE DEF m
  <2>3. QED BY <2>1, <2>2, NoAnswer DEF m
<1>5. ASSUME NEW d \in Lengths, aes_ecb_encrypt(d).valid
      PROVE  Answered(aes_ecb_encrypt(d))
  <2> DEFINE m == aes_ecb_encrypt(d)
  <2>1. U32(d) = d
    BY <1>5, Arguments, FitsWidth DEF aes_ecb_encrypt
  <2>2. m.outs = <<Reported(d)>> /\ m.c.room = <<d>>
    BY <2>1 DEF aes_ecb_encrypt, optiga_crypt_symmetric_encrypt_ecb
  <2>3. Answers(m.c) = {<<d>>}
    BY <2>1 DEF Answers, aes_ecb_encrypt, optiga_crypt_symmetric_encrypt_ecb
  <2>4. \A b \in Answers(m.c) : \E n : b = <<n>> /\ Served(Reported(d), d, n)
    BY <2>3, Arguments DEF Served, Reported, Buffer
  <2> HIDE DEF m
  <2>5. <<d>> \in Answers(m.c)
    BY <2>3
  <2>6. Answered(m) BY <2>2, <2>5, <2>4, OneAnswer
  <2>7. QED BY <2>6 DEF m
<1>6. ASSUME NEW d \in Lengths, aes_ecb_decrypt(d).valid
      PROVE  Answered(aes_ecb_decrypt(d))
  <2> DEFINE m == aes_ecb_decrypt(d)
  <2>1. U32(d) = d
    BY <1>6, Arguments, FitsWidth DEF aes_ecb_decrypt
  <2>2. m.outs = <<Reported(d)>> /\ m.c.room = <<d>>
    BY <2>1 DEF aes_ecb_decrypt, optiga_crypt_symmetric_decrypt_ecb
  <2>3. Answers(m.c) = {<<d>>}
    BY <2>1 DEF Answers, aes_ecb_decrypt, optiga_crypt_symmetric_decrypt_ecb
  <2>4. \A b \in Answers(m.c) : \E n : b = <<n>> /\ Served(Reported(d), d, n)
    BY <2>3, Arguments DEF Served, Reported, Buffer
  <2> HIDE DEF m
  <2>5. <<d>> \in Answers(m.c)
    BY <2>3
  <2>6. Answered(m) BY <2>2, <2>5, <2>4, OneAnswer
  <2>7. QED BY <2>6 DEF m
<1>7. QED BY <1>1, <1>2, <1>3, <1>4, <1>5, <1>6 DEF SecretCalls

LEMMA CallsAnswered == \A m \in Accepted : Answered(m)
BY DataObjectsAnswered, HashAnswered, EccAnswered, RsaAnswered, SecretAnswered
   DEF Accepted, Invocations
=============================================================================
