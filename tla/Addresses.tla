----------------------------- MODULE Addresses -----------------------------
(***************************************************************************)
(* Function addresses as API configurations keep them: encode_address and  *)
(* decode_address in src/core/resolver.cpp.                                *)
(*                                                                         *)
(* One dword says where a function is for every process: an address below  *)
(* the shared arena counts from where a system DLL is in the process, one  *)
(* in the shared arena is itself, one above counts from where an API       *)
(* library is in the process, and the topmost are ordinals of exports that *)
(* the system DLL forwards.                                                *)
(***************************************************************************)
EXTENDS Integers

CONSTANTS
  SEGMENT,   \* 0x01000000, the room for an API library that is not shared
  SHARED,    \* 0x80 segments lie below the shared arena
  ENCODED,   \* 0xc0: this one and those above it are for API libraries
  TOP,       \* 0x100 segments in all
  FORWARDS,  \* 0x10000 ordinals at the top of the last segment
  Stub       \* where a redir_stub for an address is

ASSUME AddressesAssumption ==
  /\ SEGMENT \in Nat /\ FORWARDS \in 1..SEGMENT
  /\ SHARED \in Nat /\ ENCODED \in Nat /\ TOP \in Nat
  /\ 0 < SHARED /\ SHARED < ENCODED /\ ENCODED < TOP - 1

Dword == 0..(TOP * SEGMENT - 1)

ASSUME StubAssumption ==
  Stub \in [Dword -> (SHARED * SEGMENT)..(ENCODED * SEGMENT - 1)]

IS_SHARED(a) == a >= SHARED * SEGMENT

\* An export that the system DLL forwards, kept by its ordinal.
ForwardOf(ordinal) == TOP * SEGMENT - FORWARDS + ordinal
IsForward(a)       == a >= TOP * SEGMENT - FORWARDS
OrdinalOf(a)       == a - (TOP * SEGMENT - FORWARDS)

\* What encode_address asserts in debug builds: there is a segment for the
\* library, and the library has room in it.
HasSegment(index) == index + ENCODED < TOP - 1
Fits(addr, handle) == addr - handle \in 0..(SEGMENT - 1)

\* For the library with this index in apilib_ptrs; 0 is STD, the system's own.
encode_address(addr, index, handle) ==
  IF index = 0
    THEN IF addr < ENCODED * SEGMENT \/ IsForward(addr) THEN addr ELSE Stub[addr]
  ELSE IF ~IS_SHARED(handle)
    THEN ((ENCODED + index) * SEGMENT + addr - handle) % (TOP * SEGMENT)
  ELSE addr

\* What decode_address goes by, and what resolve_nonshared_addr makes of the
\* encoded ones: which library, and where in it.
KindOf(p) ==
  IF p = 0 THEN "none"
  ELSE IF IsForward(p) THEN "forward"
  ELSE IF ~IS_SHARED(p) THEN "inTarget"
  ELSE IF p >= ENCODED * SEGMENT THEN "inLibrary"
  ELSE "absolute"
LibraryOf(p) == p \div SEGMENT - ENCODED
OffsetOf(p)  == p % SEGMENT

=============================================================================
