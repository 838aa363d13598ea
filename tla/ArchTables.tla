----------------------------- MODULE ArchTables -----------------------------
(***************************************************************************)
(* What dukkha calls an architecture, and what the tools it runs call it:  *)
(* the tables of pkg/constant (arch_mapping.go, arch_variant.go,           *)
(* arch_apple.go, triple.go) and the variables a Go build is given for a   *)
(* matrix entry (pkg/tools/golang/build.go, cgo.go).                       *)
(*                                                                         *)
(* The rows of a table that differ in nothing but the name of the          *)
(* architecture are one row here.  The pair TRUE/FALSE the lookups return  *)
(* is left out: no caller in this development looks at it, and an unknown  *)
(* architecture is given the empty name, as in the code.                   *)
(***************************************************************************)
EXTENDS Naturals, Sequences, FiniteSets, TLC

Amd64 == {"amd64", "amd64v1", "amd64v2", "amd64v3", "amd64v4"}
Ppc32 == {"ppc", "ppcsf"}
Ppc32Le == {"ppcle", "ppclesf"}
Ppc64 == {"ppc64", "ppc64v8", "ppc64v9"}
Ppc64Le == {"ppc64le", "ppc64v8le", "ppc64v9le"}
Mips32 == {"mips", "mipssf"}
Mips32Le == {"mipsle", "mipslesf"}
Mips64 == {"mips64", "mips64sf"}
Mips64Le == {"mips64le", "mips64lesf"}

Archs == {"x86", "armv5", "armv6", "armv7", "arm64", "riscv64", "s390x", "ia64"}
           \cup Amd64 \cup Ppc32 \cup Ppc32Le \cup Ppc64 \cup Ppc64Le
           \cup Mips32 \cup Mips32Le \cup Mips64 \cup Mips64Le

(***************************************************************************)
(* archMapping.  Golang, Docker and OCI are three columns of the source    *)
(* with the same values in every row: `oci` is all three.                  *)
(***************************************************************************)

Row(alpine, debian, gnu, oci, qemu, hub, llvm) ==
  [alpine |-> alpine, debian |-> debian, gnu |-> gnu, oci |-> oci,
   qemu |-> qemu, hub |-> hub, llvm |-> llvm]

Same(name, hub, llvm) == Row(name, name, name, name, name, hub, llvm)

X86Rows == [a \in {"x86"} |-> Row("x86", "i386", "i686", "386", "i386", "i386", "x86")]
  @@ [a \in Amd64 |-> Row("x86_64", "amd64", "x86_64", "amd64", "x86_64", "amd64", "x86_64")]

ArmRows == "armv5" :> Row("armv5l", "armel", "arm", "arm", "arm", "arm32v5", "armv5")
  @@ "armv6" :> Row("armhf", "armel", "arm", "arm", "arm", "arm32v6", "armv6")
  @@ "armv7" :> Row("armv7", "armhf", "arm", "arm", "arm", "arm32v7", "armv7")
  @@ "arm64" :> Row("aarch64", "arm64", "aarch64", "arm64", "aarch64", "arm64v8", "aarch64")

PpcRows == [a \in Ppc32 |-> Row("", "powerpc", "powerpc", "ppc", "ppc", "", "")]
  @@ [a \in Ppc32Le |-> Row("", "powerpcel", "powerpcle", "", "", "", "")]
  @@ [a \in Ppc64 |-> Row("ppc64", "ppc64", "powerpc64", "ppc64", "ppc64", "", "")]
  @@ [a \in Ppc64Le |->
        Row("ppc64le", "ppc64el", "powerpc64le", "ppc64le", "ppc64le", "ppc64le", "ppc64le")]

MipsRows == [a \in Mips32 |-> Same("mips", "", "")]
  @@ [a \in Mips32Le |-> Row("mipsel", "mipsel", "mipsel", "mipsle", "mipsel", "", "")]
  @@ [a \in Mips64 |-> Same("mips64", "", "")]
  @@ [a \in Mips64Le |->
        Row("mips64el", "mips64el", "mips64el", "mips64le", "mips64el", "mips64le", "mips64el")]

OtherRows == "riscv64" :> Same("riscv64", "riscv64", "")
  @@ "s390x" :> Same("s390x", "s390x", "systemz")
  @@ "ia64" :> Row("", "ia64", "ia64", "", "", "", "")

archMapping == X86Rows @@ ArmRows @@ PpcRows @@ MipsRows @@ OtherRows

GetArch(column, a) == IF a \in Archs THEN archMapping[a][column] ELSE ""

(* GetOciArchVariant and GetDockerArchVariant: one table, written twice.   *)
Variants == "armv5" :> "v5" @@ "armv6" :> "v6" @@ "armv7" :> "v7" @@ "arm64" :> "v8"
  @@ "amd64v1" :> "v1" @@ "amd64v2" :> "v2" @@ "amd64v3" :> "v3" @@ "amd64v4" :> "v4"
  @@ [a \in {"ppcsf", "ppclesf", "mipssf", "mipslesf", "mips64sf", "mips64lesf"} |-> "softfloat"]
  @@ [a \in {"ppc64v8", "ppc64v8le"} |-> "power8"]
  @@ [a \in {"ppc64v9", "ppc64v9le"} |-> "power9"]

GetOciArchVariant(a) == IF a \in DOMAIN Variants THEN Variants[a] ELSE ""

(* The platform of an image: --os, --arch and --variant.  Kernels are      *)
(* GOOS values, which OCI uses as they are.                                *)
Platform(kernel, a) == <<kernel, GetArch("oci", a), GetOciArchVariant(a)>>

(***************************************************************************)
(* Triples, as sequences of their parts                                    *)
(***************************************************************************)

Soft == {"mipssf", "mipslesf", "ppcsf", "ppclesf"}

GetAlpineTripleName(a) ==
  LET cpu == CASE a = "armv7" -> "armv7l"
               [] a = "armv6" -> "armv6"
               [] a = "armv5" -> "armv5l"
               [] OTHER -> GetArch("gnu", a)
      abi == CASE a \in {"mips64sf", "mips64lesf"} -> "musln32sf"
               [] a \in Soft -> "muslsf"
               [] a = "armv5" -> "musleabi"
               [] a \in {"armv6", "armv7"} -> "musleabihf"
               [] OTHER -> "musl"
  IN IF a \notin Archs \ {"ia64"} THEN <<>> ELSE <<cpu, "linux", abi>>

Mips == Mips32 \cup Mips32Le \cup Mips64 \cup Mips64Le
WithDebianMusl == {"x86", "armv5", "armv6", "armv7", "arm64", "s390x", "riscv64"} \cup Amd64 \cup Mips

GetDebianTripleName(a, libc) ==
  CASE libc = "musl" /\ a \in WithDebianMusl ->
         <<IF a = "x86" THEN "i386" ELSE GetArch("gnu", a), "linux",
           CASE a \in {"armv5", "armv6"} -> "musleabi"
             [] a = "armv7" -> "musleabihf"
             [] OTHER -> "musl">>
    [] libc = "msvc" /\ a \in {"x86"} \cup Amd64 -> <<GetArch("gnu", a), "w64", "mingw32">>
    [] libc \notin {"musl", "msvc"} /\ a \in Archs \ ({"ia64"} \cup Ppc32 \cup Ppc32Le) ->
         <<GetArch("gnu", a), "linux",
           CASE a \in {"armv5", "armv6"} -> "gnueabi"
             [] a = "armv7" -> "gnueabihf"
             [] a \in Mips64 \cup Mips64Le -> "gnuabi64"
             [] OTHER -> "gnu">>
    [] OTHER -> <<>>

(* The libc part GetGNUTripleName and GetLLVMTripleName agree on.          *)
MutAbi(a, libc) ==
  CASE libc \in {"musl", "msvc"} -> libc
    [] a \in {"armv5", "armv6"} -> "gnueabi"
    [] a = "armv7" -> "gnueabihf"
    [] OTHER -> "gnu"
Abi(a, libc) ==
  CASE libc = "musl" ->
         (CASE a \in {"armv5", "armv6"} -> "musleabi" [] a = "armv7" -> "musleabihf" [] OTHER -> "musl")
    [] libc = "msvc" -> "msvc"
    [] OTHER ->
         (CASE a \in {"armv5", "armv6"} -> "gnueabi" [] a = "armv7" -> "gnueabihf"
            [] a \in Mips64 \cup Mips64Le -> "gnuabi64" [] OTHER -> "gnu")

GetGNUTripleName(a, libc) ==
  IF a \in Archs THEN <<GetArch("gnu", a), "linux", Abi(a, libc)>> ELSE <<>>

(* LLVM's names of the kernels; netbsd is given darwin's.                  *)
Sys(kernel) == CASE kernel = "netbsd" -> "darwin" [] OTHER -> kernel

GetLLVMTripleName(a, kernel, libc) ==
  IF a \in Archs THEN <<GetArch("llvm", a), "unknown", Sys(kernel), Abi(a, libc)>> ELSE <<>>

GetAppleTripleName(a) ==
  CASE a \in Amd64 -> <<"x86_64", "apple", "darwin">>
    [] a = "arm64" -> <<"arm64", "apple", "darwin">>
    [] OTHER -> <<>>

(***************************************************************************)
(* The environment of a Go build                                           *)
(***************************************************************************)

(* GOMIPS, GOARM, GOAMD64, GOPPC64: at most one of them is set.            *)
Level(a) ==
  CASE a \in {"mipssf", "mipslesf", "mips64sf", "mips64lesf"} -> <<"GOMIPS", "softfloat">>
    [] a \in Mips -> <<"GOMIPS", "hardfloat">>
    [] a = "armv5" -> <<"GOARM", "5">>
    [] a = "armv6" -> <<"GOARM", "6">>
    [] a = "armv7" -> <<"GOARM", "7">>
    [] a \in Amd64 \ {"amd64"} -> <<"GOAMD64", Variants[a]>>
    [] a \in {"ppc64v8", "ppc64v8le", "ppc64v9", "ppc64v9le"} -> <<"GOPPC64", Variants[a]>>
    [] OTHER -> <<>>

(* An architecture without a Go name is passed on as it is.                *)
GoArch(a) == IF GetArch("oci", a) # "" THEN GetArch("oci", a) ELSE a

(* The C compiler for a foreign entry, unless the task names one.          *)
CrossCompiler(hostOS, kernel, a, libc) ==
  CASE hostOS \in {"debian", "ubuntu"} /\ kernel \in {"linux", "windows"} ->
         GetDebianTripleName(a, libc)
    [] hostOS \in {"debian", "ubuntu"} /\ kernel = "darwin" -> GetAppleTripleName(a)
    [] hostOS = "alpine" -> GetAlpineTripleName(a)
    [] OTHER -> <<>>

createBuildEnv(host, kernel, a, libc, cgo) ==
  [GOOS |-> kernel, GOARCH |-> GoArch(a), level |-> Level(a), CGO |-> cgo,
   CC |-> IF cgo /\ <<host.kernel, host.arch>> # <<kernel, a>>
          THEN CrossCompiler(host.os, kernel, a, libc) ELSE <<>>]

=============================================================================
