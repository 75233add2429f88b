---------------------------- MODULE MCMatrixPlan ----------------------------
(* Instances of MatrixPlan for TLC. *)
EXTENDS MatrixPlan

CONSTANTS p1, p2

Engine(id, family, kind, series, packages, targets) ==
    [id |-> id, family |-> family, kind |-> kind, series |-> series, packages |-> packages,
     targets |-> targets]

Vinyl90 == Engine("vinyl-9.0.2", "vinyl", "release", "vinyl-9.0", TRUE, <<"deb", "rpm">>)
Vinyl91 == Engine("vinyl-9.1.0", "vinyl", "release", "vinyl-9.1", TRUE, <<"deb">>)
Varnish == Engine("varnish-9.0.3", "varnish", "release", "varnish-9.0", FALSE, <<"deb">>)
Trunk   == Engine("vinyl-trunk", "vinyl", "trunk", "vinyl-trunk", FALSE, <<"deb">>)
Trunk2  == Engine("varnish-trunk", "varnish", "trunk", "varnish-trunk", FALSE, <<"deb">>)

At(ref, commit) == [ref |-> ref, commit |-> commit]

Vmod(id, git, build, entry, bySeries, promoted, families, targets) ==
    [id |-> id, git |-> git, build |-> build, head |-> "master", default |-> entry,
     bySeries |-> bySeries, promoted |-> promoted, families |-> families, targets |-> targets]

None == [s \in {} |-> NoPin]
Both == {"deb", "rpm"}

\* One ref pinned at two commits; no pin; a cargo build packaged for one target.
Brotli  == Vmod("brotli", "g1", "autotools", At("master", p1),
                [s \in {"vinyl-9.1"} |-> At("master", p2)], TRUE, Families, Both)
Curl    == Vmod("curl", "g1", "autotools", At("master", NoPin), None, FALSE, Families, Both)
Reqwest == Vmod("reqwest", "g1", "cargo", At("v1", p1), None, TRUE, {"vinyl"}, {"deb"})
CurlUp  == [Curl EXCEPT !.promoted = TRUE]

Catalog(engines, vmods) ==
    [engines |-> engines, vmods |-> vmods, targets |-> [t \in Both |-> "ubuntu-24.04"]]

MCCatalogs == {
    Catalog(<<Vinyl90, Vinyl91, Trunk>>, <<Brotli, Curl, Reqwest>>),
    Catalog(<<Vinyl91, Varnish, Trunk, Trunk2>>, <<Brotli, Curl>>),
    Catalog(<<Vinyl91, Varnish, Trunk>>, <<Brotli, CurlUp>>)}

MCKeys == [row : {"brotli", "curl", "reqwest"} \cup {e.id : e \in {Vinyl90, Vinyl91, Varnish, Trunk, Trunk2}},
           engine : {e.id : e \in {Vinyl90, Vinyl91, Varnish, Trunk, Trunk2}},
           target : Both, mode : {"compat", "package", "engine"}]
=============================================================================
