--------------------------- MODULE DataCompression ---------------------------
(***************************************************************************)
(* whz::whz_datacompression: files into a zip or 7z archive and back.      *)
(*                                                                         *)
(* Of libzip: zip_file_add notes the name and the source, zip_close reads  *)
(* the sources and replaces the archive, or fails and leaves it; an        *)
(* archive without entries is removed.  Of libarchive: an entry gets the   *)
(* size of its header, cut off or padded if the data differ.  A text that  *)
(* was cut off or padded is "mangled".  A path is a record of directory    *)
(* and filename.                                                           *)
(***************************************************************************)
EXTENDS Naturals, Sequences, SequencesExt

CONSTANTS
    Paths,      \* [dir, name]: the files that may be there
    FileTexts,  \* what they may hold
    FileLists,  \* the lists given to compress
    MaxJobs,    \* bound: calls
    MaxChanges  \* bound: changes to the files by others

ASSUME FileTextsAssumption == FileTexts \cap {"absent", "mangled"} = {}
ASSUME FileListsAssumption == \A l \in FileLists : l \in Seq(Paths)
ASSUME MaxJobsAssumption == MaxJobs \in Nat /\ MaxChanges \in Nat

VARIABLES
    disk,       \* [Paths -> texts or absent]
    zip,        \* the zip archive: [names -> texts], <<>> if there is none
    sevenzip,   \* the 7z archive: [paths -> texts]
    outputDir,  \* what was unpacked last: [names or paths -> texts]
    job,        \* the call that is running, and what is left of its list;
                \* history, packed: the files of the list that were there
    added,      \* the paths noted for the zip archive, in order
    entries,    \* the entries of the 7z archive that is being written
    result,     \* what the last call returned; true is written "zipped" of
                \* compressZip, "unzipped" of decompressZip
    compressed, \* history: the files the last call, a compressZip, has added
    damaged,    \* history: the entries the last call, a decompressZip, could
                \* not read or write to the end
    zip_of,     \* history: the paths of the zip archive, in order, and their
                \* texts when it was closed
    jobs, changes

report_vars == <<compressed, damaged>>

archive_vars == <<disk, zip, sevenzip, outputDir, job, added, entries, result,
                  report_vars, zip_of, jobs, changes>>

idle_job == [op |-> "none", todo |-> <<>>, size |-> "none", packed |-> <<>>]

ArchivesInit ==
    /\ disk = [p \in Paths |-> CHOOSE t \in FileTexts : TRUE]
    /\ zip = <<>> /\ sevenzip = <<>> /\ outputDir = <<>>
    /\ job = idle_job
    /\ added = <<>> /\ entries = <<>>
    /\ result = "none"
    /\ compressed = <<>> /\ damaged = {}
    /\ zip_of = [paths |-> <<>>, texts |-> disk]
    /\ jobs = 0 /\ changes = 0

Call ==
    /\ job = idle_job
    /\ jobs < MaxJobs
    /\ jobs' = jobs + 1
    /\ compressed' = <<>>

\* A call that returns false before it has touched anything: a format that is
\* not known, a directory or archive that is not there, an output that does
\* not open.  compressDirectory() refuses a missing output directory, while
\* compress() only logs it.
Refused ==
    /\ Call
    /\ damaged' = {}
    /\ result' = "false"
    /\ UNCHANGED <<disk, zip, sevenzip, outputDir, job, added, entries, zip_of,
                   changes>>

\* compressZip(), for compress() and, with the files of a directory,
\* compressDirectory().
CompressZip ==
    /\ Call
    /\ \E l \in FileLists : job' = [idle_job EXCEPT !.op = "zip", !.todo = l]
    /\ added' = <<>>
    /\ damaged' = {}
    /\ result' = "none"
    /\ UNCHANGED <<disk, zip, sevenzip, outputDir, entries, zip_of, changes>>

\* The path whose file an entry is made of: the last one added under its name.
source_of(name, paths) ==
    paths[Max({i \in DOMAIN paths : paths[i].name = name})]

names_of(paths) == {p.name : p \in Range(paths)}

\* zip_close(): it fails if a source is gone by now, and for reasons of its own.
Close ==
    \/ /\ \A n \in names_of(added) : disk[source_of(n, added)] # "absent"
       /\ zip' = [n \in names_of(added) |-> disk[source_of(n, added)]]
       /\ zip_of' = [paths |-> job.packed, texts |-> disk]
    \/ UNCHANGED <<zip, zip_of>>

Ends(r) == job' = idle_job /\ result' = r

\* The history of a turn of the loop.
Packed(p) == IF disk[p] = "absent" THEN job.packed ELSE Append(job.packed, p)

\* Mutant: a name that is taken keeps its first file.
ZipAdd_first ==
    /\ job.op = "zip"
    /\ job.todo # <<>>
    /\ LET p == Head(job.todo)
       IN  /\ added' = IF disk[p] = "absent" \/ p.name \in names_of(added)
                       THEN added ELSE Append(added, p)
           /\ job' = [job EXCEPT !.todo = Tail(job.todo), !.packed = Packed(p)]
    /\ UNCHANGED <<disk, zip, sevenzip, outputDir, entries, result, zip_of, jobs,
                   changes, report_vars>>

\* A turn of the loop: what is no regular file is passed over, a name that is
\* taken gets the new source (ZIP_FL_OVERWRITE).
ZipAdd ==
    /\ job.op = "zip"
    /\ job.todo # <<>>
    /\ LET p == Head(job.todo)
       IN  /\ added' = IF disk[p] = "absent" THEN added ELSE Append(added, p)
           /\ job' = [job EXCEPT !.todo = Tail(job.todo), !.packed = Packed(p)]
    /\ UNCHANGED <<disk, zip, sevenzip, outputDir, entries, result, zip_of, jobs,
                   changes, report_vars>>

\* An entry is refused: the archive is closed with those before it.
ZipAddFails ==
    /\ job.op = "zip"
    /\ job.todo # <<>>
    /\ disk[Head(job.todo)] # "absent"
    /\ Close
    /\ Ends("false")
    /\ UNCHANGED <<disk, sevenzip, outputDir, added, entries, jobs, changes,
                   report_vars>>

\* Its compression level is refused: the archive is never closed.
ZipLevelFails ==
    /\ job.op = "zip"
    /\ job.todo # <<>>
    /\ disk[Head(job.todo)] # "absent"
    /\ Ends("false")
    /\ UNCHANGED <<disk, zip, sevenzip, outputDir, added, entries, zip_of, jobs,
                   changes, report_vars>>

\* The end of compressZip(): the result of zip_close() is not looked at.
ZipClose ==
    /\ job.op = "zip"
    /\ job.todo = <<>>
    /\ Close
    /\ Ends("zipped")
    /\ compressed' = job.packed
    /\ UNCHANGED <<disk, sevenzip, outputDir, added, entries, damaged, jobs,
                   changes>>

\* compress7z(): the old archive is overwritten at once.
Compress7z ==
    /\ Call
    /\ \E l \in FileLists : job' = [idle_job EXCEPT !.op = "7z", !.todo = l]
    /\ sevenzip' = <<>>
    /\ entries' = <<>>
    /\ damaged' = {}
    /\ result' = "none"
    /\ UNCHANGED <<disk, zip, outputDir, added, zip_of, changes>>

\* The header of an entry, with the size of the file.
SevenHeader ==
    /\ job.op = "7z"
    /\ job.todo # <<>>
    /\ job.size = "none"
    /\ LET text == disk[Head(job.todo)]
       IN  job' = IF text = "absent" THEN [job EXCEPT !.todo = Tail(@)]
                  ELSE [job EXCEPT !.size = text]
    /\ UNCHANGED <<disk, zip, sevenzip, outputDir, added, entries, result, zip_of,
                   jobs, changes, report_vars>>

\* Its data, read after the header; a file that is gone has none.  readsome()
\* takes what the stream has at hand, which in some libraries is nothing.
SevenData ==
    /\ job.op = "7z"
    /\ job.size # "none"
    /\ \E text \in {disk[Head(job.todo)], "mangled"} :
        /\ text \in {job.size, "mangled"}
        /\ entries' = (Head(job.todo) :> text) @@ entries
    /\ job' = [job EXCEPT !.todo = Tail(@), !.size = "none"]
    /\ UNCHANGED <<disk, zip, sevenzip, outputDir, added, result, zip_of, jobs,
                   changes, report_vars>>

SevenClose ==
    /\ job.op = "7z"
    /\ job.todo = <<>>
    /\ sevenzip' = entries
    /\ Ends("true")
    /\ UNCHANGED <<disk, zip, outputDir, added, entries, zip_of, jobs, changes,
                   report_vars>>

\* The entries of these names are unpacked, into an empty directory.  Neither
\* the open nor the writes of the output are checked, and an error of zip_fread
\* is taken for the end: a file may be missing or mangled.
Unpack(names) ==
    \E missing, cut \in SUBSET names :
        /\ outputDir' = [n \in names \ missing |->
                             IF n \in cut THEN "mangled" ELSE zip[n]]
        /\ damaged' = missing \cup cut

DecompressZip ==
    /\ Call
    /\ zip # <<>>
    /\ Unpack(DOMAIN zip)
    /\ result' = "unzipped"
    /\ UNCHANGED <<disk, zip, sevenzip, job, added, entries, zip_of,
                   changes>>

\* An entry cannot be opened: those before it have been unpacked.
DecompressZipFails ==
    /\ Call
    /\ zip # <<>>
    /\ \E names \in SUBSET DOMAIN zip : names # DOMAIN zip /\ Unpack(names)
    /\ result' = "false"
    /\ UNCHANGED <<disk, zip, sevenzip, job, added, entries, zip_of,
                   changes>>

\* decompress() of a 7z archive: entries that cannot be written are logged.
Decompress7z ==
    /\ Call
    /\ sevenzip # <<>>
    /\ \E paths \in SUBSET DOMAIN sevenzip :
        outputDir' = [p \in paths |-> sevenzip[p]]
    /\ damaged' = {}
    /\ result' = "true"
    /\ UNCHANGED <<disk, zip, sevenzip, job, added, entries, zip_of, changes>>

\* Others write or remove files.
ChangeFile ==
    /\ changes < MaxChanges
    /\ changes' = changes + 1
    /\ \E p \in Paths, t \in FileTexts \cup {"absent"} :
        disk' = [disk EXCEPT ![p] = t]
    /\ UNCHANGED <<zip, sevenzip, outputDir, job, added, entries, result, zip_of,
                   jobs, report_vars>>

ArchivesNext ==
    \/ Refused
    \/ CompressZip \/ ZipAdd \/ ZipAddFails \/ ZipLevelFails \/ ZipClose
    \/ Compress7z \/ SevenHeader \/ SevenData \/ SevenClose
    \/ DecompressZip \/ DecompressZipFails \/ Decompress7z
    \/ ChangeFile

ArchivesSpec == ArchivesInit /\ [][ArchivesNext]_archive_vars

----------------------------------------------------------------------------
\* A zip archive that is unpacked gives every file that was added, under its
\* filename, as it was when the archive was closed: not when it was added, and
\* of files of one name in several directories the last.  Only the entries
\* whose own output or data failed are excepted, and they are missing or
\* mangled, never another file's.
UnzipRestores ==
    result = "unzipped" =>
        /\ DOMAIN outputDir \subseteq names_of(zip_of.paths)
        /\ \A i \in 1..Len(zip_of.paths) :
              LET p == zip_of.paths[i]
              IN  (\A j \in i+1..Len(zip_of.paths) : zip_of.paths[j].name # p.name)
                    => IF p.name \in damaged
                       THEN p.name \notin DOMAIN outputDir \/ outputDir[p.name] = "mangled"
                       ELSE /\ p.name \in DOMAIN outputDir
                            /\ outputDir[p.name] = zip_of.texts[p]

\* compress() returns true if the compression was successful: the archive then
\* has an entry for each of the files that were added.
CompressedIfTrue == result = "zipped" => names_of(compressed) = DOMAIN zip
=============================================================================
