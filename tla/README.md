# A formal model of the WorkHorz core

WorkHorz is a web-application engine in C++: an HTTP/HTTPS server over a pool of
`io_context`s, a request parser and a file handler, a configuration, a logger, a
Lua core, and a set of helpers (routing, templates, localisation, encryption,
compression, QR codes) that the main program demonstrates but the server does
not call yet. This directory holds TLA+ modules translated from that code, the
TLC configurations that check them and proofs checked by TLAPS. Source paths
below are relative to `src/src/`; `PROJECT.json` maps every definition to its
lines.

## 1. Inventory

| Component | State it keeps | Operations | Used by / uses |
|---|---|---|---|
| Request parser (`whz_request_parser`) | a state of twenty; it fills the connection's `request` | `parse` feeds bytes to `consume` | called by the connection for each read |
| Replies (`whz_common`) | status, headers, content | `stock_reply`, `to_buffers` | filled by the handler, sent by the connection |
| Request handler (`whz_request_handler`, `whz_utils::url_decode`) | document root; none per request | `handle_request` | called by the connection, reads the file system |
| Plain connection (`whz_connection`) | socket, 8192-byte `buffer_`, parser, request, reply | `do_read`, `do_write` handlers | created by the accept loops, kept alive by its handlers |
| TLS connection (`whz_ssl_connection`) | TLS stream, 8192-byte `buffer_` | `do_handshake`, `do_read`, `do_write` (an echo) | created by the TLS accept loop |
| Server (`whz_server`) | signal set, acceptor, pool, TLS flag | construct, bind, two accept loops, `do_await_stop` | owns the pool, starts connections |
| io_context pool (`whz_io_context_pool`) | contexts, work guards, `next_io_context` | `run`, `stop`, `get_io_context` | called by main and by accept handlers on pool threads |
| Configuration (`whz_config`) | loaded flag, one `std::any` per parameter | `read_config`, `relaod_config`, `get_config_value`, `createJSON_config` | read by logger and Lua core |
| Logger (`whz_quill_wrapper`) | per object `is_backend_closed`; one quill logger and backend shared | nine log methods, destructor, `stopLogger` | every component owns an object |
| Lua core (`whz_LUA_core`) | script path, script text, the sol state | three `init_LUA`, `run_LUA_startup_script`, `step_LUA_gc` | reads the configuration |
| Routing (`http_routing`) | a multimap of last parts to paths | `addPathResource`, `findPath` | nobody yet |
| Resources (`whz_resources`, and its older copy `Resources`) | path, type, text and bytes of one file | `loadResource`, `unloadResource`, getters | nobody yet |
| Template cache (`whz_templateCache`) | a multimap of paths to texts | `loadTemplates`, `reloadTemplates`, `getTemplate`, a memory-mapped copy | singleton, nobody yet |
| Templating (`whz_templating`) | a database, a definer | `Create`, `SetTemplateDefiner`, `ProcessTemplate` | main program |
| Localisation (`LocalizationManager`) | table of locales, the global locale of the process | `addLocale`, `switchLocale`, `translate` | singleton with a mutex; main program |
| Encryption (`whz_encryption`) | two key files, `.enc` files | key pairs, file encryption, hashes, signatures, tokens | main program; libsodium |
| Compression (`whz_datacompression`) | zip and 7z archives | compress, decompress, for lists and directories | main program; libzip, libarchive |
| QR code (`whz_qrcode_generator`) | – (files) | png, svg, base64 | main program; qrcodegen, libpng |
| vCard (`whz_vcard`) | fields | text | main program |
| Main program (`whz-core.cpp`) | – | demonstrates the components, then serves | everything |

**What is hard.** The server is the concurrent part: N threads, each with its own
`io_context`, share the acceptor, the signal set and an unlocked index. The
connection is a chain of completion handlers whose state survives from one to
the next, with a peer that sends, closes and resets when it likes. The parser is
a state machine over bytes that are signed chars. The configuration stores
`std::any`s whose dynamic type depends on the parameter and on the validity of
its value, and every reader has to cast to the right one. Logger and Lua core are
sequential objects in which the order of calls matters. Resources, templates,
keys and archives live in files that are read and written in several steps, of
which each may fail, while others change them. The list of hazards, each
at its line and with the properties aimed at it, is in `PROJECT.json`.

**What makes each component correct.**

* parser: it accepts exactly the request messages of an independent grammar,
  stops at the end of the first, and stores what the message says; no undefined
  behaviour on any byte sequence;
* handler: whatever the uri, the file that is opened lies under the document
  root, the reply is framed correctly, and there is one;
* plain connection: the client gets one answer, the one its bytes deserve,
  independently of how they were cut into reads;
* TLS connection: what comes back is a prefix of what was sent;
* server and pool: the index is used by one thread at a time, contexts are
  handed out in turn, clients are accepted, a signal and only a signal ends it;
* configuration: a parameter is what the last file to mention it says, and it
  can be read back;
* logger: a level logs exactly if it is on, nothing is lost at the end, nobody
  uses a logger that is gone;
* Lua core: the script that runs is the one that was asked for;
* routing: a name gives exactly the files and pages that were added with it;
* resources: path, type and contents are those of one file;
* template cache: after a reload no text that is older than it;
* localisation: a thread is answered in the language it switched to;
* encryption: the key files are a pair, and decryption gives back what was
  encrypted;
* compression: what is unpacked is what was packed;
* QR code: the pictures agree, the base64 text decodes to the png;
* templating and main: a template is rendered or refused with a message.

## 2. Modules

| Module | Models | Notes |
|---|---|---|
| `RequestParser` | `consume`, the character classes, `request` | operators: a parser record and a char give a parser record; no state of its own |
| `ParseLoop` | `request_parser::parse` | extends `RequestGrammar`; one step per byte of an arbitrary stream |
| `RequestGrammar` | – | the reference: `IsMessage(s, n)` says of the first n bytes of s that they are a message, `FieldsOf(s, n)` what its request is, by positions and without a state machine |
| `Reply` | `stock_reply`, `to_buffers`, status lines | pages by their length |
| `RequestHandler` | `handle_request`, `url_decode`, the file system | decode, open and read are steps, files change between them |
| `Exchange` | – | abstract: one answer out of those allowed, then the end |
| `Connection` | `connection` | extends `RequestGrammar` (and with it `RequestParser`); refines `Exchange` |
| `SslConnection` | `ssl_connection` | one uninitialised buffer, partial writes |
| `IoContextPool` | – | abstract: atomic round robin |
| `Server` | `server` and `io_context_pool` | refines `IoContextPool` |
| `Config` | `whz_config` | `any` is a record of type name and value |
| `Logger`, `LuaCore` | `whz_qlogger`, `whz_LUA_core` | both extend `Config`, whose values they cast |
| `HttpRouting` | `http_routing` | paths as sequences of characters, for `rfind` and `substr` |
| `Resources` | `whz::resources` | check, open, and of each of the two reads the measurement and every block are steps |
| `TemplateCache` | `whz_templateCache` | a file is opened in one step and its text stored in another; an iterator that may throw |
| `Localization` | `LocalizationManager` | a call is a step, threads interleave between calls |
| `Encryption` | `whz_encryption` | pairs by number, `generateKeyPair` in four steps |
| `DataCompression` | `whz_datacompression` | one step per file; zip is read at the close, 7z at once |
| `QrCodeGenerator` | `whz_qrcode_generator` | both drawings pixel by pixel, base64 three bytes at a time |
| `Startup` | `main`, `TemplateProcessor` | one step per stage, and how it may end the process |
| `MC…` | – | inputs and properties that need them; `MCConnections` and `MCLibrary` put the parts of the two large runs together |
| `…Proofs` | – | theorems |

How the state corresponds to the code:

* **Chars.** Bytes are 0..255; `to_char` makes them the signed chars of the
  parser (`char` is taken to be signed, as on x86-64 and Apple arm64), so bytes above 127
  are negative and `is_char` is false of them. `http_version_major/minor` are
  `uint8_t`: they wrap, and start from arbitrary content (`Garbage`).
* **Grammar.** A message is described by where its lines begin and end (`IsStart`,
  `IsLine`) and where each is cut: at its spaces and its dot, at its colon, at the first
  text of a fold. `Nth` and `Cardinality` number the headers and the bytes of a value, so
  that no recursion is needed. `IsBeginning` says that something can be added to make a
  message; that a rest of `ShortMessage` or `ShortHeader` is always enough is proved.
* **`Connection`.** `buffer` is `buffer_`; a read overwrites its first n bytes
  only. `parse` gets the whole array, as in the code, so `ParseByte` walks to
  `BufSize` and not to n. `phase` is the pending operation. `Dispatch` is the rest
  of the read handler: answer, refuse, or read again. `WriteDone` is the write
  handler, with the `shutdown` that throws if the peer has reset.
* **`Server`.** One handler at a time per context. `get_io_context` is two steps
  (`Take` reads and increments, `Return` wraps), so that two callers can overlap;
  an accept handler is therefore three (accept, take, return), and
  `rearm` remembers which accept it is about to start. `pending` is the queue of
  outstanding accepts, served in order. `StopNext` is one turn of the loop of
  `stop()`, during which other threads go on.
* **`RequestHandler`.** The decoding loop is one step per character or escape;
  `hex_digit`/`extract_hex` model what `std::hex >> uint16_t` makes of two
  characters, signs and the prefix `0x` included. `c_str` cuts the name at a NUL,
  as opening an `ifstream` does. `Texts` are the texts whose encodings `DecodeInverts`
  is about: any set of sequences of characters, a small one in the run.
* **`Config`.** `store` gives each member the type the code gives it: a
  `simdjson_result<…>` for numbers and for all levels but `LOG_INFO`, a
  `string_view` for strings, fallbacks of other types for invalid values.
  `ReadEnds` is where the parser dies that the views point into. `empty_string` stands for
  the empty string of C++, in `LuaCore` too; no file and no script has that name.
* **`HttpRouting`.** `PathChars` is the set of characters paths are made of.
* **`QrCodeGenerator`.** Shifts and masks are divisions and remainders (`value`,
  `sextets`). The reference, `bits` and `decoded`, is how a decoder reads four digits as 24 bits.
* **`Logger`.** `attached` are the objects whose pointer is the logger that quill
  knows now; `stopLogger()` empties it, and every use by an object outside of it sets
  `fault`. No action looks at `closed` but the destructor, as in the code: objects log,
  stop again and are made after a stop. What is logged enters `queue` whether or not
  the backend runs; `flush_log` returns only if it does.
* **`Resources`.** `resource` is the object, `loading` the call, with the size that
  `tellg` gave and the blocks read since. A file that is rewritten in between is read on
  as it is then: longer, and the rest is not asked for; shorter, and the stream fails. A
  failed call leaves the members as far as they were replaced. `held` and `before` are
  history: what the file has held since the call began, and the string before it.
* **`TemplateCache`.** `whz_templates` has a *set* of texts per path: the multimap
  keeps all, and which one `equal_range` gives first is the library's choice.
  `present` bounds what the iterator may miss: nothing that has been there all the time.
  `reading` has the texts a file has held since it was opened; what is stored is one of
  them, or `torn` if there are several.
* **`Encryption`.** Pair 0 are the zeros of a resized vector, which libsodium refuses
  to seal for. `decryptFile` uses an uninitialised public key: any pair may be in it.
  Its output is not checked (`Output`): the file keeps its text, gets a beginning or all of it.
* **`DataCompression`.** libzip notes sources and reads them in `zip_close`, which
  fails if one is gone and leaves the old archive; libarchive cuts or pads data to the size
  in the header ("mangled"). `Unpack` leaves files missing or mangled, as a stream that is not
  open and an error of `zip_fread` do without a trace in the result. `zip_of`, `compressed` and `damaged` are
  history: what was in the files at the close, which files the last call added, and which
  entries an unpacking has damaged.
* **`Startup`.** `seen` is history: what `main` found when it looked for a file. The
  parts `main` demonstrates are not instantiated again: a stage is a step.

## 3. Runs

| Run | Shows |
|---|---|
| `connections` | what happens to one client: see below |
| `connection_split` | *violation*: cut into two reads, a correct request is refused |
| `server` | without and with TLS: no race on the index, round robin, two accepts outstanding, every client accepted, a signal ends the server, nothing runs after the return |
| `server_peer_reset` | *violation*: a client ends the server by a reset |
| `library` | the parser, and the parts around the server, each with every order of its calls: see below |
| `config_views` | *violation*: string parameters dangle after `read_config` |
| `logger_levels` | *violation*: a level turned on does not log, except `LOG_INFO` |
| `logger_stop` | *violation*: `stopLogger` takes the logger from objects that live |
| `key_files` | *violation*: `generateKeyPair` returns another pair than it saves |
| `routing_pages` | *violation*: a path-page is not found under its last part |
| `template_terminates` | *violation*: a template that compiles is neither rendered nor refused, the process ends |
| `archive_reports` | *violation*: `compress` returns true though the archive was not written |

`connections` and `library` are disjoint unions of small systems that do not act on
each other: the initial state chooses a `part` or a `component`, that one moves and the
others rest.

| Part of `connections` | Property | Says |
|---|---|---|
| plain connection | `TypeOK`, `ReplyFollowsVerdict`, `HandledRequest` | with reads that fill the buffer, the handled request is the first message, and the answer that of the parser's verdict |
| plain connection | `ExchangeSpec`, `MessageAnswered` | `Connection` implements `Exchange`; a message is answered unless the peer resets |
| request handler | `Contained`, `DecodeInverts`, `WireFramed` | containment, decoding, framing while another process rewrites the files |
| request handler | `RequestAnswered` | there is a reply, unless the file that is read is made longer again and again |
| TLS connection | `TlsTypeOK`, `EchoComplete`, `EverythingEchoed` | the echo is a prefix of what was sent, in order, and in the end all of it |

| Part of `library` | Property | Says |
|---|---|---|
| parser | `LoopTypeOK`, `HeadersBackDefined`, `FieldsClean`, `FirstMessageFound`, `ParsedFields` | the language of the parser is that of the grammar, and the fields are right |
| configuration | `LastMentionWins` | through reads that succeed, fail and throw, a parameter is what the last file to mention it says |
| logger | `SilentUnlessOn`, `NothingUnwritten`, `NoFault` | levels that are off are silent; what was logged has been written when all objects are closed; a removed logger is used only if `stopLogger` came early or the object had stopped it itself |
| Lua core | `InitThenRun` | a successful init decides what runs |
| routing | `FilesFound` | of the path-files `findPath` gives exactly those with that last part, as often as they were added (of the path-pages none is found: `routing_pages`) |
| resources | `LoadedTogether` | after a successful load path, type and contents are of one file, and of its text alone unless it was rewritten during the call |
| template cache | `ReloadSees` | no text from before the last reload; a torn one only of a file rewritten since |
| localisation | `SwitchHolds` | a thread's language holds until another thread switches |
| encryption | `KeyFilesMatch`, `DecryptRestores` | the files are a pair once both are saved; what is written by a decryption is what was encrypted, or a beginning of it |
| compression | `UnzipRestores` | unzipping gives the files as they were at `zip_close`, of one name the last; only the entries whose own output failed are missing or mangled |
| QR code | `RowsAgree`, `Base64Decodes` | the two pngs are one picture; base64 decodes to its input |

The violations are disagreements between the code and its own comments or
documentation; `PROJECT.json` quotes the lines under "findings".

**Bounds.**

* parser: 20 messages (empty and non-ASCII uri, version numbers below and
  above 255, no header, one, two, a folded one, a fold with nothing to fold), each
  with every byte replaced by each of 13 representatives of the classes that
  `consume` tells apart, and with a byte after the end. Every transition of the
  parser is taken with a right and with a wrong byte. What holds of longer
  messages is proved (section 4).
* request handler: uris of up to three out of eleven pieces, which put any two
  escapes and dots side by side, and the encodings of all texts of up to two
  characters. Files of 0, 2 and 5 bytes and a chunk of 2 (512 in the code) give an
  empty read, a full one, two full ones with a rest, and files that grow and shrink at
  any point of these. A file that grows for ever has no finite model: `RequestAnswered`
  excepts it (`Lengthens`), because the loop of `handle_request` then has no end.
* plain connection: a buffer of 24 bytes (8192 in the code) and messages of 17 to
  45 bytes, so that one fits, one ends at the edge and one needs two reads.
  `Whole = TRUE` restricts the run to reads that fill the buffer or take all that
  is left. This is an assumption about the network that the code makes silently;
  `connection_split` drops it. Even under it the *beginning* of a message
  (`IsBeginning`) may be completed by bytes that are left in the buffer from the read
  before, and be handled: `Verdicts` allows it, and says so.
* TLS connection: buffer of 3, streams of up to 5 over two values: full and
  short reads, and reads after longer ones.
* `server`: three contexts, two clients and up to two accepts that fail. Three
  contexts are the fewest where signal set, acceptor and a connection are all on
  different ones; two clients and two failures make both accept loops go round.
  Whether there is a TLS context is chosen initially. `N = 1` is in
  `server_peer_reset`.
* `library`, per part. *Configuration and Lua core*: two reads of files of up to two
  members, so that a parameter is given twice in a file and in two files,
  validly and not; three calls of the Lua core between them (an init, another one, a
  run). *Logger*: two objects, two messages, two reads. *Routing*: four paths, from two files of one
  name, one whose name begins like it, a page, one without a slash and one that is no
  uri. *Resources*: a text and an image, contents of
  one block and, twice, of two, so that a file may grow, shrink and be rewritten under a read; two loads. *Templates*: two files, two
  contents, two passes, three edits: a load and a reload with edits before,
  between and during them. *Localisation*: two threads, two languages, two
  directories, five calls: both languages added, one twice, and two switches. *Encryption*: four
  pairs, which are two full calls of `generateKeyPair`. *Archives*: three files, two of
  them of one name, three calls (pack, pack again, unpack), a change between any two steps. *QR code*: every code of 2×2
  modules, scales 1 and 2, borders 0 and 1, up to five bytes of base64.
* `config_views`, `logger_levels`, `logger_stop`, `key_files`, `routing_pages`,
  `archive_reports`: one part of `library` by itself, with bounds no larger than there.
  `template_terminates`: `main()` with one change to its files, which puts any
  configuration, database and template there.

No run uses symmetry: the larger ones check liveness.
`CHECK_DEADLOCK FALSE` stands where the system may stop: a connection is closed,
a server returns, a bound is used up.

**Fairness.** Weak fairness of what the code runs, none of what others decide.

* `ParseLoop` and the parts of `library`: none, their properties are safety.
* `RequestHandler`: the handler is a loop on a running thread. What other processes do to
  the files is not fair, and `Answered` does not ask that they stop.
* `Connection`: read handlers complete (the client has sent all it will send) and
  a handler that runs goes on. No fairness of `WriteDone`: a client need not read.
* `SslConnection`: all its operations, which includes that the client reads.
  `EverythingEchoed` allows for a client that leaves.
* `Server`: each thread goes on, and each ready handler is run in the end, because
  an `io_context` is a queue. Clients, failures and signals owe nothing.

## 4. Proofs

Every statement is for all values of the constants.

* **`RequestParserProofs`**, types. `HeadersBackDefined` is not
  inductive alone: a value byte is appended two states after the line start that
  decided there is a header. The inductive `ParserInv` says that the parser is in
  one of the states that use `headers.back()` only with a header there, that the
  fields have their types, and that they are clean. One lemma per group of states
  shows that `consume` keeps it, `ConsumeKeeps` collects them.
* **`RequestParserProofs`**, the language. `After` is `consume()` as a transition
  function on bytes (`ConsumeGoes`). `Shape(s, m, st)` says for each of the twenty states what
  the first m bytes look like in the words of the grammar. `ShapeStep`: a byte that is not rejected leads
  to the shape of the next state, or to a message; so nothing but messages is accepted.
  `MessageGoesOn`: inside a message no byte is rejected, and the verdict is good at its last
  byte and not before; so every message is accepted, and the first one. They need that the cuts
  of a line are unique (`CutsUnique`, `LineEnds`), and that `req.headers.empty()`, which
  decides whether a line may be a fold, agrees with the bytes (`HeadersKnownStep`).
  `Follows` puts both directions together, and `FollowsStep` is its step. `ShapeBegins`: whatever the state,
  the bytes are the beginning of a message, because the rest of a
  shortest message or of a shortest header leads from there to the end.
* **`RequestFieldsProofs`**, the fields. `FieldsRead` says for each state what each field holds: the chars
  between the cuts passed so far, the number of the digits so far modulo 256 (`Counts`), and
  of the headers the `Part` of each that has been read. A byte begins a header, changes the last one or none
  (`HeadersAppended`, `HeadersChanged`, `HeadersKept`); the lemmas on `Nth` say that
  a new largest position comes last and moves no other. What is hard is that a fold goes to the header
  before it, many lines back perhaps, without its blanks (`FoldValueHeaders`, `ValueEnded`). `FieldsEnd`: at the
  last LF the request is `FieldsOf` the message.
* **`ParseLoopProofs`**: `TypeCorrect`, `BackIsSafe`, `FieldsAreClean`, and from `Follows` and
  `Reads` `MessagesFound` (`FirstMessageFound`) and `FieldsParsed` (`ParsedFields`). Assumptions:
  streams are sequences of bytes, garbage is `uint8_t`.
* **`ConnectionProofs`**, any cut into reads (`Whole` or not): `ConnectionTypeCorrect`, `VerdictDecides`, for every buffer
  size. `ParserInv` again is what keeps the parser well formed on stale bytes and padding;
  `ReplyFollowsVerdict` is inductive with it.
* **`ConnectionProofs`**, `ASSUME Whole`: `HandledIsFirst` (`HandledRequest`) and `ExchangeImplemented`, that
  `Connection` implements `Exchange`, for every buffer size of at least 1 and every stream. `Whole` is
  needed: without it a stream with a message is refused (`connection_split`). The
  invariant `WholeInv` has to carry what the parser knows from one read to the next. `Understood(m)`
  says that it has read the m bytes it was given as the first m bytes of *every* stream that begins with
  them, so that what follows in the buffer, received or stale, does not matter; once it is given more than
  the stream has, the stream has no message and is the beginning of one (`ShapeBegins`).
  `Loaded` says that stale bytes are parsed only when the stream is used up. `Exchange` has no
  fairness, so that its refinement is a matter of steps.
* **`SslConnectionProofs`**: `EchoIsComplete`, `EchoTypeCorrect`. `EchoComplete` is not
  inductive: a read needs to know that the buffer has been written out (`FreeInv`), a
  write that the front of the buffer is the end of what was read (`BufferInv`).
* **`RequestHandlerProofs`**, containment: `HandlerTypeCorrect` (every decoded character fits a
  `char`, the index stays within the uri), and `StaysInRoot`, that the name opened begins with a
  slash and has no `..`, for every uri. The invariant `PathInv` carries that
  the path passed the test once decoding is over. The argument has two parts that
  a reader of the code would ask about: appending `index.html` after a slash makes
  no `..`, and cutting at a NUL makes none either.
* **`RequestHandlerProofs`**, decoding and framing: `DecodeIsInverse` and `RepliesFramed`,
  for every set of texts of characters and files of any length.
  `DecodeInv` says that after k escapes the path is the first k
  characters of the text, and that an acceptable text is not refused in any later
  phase. `RepliesFramed` needs that `Content-Length` *reads back* as the
  length, although one is written by `to_string` and read by `Decimal`, two recursive
  functions. Their values are pinned down with the least-number principle (`WFMin`
  over `NatLessThanWellFounded`): `PrintsExists` and `PrintsUnique` show that each number has
  one row of digits, `ReadsUnique` that each row has one value, and `DecimalOfString` that
  they agree. `ReplyInv` says that a finished reply has the headers of the content it is sent
  with, and `BuffersAre` what the eleven buffers of such a reply are, so that there is one empty line.
* **`ServerProofs`**: `ServerTypeCorrect`, `IndexIsNotShared`, `LoadIsBalanced`,
  `PoolIsRoundRobin`, for every pool size N ≥ 1 and set of clients. `NoRaceOnIndex`
  rests on *who* may be in `get_io_context`: the main thread until `run()`, then
  only the acceptor's thread (`OwnerInv`), because only that thread has an accept
  to start again (`RearmInv`). Without it `TypeOK` fails too: two overlapping
  callers would leave the index past the end. `ShareInv` counts what has been
  handed out, and the refinement maps the index N to 0.
  `TwoAcceptsKept` counts the accepts: `AcceptsInv` says how many
  are pending at each stage of `main` and of which kind, and that from `run()` on one is
  missing only while its handler is on the way to start it again.
  `QuietWhenReturned`, an action property: `main` returns when every thread has finished, and a
  thread that has finished is in no handler and its context is stopped (`QuietInv`); every action
  of a handler, a connection or the signal set then has a false guard.
* **`LibraryProofs`**: configuration, logger and Lua core, for every set of files and scripts,
  any number of objects and of calls.
  * `LoggerConfigHolds`, `LuaConfigHolds`: `LastMentionWins` for both modules that extend
    `Config`. It speaks of the time between calls; the invariant has to hold during a read too.
    `HoldsInv` says of each parameter that it holds what the last member *seen* says, where
    the members seen are those of earlier reads and the part of this one that the loop has been through
    (`LoopInv` ties the rest of the loop to the file).
  * `LoggerSilent`, `LoggerFlushes`, `LoggerNoFault`: `AttachedInv` says that an object that lives
    without the logger was overtaken by another one's `stopLogger()`, and that only live
    objects have it; `MessagesInv` that a message is written or in the queue, and that while one is
    in the queue some object is left whose destructor flushes it. `LastMentionWins` gives what the
    level test has read.
  * `LuaInitThenRun`: path and text are set by the same call when it returns true.

* **`LibraryProofs`**, the other parts of `library`, each for every value of its constants.
  * `LoadsBelongTogether`: `LoadInv` says that a running call has a file that was
    there, with its path and type in the object; `ReadInv` that what a read has got so far is, block
    for block, of texts the file has held, and that it was as long as it was measured (`BlendedMore`).
  * `ReloadIsSeen`, `TemplatesTypeCorrect`: `CacheInv` says that every entry is a text the file has held
    since the cache was cleared, or torn if there were several (`MayHold`), and that after a complete pass a file without an entry has
    been missing or unreadable since then. During a pass this is true of the
    visited files only, and of the rest what `present` says.
  * `SwitchIsKept`, `LocTypeCorrect`: the global locale is the one of the thread that
    switched last, and the table has the first directory of each language.
  * `KeyFilesAreAPair`, `DecryptionRestores`: while `generateKeyPair` runs, the files written so
    far have the pair of the vectors; a sealed `.enc` holds the text that is remembered as its original
    (`SealInv`), and an output that was not opened or cut short leaves no other text.
  * `FindIsExact`: `RoutingInv` says that the multimap has every path taken, under the part after its
    last slash, as often as it was taken. The lemmas below it show that `rfind` and
    `substr` compute that part, and only that one (`IsLastPart`); pages are filed apart from them.
  * `UnzipIsRight`: while `compressZip` runs, the paths noted by libzip are those of the call, and
    the archive is that of the last close that succeeded (`ArchiveInv`); what was unpacked is the
    archive but for the entries that failed (`Unpacked`); the last path of its name
    is the source of its entry (`LastIsSource`).
  * `PicturesAgree`: `writePNG` asks of each pixel which module it belongs to (a division),
    `encodeBase64Png` paints the pixels of each module (a product). That they agree for every scale and
    border rests on the uniqueness of quotient and remainder (`DivisionUnique`, `OnePlace`). `QrInv` says that
    the rows so far are the rows of the text, and the image and the svg those of the text.
  * `EncodingDecodes`: `Base64Inv` says that after g turns there are the 4g digits of the first
    3g bytes. `DigitsAre` shows for one group that reading its digits gives back its three bytes and
    where the padding is; `PaddingIs` and `BytesAre` put that together for the whole text.

Only model-checked:

* all liveness: `RequestAnswered`, `MessageAnswered`, `EverythingEchoed`, `SignalStops`,
  `EveryClientAccepted`. The prover has no rules for fairness.

## 5. Observations without a run

* The stock page of 404 carries another text than its status
  (`whz_common.cpp:154`). A directory opens as an empty file and is answered 200.
* With TLS, a plain and a TLS accept loop are armed on the same acceptor, so that
  successive clients get the two kinds in turn (`TwoAccepts`).
* `bind_and_listen` never returns an error: the calls it makes throw. A pool of
  size 0 ends the process. Both are outside `Server`'s behaviours (`Bind` may
  terminate it, N ≥ 1 is assumed).
* The readers of the configuration cast to other types than those stored.
  `logger_levels` shows it for the levels. In `LuaCore` it is visible in the
  actions: `init_LUA()` throws whenever a startup script is configured
  (`InitConfigCasts`; the comment at `whz_LUA_core.cpp:115` says it is loaded),
  and `step_LUA_gc` throws for a valid step size and steps by 1000000 for an
  invalid one (`StepGc`; the comment at `whz_LUA_core.cpp:141` says 100KB).
* `init_LUA(string)` assigns the path before it is checked: after a failure path and
  text belong to different scripts, and `run_LUA_startup_script` runs the text.
  `InitThenRun` says what is left.
* `relaod_config` reads without a name and always fails; `createJSON_config`
  always throws. The `Config` object makes its logger before the configuration is read.
* `addPathResource` takes only uris with a scheme, though `http_routing.hpp:30` asks for
  relative paths, and adds a path again that is there; `findPath` returns an empty list, not `nullopt`, for a name it does not find.
* The constructors of `whz::resources` are declared and not defined. Loading an
  image twice leaks the first array. A failed load has already replaced the path.
* `loadResource` may return true with contents the file never had as a whole: it asks for as many
  bytes as the file had when it was measured, and reads them one buffer after the other.
* After `stopLogger()` a flush waits for a backend that is gone, unless quill starts it again for
  an object made later.
* `loadTemplates` twice without a reload leaves two entries of a path, and
  `getTemplate` may give the old one.
* `decompress` returns true though entries could not be written (`Unpack`); files of one name
  overwrite each other in a zip archive; 7z entries whose file changes between header and data are cut or
  padded, and where `readsome` gives nothing all are.
* `decryptFile` opens the seal with an uninitialised public key, so that it
  succeeds only by chance; `encryptFile` goes on after errors and writes zeros. Neither checks
  its output.
* `generateQRCode` is `noexcept` around a call that throws for a text that is too
  long. The border counts modules in the svg and pixels in the pngs.
* `translate` answers in the language of whichever thread switched last.

## 6. What is not modelled, and the plan

Done, in this order: parser and its grammar, handler and replies, server and
pool, connections, configuration, logger, Lua core; then routing, resources,
template cache, localisation, encryption, compression, QR code and the main
program; theorems for every module with a safety property that holds.

Every safety invariant, action property and refinement that a passing run checks has a theorem.
What a violation run refutes has none. Left is liveness, which stays with TLC, and what the
list below names.

## Not modelled

* `whz_utils`: the conversions between `string` and `u8string` and
  `sanitize_utf8_string`, which are text to text without a decision anyone depends on.
* `whz_encryption`: password hashes, signatures, tokens: single calls of libsodium
  whose correctness is libsodium's.
* `LocalizationManager`: the formatting of dates, numbers and currency by the locale.
* `whz_vcard`: fields and their text. Lua API, renderer, template parser, client
  request and `whz_http_routing`: declared or empty.
* `FetchData` after its first call: `GetTemplateVariables` terminates the process.
* The vendored libraries; what the code uses of them is marked external in the map.
